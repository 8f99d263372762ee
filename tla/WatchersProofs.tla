--------------------------- MODULE WatchersProofs ---------------------------
(***************************************************************************)
(* The watchers, for any names and depth, any tree to begin with and any   *)
(* number of changes of it.                                                *)
(*                                                                         *)
(* The stack of insert_watcher() rises, so its loop always pops an end of  *)
(* it; what the loop and remove_watcher() do to the pointers keeps every   *)
(* watcher that is not freed away from those that are, and a sweep of      *)
(* cleanup_watchers() frees each watcher before the one its prev leads to, *)
(* if each has its watch.                                                  *)
(*                                                                         *)
(* Where no directory is hidden, a removal takes what is below it.  Where  *)
(* directories are only made, however they race the scans, the watchers    *)
(* are the tree of the directories, no directory has two, and every one    *)
(* has one when all is handled, but for those refused a watch and what is  *)
(* below them, and the thread survives.  Each of these rests on the        *)
(* invariant of the one before it.                                         *)
(***************************************************************************)
EXTENDS Watchers, SequenceTheorems, FiniteSetTheorems,
        WellFoundedInduction, TLAPS

Frames == [path : Paths, todo : SUBSET Names, shut : Inodes]
Tasks  == [op : {"post", "next", "free"}, cell : Nat]

\* Each directory nftw() is in is below the one before it, and what it has still to
\* read there are paths.
Walking ==
  /\ frames \in Seq(Frames)
  /\ \A k \in 1..Len(frames) : Len(frames[k].path) >= k - 1
  /\ \A k \in 1..Len(frames) : \A n \in frames[k].todo : Append(frames[k].path, n) \in Paths

\* A scan that is not the first is of a directory in the viewer's; between scans the
\* stack is empty.
Attached ==
  /\ pc \notin {"scan", "failed"} => stack = <<>>
  /\ root = Nil => pc \in {"scan", "failed"}
  /\ pc = "scan" /\ root # Nil => viewer \in live

Types ==
  /\ TypeOK
  /\ Walking
  /\ Attached
  /\ stack \in Seq(Nat)
  /\ work \in Seq(Tasks)

-----------------------------------------------------------------------------
(* Paths *)

LEMMA PathIsSeq == \A p : p \in Paths <=> p \in Seq(Names) /\ Len(p) <= MaxDepth
<1> TAKE p
<1>1. ASSUME p \in Paths PROVE p \in Seq(Names) /\ Len(p) <= MaxDepth
  <2>1. PICK n \in 0..MaxDepth : p \in [1..n -> Names]
    BY <1>1 DEF Paths
  <2> QED
    BY <2>1, BoundsAssumption
<1>2. ASSUME p \in Seq(Names), Len(p) <= MaxDepth PROVE p \in Paths
  <2>1. p \in [1..Len(p) -> Names] /\ Len(p) \in 0..MaxDepth
    BY <1>2, LenProperties, BoundsAssumption
  <2> QED
    BY <2>1 DEF Paths
<1> QED
  BY <1>1, <1>2

LEMMA RootIsPath == Root \in Paths
<1>1. <<>> \in Seq(Names) /\ Len(<<>>) = 0
  BY EmptySeq
<1>2. MaxDepth \in Nat
  BY BoundsAssumption
<1>3. <<>> \in Paths <=> <<>> \in Seq(Names) /\ Len(<<>>) <= MaxDepth
  BY PathIsSeq, Zenon
<1> QED
  BY <1>1, <1>2, <1>3 DEF Root

\* Also of a name that is none, as in an event.
LEMMA PathOfName ==
  \A p \in Paths : \A n :
    /\ Len(Append(p, n)) = Len(p) + 1
    /\ Append(p, n) # Root
    /\ ParentOf(Append(p, n)) = p
    /\ Append(p, n) \in Paths => n \in Names
<1> TAKE p \in Paths
<1> TAKE n
<1> DEFINE S == Names \cup {n}
           q == Append(p, n)
<1>1. p \in Seq(S) /\ n \in S /\ p \in Seq(Names)
  BY PathIsSeq
<1>2. q \in Seq(S) /\ Len(q) = Len(p) + 1 /\ Len(p) \in Nat
      /\ \A k \in 1..Len(p) : q[k] = p[k]
  BY <1>1
<1>3. q[Len(p) + 1] = n
  BY <1>1
<1>4. q # Root
  BY <1>2, EmptySeq DEF Root
<1>5. ParentOf(q) = p
  <2>1. ParentOf(q) = SubSeq(q, 1, Len(p))
    BY <1>2 DEF ParentOf
  <2>2. \A k \in 1..Len(p) : q[k] \in S
    BY <1>1, <1>2
  <2>3. SubSeq(q, 1, Len(p)) \in Seq(S) /\ Len(SubSeq(q, 1, Len(p))) = Len(p)
        /\ \A k \in 1..Len(p) : SubSeq(q, 1, Len(p))[k] = q[k]
    BY <1>2, <2>2, SubSeqProperties
  <2> QED
    BY <2>1, <2>3, <1>1, <1>2, SeqEqual
<1>6. q \in Paths => n \in Names
  <2> SUFFICES ASSUME q \in Paths PROVE n \in Names
    OBVIOUS
  <2> HIDE DEF q
  <2>1. q \in Seq(Names) /\ Len(p) + 1 \in 1..Len(q)
    BY <1>2, PathIsSeq
  <2> QED
    BY <2>1, <1>3, ElementOfSeq
<1> QED
  BY <1>2, <1>4, <1>5, <1>6

LEMMA SubdirsArePaths ==
  \A p : Subdirs(p) \subseteq Names /\ \A n \in Subdirs(p) : Append(p, n) \in Paths
BY DEF Subdirs

LEMMA ParentFacts ==
  \A p \in Paths : p # Root =>
    /\ Len(p) \in Nat \ {0} /\ Len(ParentOf(p)) = Len(p) - 1
    /\ \A k \in 1..Len(p) - 1 : ParentOf(p)[k] = p[k]
<1> TAKE p \in Paths
<1> HAVE p # Root
<1>1. p \in Seq(Names) /\ Len(p) \in Nat /\ DOMAIN p = 1..Len(p)
  BY PathIsSeq
<1>2. Len(p) # 0
  BY <1>1, EmptySeq DEF Root
<1>3. \A k \in 1..Len(p) - 1 : p[k] \in Names
  BY <1>1
<1>4. Len(p) - 1 \in Nat
  BY <1>1, <1>2
<1>5. PICK n \in Nat : n = Len(p) - 1
  BY <1>4
<1>6. /\ Len(SubSeq(p, 1, n)) = n
      /\ \A k \in 1..n : SubSeq(p, 1, n)[k] = p[k]
  BY <1>3, <1>5, SubSeqProperties
<1> QED
  BY <1>1, <1>2, <1>5, <1>6 DEF ParentOf

LEMMA NameOfPath ==
  \A p \in Paths : p # Root => NameOf(p) \in Names /\ ParentOf(p) \in Paths
<1> TAKE p \in Paths
<1> HAVE p # Root
<1>1. p \in Seq(Names) /\ Len(p) \in Nat \ {0} /\ Len(p) <= MaxDepth
  BY PathIsSeq, ParentFacts
<1>2. PICK n \in Nat : n = Len(p) - 1
  BY <1>1
<1>3. \A k \in 1..n : p[k] \in Names
  BY <1>1, <1>2, ElementOfSeq
<1>4. SubSeq(p, 1, n) \in Seq(Names) /\ Len(SubSeq(p, 1, n)) = n
  BY <1>2, <1>3, SubSeqProperties
<1>5. n <= MaxDepth
  BY <1>1, <1>2, BoundsAssumption
<1>6. ParentOf(p) \in Paths
  BY <1>2, <1>4, <1>5, PathIsSeq DEF ParentOf
<1>7. NameOf(p) \in Names
  BY <1>1, ElementOfSeq DEF NameOf
<1> QED
  BY <1>6, <1>7

LEMMA NameOfAppend ==
  \A p \in Paths : \A n : Append(p, n) \in Paths => NameOf(Append(p, n)) = n
<1> TAKE p \in Paths
<1> TAKE n
<1> HAVE Append(p, n) \in Paths
<1>1. p \in Seq(Names) /\ n \in Names /\ Len(Append(p, n)) = Len(p) + 1
  BY PathIsSeq, PathOfName
<1> QED
  BY <1>1, AppendProperties DEF NameOf

LEMMA AppendParts ==
  \A q \in Paths : q # Root => Append(ParentOf(q), NameOf(q)) = q
<1> TAKE q \in Paths
<1> HAVE q # Root
<1>1. ParentOf(q) \in Paths /\ NameOf(q) \in Names /\ ParentOf(q) \in Seq(Names)
  BY NameOfPath, PathIsSeq
<1>2. /\ q \in Seq(Names) /\ Len(q) \in Nat \ {0} /\ Len(ParentOf(q)) = Len(q) - 1
      /\ \A k \in 1..Len(q) - 1 : ParentOf(q)[k] = q[k]
  BY PathIsSeq, ParentFacts
<1> DEFINE r == Append(ParentOf(q), NameOf(q))
<1>3. /\ r \in Seq(Names) /\ Len(r) = Len(q) /\ r[Len(q)] = NameOf(q)
      /\ \A k \in 1..Len(q) - 1 : r[k] = ParentOf(q)[k]
  BY <1>1, <1>2, AppendProperties
<1> HIDE DEF r
<1>4. \A k \in 1..Len(q) : r[k] = q[k]
  <2> TAKE k \in 1..Len(q)
  <2>1. CASE k = Len(q)
    BY <1>3, <2>1 DEF NameOf
  <2>2. CASE k \in 1..Len(q) - 1
    BY <1>2, <1>3, <2>2
  <2> QED
    BY <1>2, <2>1, <2>2
<1> QED
  BY <1>2, <1>3, <1>4, SeqEqual DEF r

-----------------------------------------------------------------------------
(* What the types say of a watcher, and of the stack *)

LEMMA CellTypes ==
  ASSUME Types
  PROVE  /\ Len(heap) \in Nat /\ DOMAIN heap = 1..Len(heap)
         /\ \A c \in 1..Len(heap) :
              /\ heap[c] \in Watchers
              /\ heap[c].path \in Paths /\ heap[c].wd \in Inodes
              /\ heap[c].level \in 0..MaxDepth /\ heap[c].level \in Nat
              /\ heap[c].prev \in Nat /\ heap[c].child \in Nat /\ heap[c].sibling \in Nat
         /\ live \subseteq 1..Len(heap) /\ live \subseteq Nat /\ IsFiniteSet(live)
         /\ Len(stack) \in Nat /\ DOMAIN stack = 1..Len(stack)
         /\ \A m \in 1..Len(stack) : stack[m] \in live /\ stack[m] \in 1..Len(heap)
<1>1. heap \in Seq(Watchers) /\ stack \in Seq(Nat)
      /\ live \subseteq DOMAIN heap /\ {stack[i] : i \in DOMAIN stack} \subseteq live
  BY DEF Types, TypeOK
<1>2. Len(heap) \in Nat /\ DOMAIN heap = 1..Len(heap)
      /\ Len(stack) \in Nat /\ DOMAIN stack = 1..Len(stack)
  BY <1>1, LenProperties
<1>3. \A c \in 1..Len(heap) : heap[c] \in Watchers
  BY <1>1, ElementOfSeq
<1>4. MaxDepth \in Nat
  BY BoundsAssumption
<1>5. \A x \in Watchers :
         /\ x.path \in Paths /\ x.wd \in Inodes
         /\ x.level \in 0..MaxDepth /\ x.level \in Nat
         /\ x.prev \in Nat /\ x.child \in Nat /\ x.sibling \in Nat
  BY <1>4 DEF Watchers
<1>6. live \subseteq 1..Len(heap) /\ live \subseteq Nat
  BY <1>1, <1>2
<1>7. IsFiniteSet(live)
  <2>1. IsFiniteSet(1..Len(heap))
    <3>1. 1 \in Int /\ Len(heap) \in Int
      BY <1>2
    <3> QED
      BY <3>1, FS_Interval, Zenon
  <2> QED
    BY <1>6, <2>1, FS_Subset, Zenon
<1>8. \A m \in 1..Len(stack) : stack[m] \in live /\ stack[m] \in 1..Len(heap)
  BY <1>1, <1>2
<1> QED
  BY <1>2, <1>3, <1>5, <1>6, <1>7, <1>8

-----------------------------------------------------------------------------
(* insert_watcher() *)

\* Some of a finite number of consecutive numbers has the property the last has.
LEMMA LeastOfNat ==
  ASSUME NEW S \in SUBSET Nat, S # {}
  PROVE  \E k \in S : \A m \in S : k <= m
<1> DEFINE R == OpToRel(<, Nat)
<1>1. IsWellFoundedOn(R, Nat)
  BY NatLessThanWellFounded
<1> HIDE DEF R
<1>2. PICK k \in S : \A m \in Nat : m \in S => ~(<<m, k>> \in R)
  BY <1>1, WFMin
<1>3. \A m \in S : ~(m < k)
  BY <1>2 DEF R, OpToRel
<1> QED
  BY <1>2, <1>3

LEMMA SuffixOrAll ==
  ASSUME NEW n \in Nat, NEW S \in SUBSET (1..n),
         \A k \in S : \A m \in k..n : m \in S
  PROVE  \E k \in 0..n : S = k + 1..n
<1>1. CASE S = {}
  BY <1>1
<1>2. CASE S # {}
  <2>1. PICK k \in S : \A m \in S : k <= m
    <3>1. S \subseteq Nat /\ IsFiniteSet(1..n)
      BY FS_Interval
    <3> QED
      BY <1>2, <3>1, LeastOfNat
  <2>2. S \subseteq k..n
    BY <2>1
  <2>3. k..n \subseteq S
    OBVIOUS
  <2>4. S = k..n
    BY <2>2, <2>3
  <2>5. k - 1 \in 0..n /\ (k - 1) + 1 = k
    OBVIOUS
  <2> QED
    BY <2>4, <2>5
<1> QED
  BY <1>1, <1>2

\* The tops the loop pops are the end of the stack, from the first that is no higher
\* than the new watcher on.
LEMMA PoppedIsEnd ==
  ASSUME Types, NEW l \in Nat
  PROVE  \E k \in 0..Len(stack) :
           /\ Popped(l) = k + 1..Len(stack)
           /\ Len(stack) - Cardinality(Popped(l)) = k
           /\ k > 0 => heap[stack[k]].level < l
           /\ \A m \in k + 1..Len(stack) : heap[stack[m]].level >= l
<1>1. Len(stack) \in Nat
  BY DEF Types
<1>2. \A m \in 1..Len(stack) : heap[stack[m]].level \in Nat
  BY CellTypes
<1>3. PICK k \in 0..Len(stack) : Popped(l) = k + 1..Len(stack)
  <2>1. Popped(l) \in SUBSET (1..Len(stack))
    BY DEF Popped
  <2>2. \A i \in Popped(l) : \A m \in i..Len(stack) : m \in Popped(l)
    BY <1>1 DEF Popped
  <2> HIDE DEF Popped
  <2> QED
    BY <1>1, <2>1, <2>2, SuffixOrAll
<1>4. Len(stack) - Cardinality(Popped(l)) = k
  <2>1. Cardinality(k + 1..Len(stack)) = IF k + 1 > Len(stack) THEN 0 ELSE Len(stack) - (k + 1) + 1
    <3>1. k + 1 \in Int /\ Len(stack) \in Int
      BY <1>1
    <3> QED
      BY <3>1, FS_Interval, Zenon
  <2> QED
    BY <1>1, <1>3, <2>1
<1>5. \A m \in k + 1..Len(stack) : heap[stack[m]].level >= l
  BY <1>1, <1>3 DEF Popped
<1>6. k > 0 => heap[stack[k]].level < l
  <2> SUFFICES ASSUME k > 0, ~(heap[stack[k]].level < l) PROVE FALSE
    OBVIOUS
  <2>1. \A m \in k..Len(stack) : heap[stack[m]].level >= l
    BY <1>1, <1>2, <1>5
  <2>2. k \in Popped(l)
    BY <1>1, <2>1 DEF Popped
  <2> QED
    BY <1>1, <1>3, <2>2
<1> QED
  BY <1>3, <1>4, <1>5, <1>6

\* insert_watcher(p, d) at level l, which pops what is above place k of the stack.
Inserted(p, d, l, k) ==
  LET w == Len(heap) + 1
  IN /\ k \in 0..Len(stack)
     /\ k > 0 => heap[stack[k]].level < l
     /\ \A m \in k + 1..Len(stack) : heap[stack[m]].level >= l
     /\ Len(heap') = w /\ DOMAIN heap' = 1..w
     /\ heap'[w] = NewWatcher(p, d, l)
     /\ \A c \in 1..Len(heap) :
          heap'[c] = IF \E m \in k + 1..Len(stack) : stack[m] = c
                     THEN [heap[c] EXCEPT !.prev = w] ELSE heap[c]
     /\ Len(stack') = k + 1 /\ DOMAIN stack' = 1..k + 1
     /\ stack'[k + 1] = w
     /\ \A m \in 1..k : stack'[m] = stack[m]
     /\ live' = live \cup {w} /\ table' = table \cup {w}

\* Of the watchers at the places S, the one popped last.
LastOf(S, c) ==
  \/ S = {} /\ c = Nil
  \/ \E m \in S : c = stack[m]

LEMMA LastPoppedIsOne ==
  ASSUME Types, NEW S \in SUBSET (1..Len(stack))
  PROVE  LastOf(S, LastPopped(S))
<1>1. CASE S = {}
  BY <1>1 DEF LastPopped, LastOf
<1>2. CASE S # {}
  <2>1. S \in SUBSET Nat
    BY CellTypes
  <2>2. \E k \in S : \A m \in S : k <= m
    BY <1>2, <2>1, LeastOfNat
  <2>3. Least(S) \in S
    BY <2>2 DEF Least
  <2> QED
    BY <1>2, <2>3 DEF LastPopped, LastOf
<1> QED
  BY <1>1, <1>2

LEMMA InsertFacts ==
  ASSUME Types, NEW p \in Paths, NEW d \in Inodes, NEW l \in 0..MaxDepth, Insert(p, d, l)
  PROVE  /\ \E k \in 0..Len(stack) :
              /\ Inserted(p, d, l, k)
              /\ LastOf({m \in k + 1..Len(stack) : heap[stack[m]].level > l},
                        NewWatcher(p, d, l).child)
              /\ LastOf({m \in k + 1..Len(stack) : heap[stack[m]].level = l},
                        NewWatcher(p, d, l).sibling)
         /\ NewWatcher(p, d, l) \in Watchers
         /\ heap' \in Seq(Watchers)
         /\ stack' \in Seq(Nat)
<1> DEFINE w == Len(heap) + 1
           back == {stack[i] : i \in Popped(l)}
           h == [c \in DOMAIN heap |-> IF c \in back THEN [heap[c] EXCEPT !.prev = w] ELSE heap[c]]
<1>1. l \in Nat /\ w \in Nat
  BY CellTypes, BoundsAssumption
<1>2. PICK k \in 0..Len(stack) :
           /\ Popped(l) = k + 1..Len(stack)
           /\ Len(stack) - Cardinality(Popped(l)) = k
           /\ k > 0 => heap[stack[k]].level < l
           /\ \A m \in k + 1..Len(stack) : heap[stack[m]].level >= l
  BY <1>1, PoppedIsEnd
<1>3. /\ heap' = Append(h, NewWatcher(p, d, l))
      /\ live' = live \cup {w} /\ table' = table \cup {w}
      /\ stack' = Append(SubSeq(stack, 1, k), w)
  BY <1>2 DEF Insert
<1>4. \A S \in SUBSET (1..Len(stack)) : LastPopped(S) \in Nat
  BY LastPoppedIsOne, CellTypes DEF LastOf, Nil
<1>5. PoppedSame(l) = {m \in k + 1..Len(stack) : heap[stack[m]].level = l}
  BY <1>2 DEF PoppedSame
<1>6. PoppedDeeper(l) = {m \in k + 1..Len(stack) : heap[stack[m]].level > l}
  <2>1. \A m \in k + 1..Len(stack) : heap[stack[m]].level \in Nat
    BY CellTypes
  <2> QED
    BY <1>1, <1>2, <1>5, <2>1 DEF PoppedDeeper
<1>7. PoppedSame(l) \in SUBSET (1..Len(stack)) /\ PoppedDeeper(l) \in SUBSET (1..Len(stack))
  BY <1>5, <1>6, CellTypes
<1>8. NewWatcher(p, d, l).child = LastPopped(PoppedDeeper(l))
      /\ NewWatcher(p, d, l).sibling = LastPopped(PoppedSame(l))
  BY DEF NewWatcher
<1>9. NewWatcher(p, d, l) \in Watchers
  <2>1. LastPopped(PoppedDeeper(l)) \in Nat /\ LastPopped(PoppedSame(l)) \in Nat
    BY <1>4, <1>7
  <2> QED
    BY <2>1 DEF NewWatcher, Watchers, Nil
<1>10. h \in Seq(Watchers) /\ Len(h) = Len(heap) /\ DOMAIN h = 1..Len(heap)
  <2>1. \A c \in 1..Len(heap) : [heap[c] EXCEPT !.prev = w] \in Watchers
    BY <1>1, CellTypes DEF Watchers
  <2>2. h \in [1..Len(heap) -> Watchers]
    BY <2>1, CellTypes
  <2> QED
    BY <2>2, CellTypes
<1>11. heap' \in Seq(Watchers) /\ Len(heap') = w /\ DOMAIN heap' = 1..w
       /\ heap'[w] = NewWatcher(p, d, l)
       /\ \A c \in 1..Len(heap) : heap'[c] = h[c]
  <2> HIDE DEF h
  <2> QED
    BY <1>3, <1>9, <1>10, CellTypes
<1>12. \A c \in 1..Len(heap) : h[c] = IF \E m \in k + 1..Len(stack) : stack[m] = c
                                     THEN [heap[c] EXCEPT !.prev = w] ELSE heap[c]
  <2>1. \A c : c \in back <=> \E m \in k + 1..Len(stack) : stack[m] = c
    BY <1>2
  <2> QED
    BY <2>1, CellTypes
<1>13. stack' \in Seq(Nat) /\ Len(stack') = k + 1 /\ DOMAIN stack' = 1..k + 1
       /\ stack'[k + 1] = w /\ \A m \in 1..k : stack'[m] = stack[m]
  <2> DEFINE s == SubSeq(stack, 1, k)
  <2>1. s \in Seq(Nat) /\ Len(s) = k /\ \A m \in 1..k : s[m] = stack[m]
    BY CellTypes DEF Types
  <2> HIDE DEF s
  <2>2. stack' = Append(s, w)
    BY <1>3 DEF s
  <2> QED
    BY <1>1, <2>1, <2>2
<1>14. Inserted(p, d, l, k)
  <2> HIDE DEF h
  <2> QED
    BY <1>2, <1>3, <1>11, <1>12, <1>13 DEF Inserted
<1>15. LastOf({m \in k + 1..Len(stack) : heap[stack[m]].level > l}, NewWatcher(p, d, l).child)
  BY <1>6, <1>7, <1>8, LastPoppedIsOne
<1>16. LastOf({m \in k + 1..Len(stack) : heap[stack[m]].level = l}, NewWatcher(p, d, l).sibling)
  BY <1>5, <1>7, <1>8, LastPoppedIsOne
<1> QED
  BY <1>9, <1>11, <1>13, <1>14, <1>15, <1>16

-----------------------------------------------------------------------------
(* TypeOK *)

FsTypes ==
  /\ dirs \in [Paths -> Inodes] /\ dirs[Root] # None
  /\ made \in 0..MaxMade
  /\ {quiet, calm} \subseteq BOOLEAN

TreeTypes ==
  /\ heap \in Seq(Watchers)
  /\ live \subseteq DOMAIN heap
  /\ table = live
  /\ stack \in Seq(Nat)
  /\ {stack[i] : i \in DOMAIN stack} \subseteq live

ControlTypes ==
  /\ pc \in {"scan", "idle", "write", "handle", "remove", "cleanup", "swept",
            "failed", "undefined"}
  /\ cause \in {"none", "nftw", "assert_stack", "assert_viewer", "assert_actor",
               "remove", "cleanup", "walk"}
  /\ root \in DOMAIN heap \cup {Nil}
  /\ viewer \in DOMAIN heap \cup {Nil}
  /\ pipe \in 0..PipeCap
  /\ work \in Seq(Tasks)

LEMMA TypesParts == Types <=> FsTypes /\ TreeTypes /\ ControlTypes /\ Walking /\ Attached
<1>1. Walking => \A i \in DOMAIN frames : /\ frames[i].path \in Paths /\ frames[i].todo \subseteq Names
                                          /\ frames[i].shut \in Inodes
  <2>1. \A f \in Frames : f.path \in Paths /\ f.todo \subseteq Names /\ f.shut \in Inodes
    BY DEF Frames
  <2>2. Walking => \A i \in DOMAIN frames : frames[i] \in Frames
    BY DEF Walking
  <2> QED
    BY <2>1, <2>2
<1> QED
  BY <1>1 DEF Types, TypeOK, FsTypes, TreeTypes, ControlTypes

LEMMA NoneIsInode == None \in Inodes
BY DEF Inodes

\* A directory nftw() comes to is listed or, refused to opendir(), shut.
LEMMA OpenedFacts ==
  ASSUME FsTypes, NEW p \in Paths, NEW f \in Opened(p)
  PROVE  /\ f \in Frames /\ f.path = p
         /\ f.todo \subseteq Subdirs(p) /\ f.shut \in {None, dirs[p]}
         /\ f.shut = None \/ f.todo = {}
         /\ f.shut = None \/ f.shut = dirs[p]
         /\ f = Listed(p) \/ f.shut = dirs[p]
         /\ \A n \in f.todo : Append(p, n) \in Paths
<1>1. f = Listed(p) \/ f = Shut(p)
  BY DEF Opened
<1>2. dirs[p] \in Inodes
  BY DEF FsTypes
<1>3. Subdirs(p) \subseteq Names /\ \A n \in Subdirs(p) : Append(p, n) \in Paths
  BY SubdirsArePaths, Zenon
<1> QED
  BY <1>1, <1>2, <1>3, NoneIsInode DEF Listed, Shut, Frames

\* The watch asked for on a directory is that of the inode at its path, or refused.
LEMMA AddWatchFacts ==
  ASSUME FsTypes, NEW f \in Frames, NEW d \in AddWatch(f)
  PROVE  /\ d \in Inodes /\ d \in {dirs[f.path], None}
         /\ f.shut = dirs[f.path] => d = None
<1>1. d = None \/ d = dirs[f.path]
  BY DEF AddWatch
<1>2. f.path \in Paths
  BY DEF Frames
<1>3. dirs[f.path] \in Inodes
  BY <1>2 DEF FsTypes
<1> QED
  BY <1>1, <1>3, NoneIsInode DEF AddWatch

LEMMA OneFrame ==
  ASSUME FsTypes, NEW p \in Paths, NEW f \in Opened(p), frames' = <<f>>
  PROVE  Walking'
<1>1. Len(frames') = 1 /\ frames'[1] = f /\ frames' \in Seq(Frames)
  BY OpenedFacts
<1>2. Len(p) \in Nat
  BY PathIsSeq, LenProperties
<1>3. f.path = p /\ \A n \in f.todo : Append(p, n) \in Paths
  BY OpenedFacts
<1> QED
  BY <1>1, <1>2, <1>3 DEF Walking

\* What a step of a user, and the answer to it, leave alone.
LEMMA UserLeaves ==
  User => UNCHANGED <<pc, cause, heap, live, table, stack, root, batch, viewer, work, pipe>>
BY DEF User, Mkdir, Rmdir, Rename, MoveOut, MkdirOutside, Change, treeVars

\* x has come to be, and nftw() may return its name from the directory it is in.
NamesMore(x) ==
  \/ UNCHANGED frames
  \/ \E k \in 1..Len(frames) :
       /\ frames[k].path = ParentOf(x) /\ frames[k].shut = None
       /\ \A j \in 1..Len(frames) : j # k => frames'[j] = frames[j]
       /\ frames'[k].todo = frames[k].todo \cup {NameOf(x)}

\* The directories nftw() is in stay, and those that are listed may be told more names.
MoreListed ==
  /\ frames' \in Seq(Frames) /\ Len(frames') = Len(frames)
  /\ \A k \in 1..Len(frames) :
       /\ frames'[k].path = frames[k].path /\ frames'[k].shut = frames[k].shut
       /\ frames[k].todo \subseteq frames'[k].todo
       /\ \A n \in frames'[k].todo : n \in frames[k].todo \/ Append(frames[k].path, n) \in Paths

LEMMA AppearsFacts ==
  ASSUME Walking, NEW x \in Paths, x # Root, Appears(x)
  PROVE  MoreListed /\ NamesMore(x)
<1>1. frames \in Seq(Frames) /\ Len(frames) \in Nat /\ DOMAIN frames = 1..Len(frames)
  BY DEF Walking
<1>2. CASE UNCHANGED frames
  BY <1>1, <1>2 DEF MoreListed, NamesMore
<1>3. CASE \E k \in DOMAIN frames :
             /\ frames[k].path = ParentOf(x) /\ frames[k].shut = None
             /\ frames' = [frames EXCEPT ![k].todo = @ \cup {NameOf(x)}]
  <2>1. PICK k \in 1..Len(frames) :
             /\ frames[k].path = ParentOf(x) /\ frames[k].shut = None
             /\ frames' = [frames EXCEPT ![k].todo = @ \cup {NameOf(x)}]
    BY <1>1, <1>3
  <2> DEFINE f == [frames[k] EXCEPT !.todo = @ \cup {NameOf(x)}]
  <2>2. NameOf(x) \in Names /\ Append(ParentOf(x), NameOf(x)) = x
    BY NameOfPath, AppendParts
  <2>3. frames[k] \in Frames
    BY <1>1, <2>1
  <2>4. /\ f \in Frames /\ f.path = frames[k].path /\ f.shut = frames[k].shut
        /\ f.todo = frames[k].todo \cup {NameOf(x)}
    BY <2>2, <2>3 DEF Frames
  <2>5. frames' = [frames EXCEPT ![k] = f]
    BY <2>1
  <2> HIDE DEF f
  <2>6. /\ frames' \in Seq(Frames) /\ Len(frames') = Len(frames)
        /\ \A j \in 1..Len(frames) : frames'[j] = IF j = k THEN f ELSE frames[j]
    BY <1>1, <2>4, <2>5, ExceptSeq
  <2>7. MoreListed
    BY <1>1, <2>1, <2>2, <2>4, <2>6 DEF MoreListed
  <2>8. NamesMore(x)
    BY <2>1, <2>4, <2>6 DEF NamesMore
  <2> QED
    BY <2>7, <2>8
<1> QED
  BY <1>2, <1>3 DEF Appears

LEMMA UserLists ==
  ASSUME FsTypes, Walking, User
  PROVE  MoreListed
<1>1. CASE UNCHANGED frames
  BY <1>1 DEF Walking, MoreListed
<1>2. CASE \E p \in Paths : Mkdir(p)
  BY <1>2, AppearsFacts DEF Mkdir
<1>3. CASE \E p, q \in Paths : Rename(p, q)
  <2>1. PICK p \in Paths, q \in Paths : Rename(p, q)
    BY <1>3
  <2>2. q # Root
    BY <2>1 DEF Rename, IsDir, FsTypes
  <2> QED
    BY <2>1, <2>2, AppearsFacts DEF Rename
<1> QED
  BY <1>1, <1>2, <1>3 DEF User, Rmdir, MoveOut, MkdirOutside

\* The directories nftw() is in are the same.
SamePlaces ==
  /\ Len(frames') = Len(frames)
  /\ frames = <<>> <=> frames' = <<>>
  /\ \A k \in 1..Len(frames) : frames'[k].path = frames[k].path

LEMMA UserPlaces ==
  ASSUME FsTypes, Walking, User
  PROVE  SamePlaces
<1>1. MoreListed /\ frames \in Seq(Frames)
  BY UserLists DEF Walking
<1>2. frames = <<>> <=> frames' = <<>>
  BY <1>1, EmptySeq DEF MoreListed
<1> QED
  BY <1>1, <1>2 DEF MoreListed, SamePlaces

LEMMA UserFsTypes ==
  ASSUME FsTypes, User
  PROVE  FsTypes'
<1>1. dirs' \in [Paths -> Inodes] /\ dirs'[Root] # None
  <2>1. CASE \E p \in Paths : Mkdir(p)
    <3>1. PICK p \in Paths : Mkdir(p)
      BY <2>1
    <3>2. made + 1 \in 0..MaxMade
      BY <3>1, BoundsAssumption DEF Mkdir, Change, FsTypes
    <3>3. InodeOf(p, made + 1) \in Inodes
      BY <3>2 DEF Inodes
    <3> QED
      BY <3>1, <3>3 DEF Mkdir, FsTypes
  <2>2. CASE \E p \in Paths : Rmdir(p)
    BY <2>2, NoneIsInode DEF Rmdir, FsTypes
  <2>3. CASE \E p \in Paths : MoveOut(p)
    <3>1. PICK p \in Paths : MoveOut(p)
      BY <2>3
    <3>2. dirs' = [r \in Paths |-> IF IsPrefix(p, r) THEN None ELSE dirs[r]]
      BY <3>1 DEF MoveOut
    <3>3. ~IsPrefix(p, Root)
      <4>1. p # Root /\ p \in Seq(Names)
        BY <3>1, PathIsSeq DEF MoveOut
      <4>2. Len(p) \in Nat \ {0} /\ Len(Root) = 0
        BY <4>1, EmptySeq DEF Root
      <4> QED
        BY <4>2 DEF IsPrefix
    <3> QED
      BY <3>2, <3>3, NoneIsInode, RootIsPath DEF FsTypes
  <2>4. CASE \E p, q \in Paths : Rename(p, q)
    <3>1. PICK p \in Paths, q \in Paths : Rename(p, q)
      BY <2>4
    <3> DEFINE there(r) == IF Behind(p, q, r) \in Paths THEN dirs[Behind(p, q, r)] ELSE None
    <3>2. /\ p # Root /\ q # Root
          /\ dirs' = [r \in Paths |-> CASE IsPrefix(q, r) -> there(r)
                                       [] IsPrefix(p, r) -> None
                                       [] OTHER -> dirs[r]]
      BY <3>1 DEF Rename, IsDir, FsTypes
    <3>3. ~IsPrefix(p, Root) /\ ~IsPrefix(q, Root)
      <4>1. Len(p) \in Nat \ {0} /\ Len(q) \in Nat \ {0} /\ Len(Root) = 0
        BY <3>2, ParentFacts, EmptySeq DEF Root
      <4> QED
        BY <4>1 DEF IsPrefix
    <3>4. \A r \in Paths :
            (CASE IsPrefix(q, r) -> there(r)
               [] IsPrefix(p, r) -> None
               [] OTHER -> dirs[r]) \in Inodes
      <4> TAKE r \in Paths
      <4>1. CASE IsPrefix(q, r)
        <5>1. there(r) \in Inodes
          BY NoneIsInode DEF FsTypes
        <5> DEFINE x == there(r)
        <5> HIDE DEF x
        <5>2. CASE IsPrefix(p, r)
          BY <4>1, <5>1, <5>2, NoneIsInode
        <5>3. CASE ~IsPrefix(p, r)
          BY <4>1, <5>1, <5>3
        <5> QED
          BY <5>2, <5>3
      <4>2. CASE ~IsPrefix(q, r)
        BY <4>2, NoneIsInode DEF FsTypes
      <4> QED
        BY <4>1, <4>2
    <3> HIDE DEF there
    <3>5. dirs'[Root] = dirs[Root]
      BY <3>2, <3>3, RootIsPath
    <3> QED
      BY <3>2, <3>4, <3>5 DEF FsTypes
  <2>5. CASE \E d \in outside, n \in Names : MkdirOutside(d, n)
    BY <2>5 DEF MkdirOutside, FsTypes
  <2> QED
    BY <2>1, <2>2, <2>3, <2>4, <2>5 DEF User
<1>2. \E q : Change(q)
  BY DEF User, Mkdir, Rmdir, Rename, MoveOut, MkdirOutside
<1>3. made' \in 0..MaxMade
  BY <1>2, BoundsAssumption DEF Change, FsTypes
<1>4. quiet' \in BOOLEAN /\ calm' \in BOOLEAN
  BY <1>2, Zenon DEF Change, FsTypes
<1> QED
  BY <1>1, <1>3, <1>4 DEF FsTypes

LEMMA ThreadLeavesFs ==
  Thread \/ ReadPipe \/ CallCleanup =>
    /\ UNCHANGED <<dirs, outside, made>>
    /\ UNCHANGED <<quiet, calm>>
BY DEF Thread, ReadPipe, CallCleanup, ScanEnter, ScanLeave, ScanDone, ReadEvents, WritePipe,
       HandleUnknown, PassOver, HandleCreate, HandleDelete, RemoveStep, RemoveDone, EndBatch,
       CleanupDone, fsVars, history

LEMMA InsertTypes ==
  ASSUME Types, NEW p \in Paths, NEW d \in Inodes, NEW l \in 0..MaxDepth, Insert(p, d, l)
  PROVE  TreeTypes' /\ DOMAIN heap \subseteq DOMAIN heap' /\ live \subseteq live'
<1>1. PICK k \in 0..Len(stack) : Inserted(p, d, l, k)
  BY InsertFacts
<1>2. heap' \in Seq(Watchers) /\ stack' \in Seq(Nat)
  BY InsertFacts
<1>3. live' \subseteq DOMAIN heap' /\ DOMAIN heap \subseteq DOMAIN heap' /\ live \subseteq live'
  BY <1>1, CellTypes DEF Inserted
<1>4. table' = live'
  BY <1>1 DEF Inserted, Types, TypeOK
<1>5. \A m \in DOMAIN stack' : stack'[m] \in live'
  <2> TAKE m \in DOMAIN stack'
  <2>1. m \in 1..k \/ m = k + 1
    BY <1>1, CellTypes DEF Inserted
  <2>2. CASE m \in 1..k
    <3>1. stack'[m] = stack[m] /\ m \in 1..Len(stack)
      BY <1>1, <2>2, CellTypes DEF Inserted
    <3> QED
      BY <1>3, <3>1, CellTypes
  <2>3. CASE m = k + 1
    BY <1>1, <2>3 DEF Inserted
  <2> QED
    BY <2>1, <2>2, <2>3
<1> QED
  BY <1>2, <1>3, <1>4, <1>5 DEF TreeTypes

LEMMA TopFacts ==
  ASSUME Types, frames # <<>>
  PROVE  /\ Len(frames) \in Nat \ {0}
         /\ Top \in Frames /\ Top.path \in Paths /\ Top.todo \subseteq Names
         /\ Len(Top.path) \in Nat /\ Len(Top.path) >= Len(frames) - 1
         /\ Len(Top.path) <= MaxDepth
         /\ Len(frames) - 1 \in 0..MaxDepth
         /\ \A n \in Top.todo : Append(Top.path, n) \in Paths /\ Len(frames) \in 0..MaxDepth
<1>1. frames \in Seq(Frames) /\ Len(frames) \in Nat \ {0}
  BY EmptySeq DEF Types, Walking
<1>2. Top \in Frames
  BY <1>1 DEF Top
<1>3. Top.path \in Paths /\ Top.todo \subseteq Names
  BY <1>2 DEF Frames
<1>4. Len(Top.path) \in Nat /\ Len(Top.path) <= MaxDepth
  BY <1>3, PathIsSeq
<1>5. Len(Top.path) >= Len(frames) - 1
      /\ \A n \in Top.todo : Append(Top.path, n) \in Paths
  BY <1>1 DEF Types, Walking, Top
<1>6. MaxDepth \in Nat
  BY BoundsAssumption
<1>7. \A n \in Top.todo : Len(frames) \in 0..MaxDepth
  <2> TAKE n \in Top.todo
  <2> DEFINE q == Append(Top.path, n)
  <2>1. Len(q) = Len(Top.path) + 1
    BY <1>3, PathOfName
  <2>2. q \in Paths
    BY <1>5
  <2> HIDE DEF q
  <2>3. Len(q) <= MaxDepth
    BY <2>2, PathIsSeq
  <2> QED
    BY <1>1, <1>4, <1>5, <1>6, <2>1, <2>3
<1> QED
  BY <1>1, <1>2, <1>3, <1>4, <1>5, <1>6, <1>7

\* The directory at hand loses a name that was to be read.
NameTaken(n) == [frames EXCEPT ![Len(frames)].todo = @ \ {n}]

LEMMA NameTakenFacts ==
  ASSUME Types, frames # <<>>, NEW n
  PROVE  /\ NameTaken(n) \in Seq(Frames)
         /\ Len(NameTaken(n)) = Len(frames)
         /\ \A k \in 1..Len(frames) : NameTaken(n)[k].path = frames[k].path
         /\ \A k \in 1..Len(frames) : NameTaken(n)[k].shut = frames[k].shut
         /\ \A k \in 1..Len(frames) : NameTaken(n)[k].todo \subseteq frames[k].todo
         /\ \A k \in 1..Len(frames) : NameTaken(n)[k].todo = IF k = Len(frames) THEN Top.todo \ {n}
                                                             ELSE frames[k].todo
<1>1. frames \in Seq(Frames) /\ Len(frames) \in 1..Len(frames) /\ Top = frames[Len(frames)]
  BY TopFacts DEF Types, Walking, Top
<1> DEFINE f == [Top EXCEPT !.todo = @ \ {n}]
<1>2. f \in Frames /\ f.path = Top.path /\ f.shut = Top.shut /\ f.todo = Top.todo \ {n}
  BY TopFacts DEF Frames
<1>3. NameTaken(n) = [frames EXCEPT ![Len(frames)] = f]
  BY <1>1 DEF NameTaken
<1> HIDE DEF f
<1>4. /\ NameTaken(n) \in Seq(Frames)
      /\ Len(NameTaken(n)) = Len(frames)
      /\ \A k \in 1..Len(frames) : NameTaken(n)[k] = IF k = Len(frames) THEN f ELSE frames[k]
  BY <1>1, <1>2, <1>3, ExceptSeq
<1> QED
  BY <1>1, <1>2, <1>4

LEMMA ScanEnterTypes ==
  ASSUME Types, NEW n \in Names, ScanEnter(n)
  PROVE  Types'
<1> DEFINE p == Append(Top.path, n)
<1>1. /\ pc = "scan" /\ frames # <<>> /\ n \in Top.todo
      /\ UNCHANGED <<root, viewer, work, pipe>>
  BY DEF ScanEnter
<1>2. p \in Paths /\ Len(frames) \in 0..MaxDepth /\ Len(p) = Len(Top.path) + 1
  BY <1>1, TopFacts, PathOfName
<1>3. FsTypes'
  <2>1. UNCHANGED <<dirs, outside, made>> /\ UNCHANGED <<quiet, calm>>
    BY ThreadLeavesFs DEF Thread
  <2> QED
    BY <2>1, TypesParts DEF FsTypes
<1>4. /\ TreeTypes' /\ DOMAIN heap \subseteq DOMAIN heap' /\ live \subseteq live'
      /\ pc' \in {"scan", "failed"}
      /\ cause' = cause \/ cause' = "nftw"
  <2>1. CASE UNCHANGED <<pc, cause, treeVars>>
    BY <1>1, <2>1, TypesParts DEF TreeTypes, treeVars
  <2>2. CASE Insert(p, None, Len(frames)) /\ UNCHANGED <<pc, cause>>
    BY <1>1, <1>2, <2>2, InsertTypes, NoneIsInode
  <2>3. CASE Die("nftw") /\ UNCHANGED treeVars
    BY <2>3, TypesParts DEF TreeTypes, treeVars, Die
  <2> QED
    BY <2>1, <2>2, <2>3 DEF ScanEnter
<1>5. Walking'
  <2>1. /\ NameTaken(n) \in Seq(Frames) /\ Len(NameTaken(n)) = Len(frames)
        /\ \A k \in 1..Len(frames) : NameTaken(n)[k].path = frames[k].path
        /\ \A k \in 1..Len(frames) : NameTaken(n)[k].todo \subseteq frames[k].todo
    BY <1>1, NameTakenFacts
  <2>2. CASE frames' = NameTaken(n)
    BY <2>1, <2>2, TypesParts DEF Walking
  <2>3. CASE frames' \in {Append(NameTaken(n), f) : f \in Opened(p)}
    <3> PICK f \in Opened(p) : frames' = Append(NameTaken(n), f)
      BY <2>3
    <3>1. /\ frames' \in Seq(Frames) /\ Len(frames') = Len(frames) + 1
          /\ \A k \in 1..Len(frames) : frames'[k] = NameTaken(n)[k]
          /\ frames'[Len(frames) + 1] = f
      <4>1. f \in Frames
        BY <1>2, OpenedFacts, TypesParts
      <4> QED
        BY <1>2, <2>1, <4>1
    <3>2. f.path = p /\ \A m \in f.todo : Append(p, m) \in Paths
      BY <1>2, OpenedFacts, TypesParts
    <3>3. \A k \in 1..Len(frames) :
            /\ Len(frames'[k].path) >= k - 1
            /\ \A m \in frames'[k].todo : Append(frames'[k].path, m) \in Paths
      <4> TAKE k \in 1..Len(frames)
      <4>1. frames'[k].path = frames[k].path /\ frames'[k].todo \subseteq frames[k].todo
        BY <2>1, <3>1
      <4>2. /\ Len(frames[k].path) >= k - 1
            /\ \A m \in frames[k].todo : Append(frames[k].path, m) \in Paths
        BY TypesParts DEF Walking
      <4> QED
        BY <4>1, <4>2
    <3>4. Len(p) >= Len(frames)
      BY <1>1, <1>2, TopFacts
    <3>5. \A k \in 1..Len(frames) + 1 : k \in 1..Len(frames) \/ k = Len(frames) + 1
      BY <1>2, BoundsAssumption
    <3>6. \A k \in 1..Len(frames') :
            /\ Len(frames'[k].path) >= k - 1
            /\ \A m \in frames'[k].todo : Append(frames'[k].path, m) \in Paths
      <4> TAKE k \in 1..Len(frames')
      <4>1. CASE k \in 1..Len(frames)
        BY <3>3, <4>1
      <4>2. CASE k = Len(frames) + 1
        <5>1. frames'[k] = f /\ k - 1 = Len(frames)
          BY <1>2, <3>1, <4>2
        <5> HIDE DEF p
        <5> QED
          BY <3>2, <3>4, <5>1
      <4> QED
        BY <3>1, <3>5, <4>1, <4>2
    <3> QED
      BY <3>1, <3>6 DEF Walking
  <2> QED
    BY <2>2, <2>3 DEF ScanEnter, NameTaken
<1>6. ControlTypes' /\ Attached'
  BY <1>1, <1>4, TypesParts DEF ControlTypes, Attached
<1> QED
  <2>1. (Types <=> FsTypes /\ TreeTypes /\ ControlTypes /\ Walking /\ Attached)'
    BY TypesParts, PTL
  <2> QED
    BY <1>3, <1>4, <1>5, <1>6, <2>1

LEMMA ScanLeaveTypes ==
  ASSUME Types, ScanLeave
  PROVE  Types'
<1>1. /\ pc = "scan" /\ frames # <<>> /\ Top.todo = {}
      /\ frames' = SubSeq(frames, 1, Len(frames) - 1)
      /\ UNCHANGED <<pc, cause, root, viewer, work, pipe>>
  BY DEF ScanLeave
<1>2. FsTypes'
  <2>1. UNCHANGED <<dirs, outside, made>> /\ UNCHANGED <<quiet, calm>>
    BY ThreadLeavesFs DEF Thread
  <2> QED
    BY <2>1, TypesParts DEF FsTypes
<1>3. TreeTypes' /\ DOMAIN heap \subseteq DOMAIN heap' /\ live \subseteq live'
  <2>1. CASE UNCHANGED treeVars
    BY <2>1, TypesParts DEF TreeTypes, treeVars
  <2>2. CASE \E d \in AddWatch(Top) : Insert(Top.path, d, Len(frames) - 1)
    <3>1. \A d \in AddWatch(Top) : d \in Inodes
      BY <1>1, TopFacts, AddWatchFacts, TypesParts
    <3> QED
      BY <1>1, <2>2, <3>1, TopFacts, InsertTypes
  <2> QED
    BY <2>1, <2>2 DEF ScanLeave
<1>4. Walking'
  <2>1. frames \in Seq(Frames) /\ Len(frames) \in Nat \ {0}
    BY <1>1, TopFacts, TypesParts DEF Walking
  <2>2. /\ frames' \in Seq(Frames) /\ Len(frames') = Len(frames) - 1
        /\ \A k \in 1..Len(frames) - 1 : frames'[k] = frames[k]
    <3> DEFINE j == Len(frames) - 1
               f == SubSeq(frames, 1, j)
    <3>1. j \in Nat /\ j <= Len(frames)
      BY <2>1
    <3> HIDE DEF j
    <3>2. f \in Seq(Frames) /\ Len(f) = j /\ \A k \in 1..j : f[k] = frames[k]
      BY <2>1, <3>1
    <3> QED
      BY <1>1, <3>2 DEF j
  <2> QED
    BY <2>1, <2>2, TypesParts DEF Walking
<1>5. ControlTypes' /\ Attached'
  BY <1>1, <1>3, TypesParts DEF ControlTypes, Attached
<1> QED
  <2>1. (Types <=> FsTypes /\ TreeTypes /\ ControlTypes /\ Walking /\ Attached)'
    BY TypesParts, PTL
  <2> QED
    BY <1>2, <1>3, <1>4, <1>5, <2>1

LEMMA LinkChildTypes ==
  ASSUME Types, NEW v \in DOMAIN heap, NEW w \in DOMAIN heap
  PROVE  LinkChild(heap, v, w) \in Seq(Watchers) /\ DOMAIN LinkChild(heap, v, w) = DOMAIN heap
<1> DEFINE first == heap[v].child
           g == [c \in DOMAIN heap |->
                   CASE c = w     -> [heap[c] EXCEPT !.sibling = first, !.prev = v]
                     [] c = v     -> [heap[c] EXCEPT !.child = w]
                     [] c = first -> [heap[c] EXCEPT !.prev = w]
                     [] OTHER     -> heap[c]]
<1>1. LinkChild(heap, v, w) = g
  BY DEF LinkChild
<1>2. v \in Nat /\ w \in Nat /\ first \in Nat
  BY CellTypes
<1>3. \A c \in DOMAIN heap :
        /\ [heap[c] EXCEPT !.sibling = first, !.prev = v] \in Watchers
        /\ [heap[c] EXCEPT !.child = w] \in Watchers
        /\ [heap[c] EXCEPT !.prev = w] \in Watchers
        /\ heap[c] \in Watchers
  BY <1>2, CellTypes, ZenonT(60) DEF Watchers
<1>4. \A c \in DOMAIN heap :
        (CASE c = w     -> [heap[c] EXCEPT !.sibling = first, !.prev = v]
           [] c = v     -> [heap[c] EXCEPT !.child = w]
           [] c = first -> [heap[c] EXCEPT !.prev = w]
           [] OTHER     -> heap[c]) \in Watchers
  <2> HIDE DEF first
  <2> QED
    BY <1>3
<1>5. g \in [1..Len(heap) -> Watchers]
  BY <1>4, CellTypes
<1> HIDE DEF g
<1> QED
  BY <1>1, <1>5, CellTypes

LEMMA ScanDoneTypes ==
  ASSUME Types, ScanDone
  PROVE  Types'
<1>1. /\ pc = "scan" /\ frames = <<>> /\ viewer' = Nil
      /\ UNCHANGED <<live, table, frames, work, pipe>>
  BY DEF ScanDone
<1>2. FsTypes'
  <2>1. UNCHANGED <<dirs, outside, made>> /\ UNCHANGED <<quiet, calm>>
    BY ThreadLeavesFs DEF Thread
  <2> QED
    BY <2>1, TypesParts DEF FsTypes
<1>3. CASE Die("assert_stack") /\ UNCHANGED <<heap, stack, root>>
  <2>1. TreeTypes' /\ ControlTypes' /\ Walking' /\ Attached'
    BY <1>1, <1>3, TypesParts DEF TreeTypes, ControlTypes, Walking, Attached, Die
  <2>2. (Types <=> FsTypes /\ TreeTypes /\ ControlTypes /\ Walking /\ Attached)'
    BY TypesParts, PTL
  <2> QED
    BY <1>2, <2>1, <2>2
<1>4. CASE Len(stack) = 1
  <2>1. stack' = <<>> /\ UNCHANGED cause
    BY <1>4 DEF ScanDone
  <2>2. stack' \in Seq(Nat) /\ {stack'[i] : i \in DOMAIN stack'} \subseteq live
    BY <2>1
  <2>3. stack[1] \in live /\ live \subseteq DOMAIN heap
    BY <1>4, CellTypes
  <2>4. CASE root = Nil
    <3>1. root' = stack[1] /\ pc' = "idle" /\ UNCHANGED heap
      BY <1>4, <2>4 DEF ScanDone
    <3>2. root' # Nil
      BY <2>3, <3>1, CellTypes DEF Nil
    <3>3. TreeTypes' /\ ControlTypes' /\ Walking' /\ Attached'
      BY <1>1, <2>1, <2>2, <2>3, <3>1, <3>2, TypesParts
         DEF TreeTypes, ControlTypes, Walking, Attached
    <3>4. (Types <=> FsTypes /\ TreeTypes /\ ControlTypes /\ Walking /\ Attached)'
      BY TypesParts, PTL
    <3> QED
      BY <1>2, <3>3, <3>4
  <2>5. CASE root # Nil
    <3>1. heap' = LinkChild(heap, viewer, stack[1]) /\ pc' = "handle" /\ UNCHANGED root
      BY <1>4, <2>5 DEF ScanDone
    <3>2. viewer \in DOMAIN heap
      BY <1>1, <2>3, <2>5, TypesParts DEF Attached
    <3>3. heap' \in Seq(Watchers) /\ DOMAIN heap' = DOMAIN heap
      BY <2>3, <3>1, <3>2, LinkChildTypes
    <3>4. TreeTypes' /\ ControlTypes' /\ Walking' /\ Attached'
      BY <1>1, <2>1, <2>2, <2>5, <3>1, <3>3, TypesParts
         DEF TreeTypes, ControlTypes, Walking, Attached
    <3>5. (Types <=> FsTypes /\ TreeTypes /\ ControlTypes /\ Walking /\ Attached)'
      BY TypesParts, PTL
    <3> QED
      BY <1>2, <3>4, <3>5
  <2> QED
    BY <2>4, <2>5
<1> QED
  BY <1>3, <1>4 DEF ScanDone

LEMMA FoundIsOne ==
  ASSUME Types, NEW S \in SUBSET live
  PROVE  /\ Found(S) \in Nat
         /\ Found(S) # Nil => Found(S) \in S /\ \A e \in S : e <= Found(S)
         /\ Found(S) = Nil <=> S = {}
<1>1. CASE S = {}
  BY <1>1 DEF Found, Nil
<1>2. CASE S # {}
  <2> DEFINE far == {Len(heap) - c : c \in S}
  <2>1. far \in SUBSET Nat /\ far # {}
    BY <1>2, CellTypes
  <2>2. PICK k \in far : \A m \in far : k <= m
    BY <2>1, LeastOfNat
  <2>3. PICK c \in S : k = Len(heap) - c
    BY <2>2
  <2>4. \A e \in S : e <= c
    <3> TAKE e \in S
    <3>1. k <= Len(heap) - e
      BY <2>2
    <3> QED
      BY <2>3, <3>1, CellTypes
  <2>5. Found(S) = CHOOSE d \in S : \A e \in S : e <= d
    BY <1>2 DEF Found
  <2>6. Found(S) \in S /\ \A e \in S : e <= Found(S)
    BY <2>4, <2>5
  <2>7. Found(S) \in Nat /\ Found(S) # Nil
    BY <2>6, CellTypes DEF Nil
  <2> QED
    BY <1>2, <2>6, <2>7
<1> QED
  BY <1>1, <1>2

LEMMA SearchFinds ==
  ASSUME Types
  PROVE  /\ \A d : ByWd(d) # Nil => ByWd(d) \in live /\ heap[ByWd(d)].wd = d
         /\ \A p : ByPath(p) # Nil => ByPath(p) \in live /\ heap[ByPath(p)].path = p
<1>1. table = live
  BY DEF Types, TypeOK
<1>2. ASSUME NEW d, ByWd(d) # Nil PROVE ByWd(d) \in live /\ heap[ByWd(d)].wd = d
  <2>1. {c \in table : heap[c].wd = d} \in SUBSET live
    BY <1>1
  <2>2. ByWd(d) \in {c \in table : heap[c].wd = d}
    BY <1>2, <2>1, FoundIsOne DEF ByWd
  <2> QED
    BY <1>1, <2>2
<1>3. ASSUME NEW p, ByPath(p) # Nil PROVE ByPath(p) \in live /\ heap[ByPath(p)].path = p
  <2>1. {c \in table : heap[c].path = p} \in SUBSET live
    BY <1>1
  <2>2. ByPath(p) \in {c \in table : heap[c].path = p}
    BY <1>3, <2>1, FoundIsOne DEF ByPath
  <2> QED
    BY <1>1, <2>2
<1> QED
  BY <1>2, <1>3

LEMMA HandleTypes ==
  ASSUME Types, HandleUnknown \/ PassOver \/ HandleCreate \/ HandleDelete
  PROVE  Types'
<1>1. /\ pc = "handle" /\ UNCHANGED <<heap, live, table, stack, root, pipe>>
  BY DEF HandleUnknown, PassOver, HandleCreate, HandleDelete, Handling, treeVars
<1>2. FsTypes'
  <2>1. UNCHANGED <<dirs, outside, made>> /\ UNCHANGED <<quiet, calm>>
    BY ThreadLeavesFs DEF Thread
  <2> QED
    BY <2>1, TypesParts DEF FsTypes
<1>3. TreeTypes' /\ root # Nil
  BY <1>1, TypesParts DEF TreeTypes, Attached
<1>4. Walking'
  <2>1. CASE frames' \in {<<f>> : f \in Opened(EvPath)} /\ EvPath \in Paths
    BY <2>1, OneFrame, TypesParts
  <2>2. CASE UNCHANGED frames
    BY <2>2, TypesParts DEF Walking
  <2> QED
    BY <2>1, <2>2 DEF HandleUnknown, PassOver, HandleCreate, HandleDelete, Die
<1>5. ControlTypes' /\ Attached'
  <2>1. CASE HandleUnknown \/ PassOver
    BY <1>1, <1>3, <2>1, TypesParts DEF HandleUnknown, PassOver, Die, ControlTypes, Attached
  <2>2. CASE HandleCreate
    <3>1. EvViewer \in live
      BY <2>2, SearchFinds DEF HandleCreate, EvViewer
    <3>2. EvViewer \in DOMAIN heap
      BY <3>1, CellTypes
    <3> QED
      BY <1>1, <1>3, <2>2, <3>1, <3>2, TypesParts DEF HandleCreate, Die, ControlTypes, Attached
  <2>3. CASE HandleDelete
    <3>1. CASE Die("assert_actor") /\ UNCHANGED work
      BY <1>1, <1>3, <2>3, <3>1, TypesParts DEF HandleDelete, Die, ControlTypes, Attached
    <3>2. CASE ByPath(EvPath) # Nil /\ work' = Removal(ByPath(EvPath)) /\ pc' = "remove" /\ UNCHANGED cause
      <4>1. ByPath(EvPath) \in live
        BY <3>2, SearchFinds
      <4> DEFINE a == ByPath(EvPath)
      <4>2. a \in Nat /\ heap[a].child \in Nat
        BY <4>1, CellTypes
      <4> HIDE DEF a
      <4>3. Removal(a) \in Seq(Tasks)
        BY <4>2 DEF Removal, Task, Tasks
      <4> QED
        BY <1>1, <1>3, <2>3, <3>2, <4>3, TypesParts DEF HandleDelete, ControlTypes, Attached, a
    <3> QED
      BY <2>3, <3>1, <3>2 DEF HandleDelete
  <2> QED
    BY <2>1, <2>2, <2>3
<1> QED
  <2>1. (Types <=> FsTypes /\ TreeTypes /\ ControlTypes /\ Walking /\ Attached)'
    BY TypesParts, PTL
  <2> QED
    BY <1>2, <1>3, <1>4, <1>5, <2>1

\* remove_watcher(w): what led to w leads to its sibling.
LEMMA FreeFacts ==
  ASSUME Types, NEW w \in live, heap[w].prev \in live \cup {Nil}, Free(w)
  PROVE  /\ heap' \in Seq(Watchers) /\ Len(heap') = Len(heap) /\ DOMAIN heap' = DOMAIN heap
         /\ live' = live \ {w} /\ table' = table \ {w}
         /\ \A c \in 1..Len(heap) :
              /\ heap'[c].path = heap[c].path /\ heap'[c].wd = heap[c].wd
              /\ heap'[c].level = heap[c].level /\ heap'[c].prev = heap[c].prev
              /\ heap'[c].child = IF c = heap[w].prev /\ heap[c].child = w
                                  THEN heap[w].sibling ELSE heap[c].child
              /\ heap'[c].sibling = IF c = heap[w].prev /\ heap[c].child # w /\ heap[c].sibling = w
                                    THEN heap[w].sibling ELSE heap[c].sibling
<1> DEFINE p == heap[w].prev
           s == heap[w].sibling
<1>1. heap' = Unlinked(w) /\ live' = live \ {w} /\ table' = table \ {w}
  BY DEF Free
<1>2. p # Nil => p \in 1..Len(heap)
  BY CellTypes DEF Nil
<1>3. s \in Nat /\ Nil \notin 1..Len(heap) /\ heap \in Seq(Watchers)
  BY CellTypes DEF Nil, Types, TypeOK
<1>4. \A c \in 1..Len(heap) :
        /\ [heap[c] EXCEPT !.child = s] \in Watchers
        /\ [heap[c] EXCEPT !.sibling = s] \in Watchers
  BY <1>3, CellTypes DEF Watchers
<1>5. \A c \in 1..Len(heap) :
        LET x == [heap[c] EXCEPT !.child = s]
            y == [heap[c] EXCEPT !.sibling = s]
        IN /\ x.path = heap[c].path /\ x.wd = heap[c].wd /\ x.level = heap[c].level
           /\ x.prev = heap[c].prev /\ x.child = s /\ x.sibling = heap[c].sibling
           /\ y.path = heap[c].path /\ y.wd = heap[c].wd /\ y.level = heap[c].level
           /\ y.prev = heap[c].prev /\ y.child = heap[c].child /\ y.sibling = s
  BY CellTypes DEF Watchers
<1>6. CASE p # Nil /\ heap[p].child = w
  <2>1. heap' = [heap EXCEPT ![p] = [heap[p] EXCEPT !.child = s]]
    BY <1>1, <1>2, <1>6 DEF Unlinked
  <2> DEFINE x == [heap[p] EXCEPT !.child = s]
  <2>2. x \in Watchers
    BY <1>2, <1>4, <1>6
  <2>3. x.path = heap[p].path /\ x.wd = heap[p].wd /\ x.level = heap[p].level
        /\ x.prev = heap[p].prev /\ x.child = s /\ x.sibling = heap[p].sibling
    BY <1>2, <1>5, <1>6
  <2> HIDE DEF x
  <2>4. heap' \in Seq(Watchers) /\ Len(heap') = Len(heap)
        /\ \A c \in 1..Len(heap) : heap'[c] = IF c = p THEN x ELSE heap[c]
    BY <1>2, <1>3, <1>6, <2>1, <2>2, ExceptSeq DEF x
  <2> HIDE DEF p, s
  <2>5. \A c \in 1..Len(heap) :
          /\ heap'[c].path = heap[c].path /\ heap'[c].wd = heap[c].wd
          /\ heap'[c].level = heap[c].level /\ heap'[c].prev = heap[c].prev
          /\ heap'[c].child = IF c = p /\ heap[c].child = w THEN s ELSE heap[c].child
          /\ heap'[c].sibling = IF c = p /\ heap[c].child # w /\ heap[c].sibling = w
                                THEN s ELSE heap[c].sibling
    BY <1>6, <2>3, <2>4
  <2> QED
    BY <1>1, <2>4, <2>5, CellTypes DEF p, s
<1>7. CASE p # Nil /\ heap[p].child # w /\ heap[p].sibling = w
  <2>1. heap' = [heap EXCEPT ![p] = [heap[p] EXCEPT !.sibling = s]]
    BY <1>1, <1>2, <1>7 DEF Unlinked
  <2> DEFINE x == [heap[p] EXCEPT !.sibling = s]
  <2>2. x \in Watchers
    BY <1>2, <1>4, <1>7
  <2>3. x.path = heap[p].path /\ x.wd = heap[p].wd /\ x.level = heap[p].level
        /\ x.prev = heap[p].prev /\ x.child = heap[p].child /\ x.sibling = s
    BY <1>2, <1>5, <1>7
  <2> HIDE DEF x
  <2>4. heap' \in Seq(Watchers) /\ Len(heap') = Len(heap)
        /\ \A c \in 1..Len(heap) : heap'[c] = IF c = p THEN x ELSE heap[c]
    BY <1>2, <1>3, <1>7, <2>1, <2>2, ExceptSeq DEF x
  <2> HIDE DEF p, s
  <2>5. \A c \in 1..Len(heap) :
          /\ heap'[c].path = heap[c].path /\ heap'[c].wd = heap[c].wd
          /\ heap'[c].level = heap[c].level /\ heap'[c].prev = heap[c].prev
          /\ heap'[c].child = IF c = p /\ heap[c].child = w THEN s ELSE heap[c].child
          /\ heap'[c].sibling = IF c = p /\ heap[c].child # w /\ heap[c].sibling = w
                                THEN s ELSE heap[c].sibling
    BY <1>7, <2>3, <2>4
  <2> QED
    BY <1>1, <2>4, <2>5, CellTypes DEF p, s
<1>8. CASE p = Nil \/ (heap[p].child # w /\ heap[p].sibling # w)
  <2>1. heap' = heap
    BY <1>1, <1>8 DEF Unlinked
  <2>2. \A c \in 1..Len(heap) : c = p => heap[c].child # w /\ heap[c].sibling # w
    BY <1>3, <1>8
  <2> QED
    BY <1>1, <1>3, <2>1, <2>2
<1> QED
  BY <1>6, <1>7, <1>8, Zenon

\* A step of the recursion: the process reads a freed watcher; a call on NULL returns; a
\* call goes to the child, to the sibling; or the watcher is removed.
RemoveCase(t) ==
  \/ /\ pc' = "undefined" /\ cause' = pc
     /\ UNCHANGED <<work, heap, live, table>>
  \/ /\ UNCHANGED <<pc, cause>>
     /\ t.cell = Nil /\ work' = Tail(work)
     /\ UNCHANGED <<heap, live, table>>
  \/ /\ UNCHANGED <<pc, cause>>
     /\ t.cell \in live /\ t.op = "post"
     /\ work' = <<Task("post", heap[t.cell].child), Task("next", t.cell), Task("free", t.cell)>>
                \o Tail(work)
     /\ UNCHANGED <<heap, live, table>>
  \/ /\ UNCHANGED <<pc, cause>>
     /\ t.cell \in live /\ t.op = "next"
     /\ work' = <<Task("post", heap[t.cell].sibling)>> \o Tail(work)
     /\ UNCHANGED <<heap, live, table>>
  \/ /\ UNCHANGED <<pc, cause>>
     /\ t.cell \in live /\ t.op = "free" /\ heap[t.cell].prev \in live \cup {Nil}
     /\ work' = Tail(work)
     /\ Free(t.cell)

LEMMA RemoveCases ==
  ASSUME RemoveStep
  PROVE  /\ pc \in {"remove", "cleanup"} /\ work # <<>>
         /\ RemoveCase(Head(work))
         /\ UNCHANGED <<stack, root, frames, viewer, pipe, queue, batch, dirs, watched>>
<1>1. CASE ReadsFreed(Head(work))
  BY <1>1 DEF RemoveStep, RemoveCase, fsVars
<1>2. CASE ~ReadsFreed(Head(work))
  BY <1>2 DEF RemoveStep, RemoveCase, ReadsFreed, fsVars
<1> QED
  BY <1>1, <1>2

LEMMA RemoveTypes ==
  ASSUME Types, RemoveStep
  PROVE  Types'
<1> DEFINE t == Head(work)
<1>1. /\ pc \in {"remove", "cleanup"} /\ work # <<>> /\ RemoveCase(t)
      /\ UNCHANGED <<stack, root, frames, viewer, pipe>>
      /\ cause' \in {cause, "remove", "cleanup"}
  BY RemoveCases DEF RemoveCase
<1>2. t \in Tasks /\ Tail(work) \in Seq(Tasks) /\ t.cell \in Nat
  <2>1. work \in Seq(Tasks)
    BY DEF Types
  <2>2. t \in Tasks /\ Tail(work) \in Seq(Tasks)
    BY <1>1, <2>1, HeadTailProperties
  <2> QED
    BY <2>2 DEF Tasks
<1> HIDE DEF t
<1>3. FsTypes'
  <2>1. UNCHANGED <<dirs, outside, made>> /\ UNCHANGED <<quiet, calm>>
    BY ThreadLeavesFs DEF Thread
  <2> QED
    BY <2>1, TypesParts DEF FsTypes
<1>4. Walking' /\ root # Nil
  BY <1>1, TypesParts DEF Walking, Attached
<1>5. CASE UNCHANGED <<heap, live, table>>
  <2>1. work' \in Seq(Tasks) /\ pc' \in {"remove", "cleanup", "undefined"}
    <3>1. CASE UNCHANGED work /\ pc' = "undefined"
      BY <3>1, TypesParts DEF ControlTypes
    <3>2. CASE UNCHANGED pc /\ work' = Tail(work)
      BY <1>1, <1>2, <3>2
    <3>3. CASE /\ UNCHANGED pc /\ t.cell \in live
               /\ work' = <<Task("post", heap[t.cell].child), Task("next", t.cell),
                            Task("free", t.cell)>> \o Tail(work)
      <4>1. heap[t.cell].child \in Nat
        BY <3>3, CellTypes
      <4>2. <<Task("post", heap[t.cell].child), Task("next", t.cell), Task("free", t.cell)>>
              \in Seq(Tasks)
        BY <1>2, <4>1 DEF Task, Tasks
      <4> QED
        BY <1>1, <1>2, <3>3, <4>2, ConcatProperties
    <3>4. CASE /\ UNCHANGED pc /\ t.cell \in live
               /\ work' = <<Task("post", heap[t.cell].sibling)>> \o Tail(work)
      <4>1. heap[t.cell].sibling \in Nat
        BY <3>4, CellTypes
      <4>2. <<Task("post", heap[t.cell].sibling)>> \in Seq(Tasks)
        BY <1>2, <4>1 DEF Task, Tasks
      <4> QED
        BY <1>1, <1>2, <3>4, <4>2, ConcatProperties
    <3> QED
      BY <1>1, <3>1, <3>2, <3>3, <3>4 DEF RemoveCase
  <2>2. TreeTypes' /\ ControlTypes' /\ Attached'
    BY <1>1, <1>4, <1>5, <2>1, TypesParts DEF TreeTypes, ControlTypes, Attached
  <2>3. (Types <=> FsTypes /\ TreeTypes /\ ControlTypes /\ Walking /\ Attached)'
    BY TypesParts, PTL
  <2> QED
    BY <1>3, <1>4, <2>2, <2>3
<1>6. CASE /\ UNCHANGED pc /\ t.cell \in live /\ heap[t.cell].prev \in live \cup {Nil}
           /\ work' = Tail(work) /\ Free(t.cell)
  <2>1. /\ heap' \in Seq(Watchers) /\ DOMAIN heap' = DOMAIN heap
        /\ live' = live \ {t.cell} /\ table' = table \ {t.cell}
    BY <1>6, FreeFacts
  <2>2. \A i \in DOMAIN stack : stack[i] \in live'
    BY <1>1, TypesParts DEF Attached
  <2>3. TreeTypes' /\ ControlTypes' /\ Attached'
    BY <1>1, <1>2, <1>4, <1>6, <2>1, <2>2, TypesParts DEF TreeTypes, ControlTypes, Attached
  <2>4. (Types <=> FsTypes /\ TreeTypes /\ ControlTypes /\ Walking /\ Attached)'
    BY TypesParts, PTL
  <2> QED
    BY <1>3, <1>4, <2>3, <2>4
<1> QED
  BY <1>1, <1>5, <1>6 DEF RemoveCase

LEMMA SweepTypes ==
  ASSUME Types, CallCleanup
  PROVE  work' \in Seq(Tasks)
<1> DEFINE order == SweepOrder(Buckets)
<1>1. work' = [k \in DOMAIN order |-> Task("free", order[k])]
  BY DEF CallCleanup
<1>2. table = live /\ Cardinality(table) \in Nat
  BY CellTypes, FS_CardinalityType DEF Types, TypeOK
<1> DEFINE place(k) == Found({c \in table :
             Cardinality({e \in table : SweptBefore(Buckets, e, c)}) = k - 1})
<1>3. \A k \in 1..Cardinality(table) : place(k) \in Nat
  <2> TAKE k \in 1..Cardinality(table)
  <2>1. {c \in table : Cardinality({e \in table : SweptBefore(Buckets, e, c)}) = k - 1}
          \in SUBSET live
    BY <1>2
  <2> QED
    BY <2>1, FoundIsOne
<1>4. order = [k \in 1..Cardinality(table) |-> place(k)]
  BY DEF SweepOrder
<1>5. DOMAIN order = 1..Cardinality(table) /\ \A k \in 1..Cardinality(table) : order[k] \in Nat
  BY <1>3, <1>4
<1>6. work' = [k \in 1..Cardinality(table) |-> Task("free", order[k])]
  BY <1>1, <1>5
<1> HIDE DEF order
<1>7. \A k \in 1..Cardinality(table) : Task("free", order[k]) \in Tasks
  BY <1>5 DEF Task, Tasks
<1> QED
  BY <1>2, <1>6, <1>7, IsASeq

LEMMA OtherTypes ==
  ASSUME Types,
         ReadEvents \/ WritePipe \/ ReadPipe \/ RemoveDone \/ EndBatch \/ CleanupDone \/ CallCleanup
  PROVE  Types'
<1>1. /\ UNCHANGED <<heap, live, table, stack, root, frames, viewer>>
      /\ pc # "scan" => pc' \notin {"scan", "failed"} \/ pc' = pc
      /\ pc = "scan" => pc' = "scan"
      /\ pc' \in {"scan", "idle", "write", "handle", "remove", "cleanup", "swept", "failed",
                 "undefined"}
      /\ cause' \in {cause, "walk"}
  BY TypesParts
     DEF ReadEvents, WritePipe, ReadPipe, RemoveDone, EndBatch, CleanupDone, CallCleanup,
         treeVars, ControlTypes
<1>2. FsTypes'
  <2>1. UNCHANGED <<dirs, outside, made>> /\ UNCHANGED <<quiet, calm>>
    BY ThreadLeavesFs DEF Thread
  <2> QED
    BY <2>1, TypesParts DEF FsTypes
<1>3. TreeTypes' /\ Walking'
  BY <1>1, TypesParts DEF TreeTypes, Walking
<1>4. pipe' \in 0..PipeCap
  <2>1. PipeCap \in Nat \ {0} /\ pipe \in 0..PipeCap
    BY TreesAssumption, TypesParts DEF ControlTypes
  <2> QED
    BY <2>1 DEF ReadEvents, WritePipe, ReadPipe, RemoveDone, EndBatch, CleanupDone, CallCleanup
<1>5. work' \in Seq(Tasks)
  <2>1. CASE CallCleanup
    BY <2>1, SweepTypes
  <2>2. CASE UNCHANGED work
    BY <2>2, TypesParts DEF ControlTypes
  <2> QED
    BY <2>1, <2>2 DEF ReadEvents, WritePipe, ReadPipe, RemoveDone, EndBatch, CleanupDone
<1>6. Attached'
  <2>1. root = Nil => pc \in {"scan", "failed"} /\ pc' = pc
    BY TypesParts
       DEF Attached, ReadEvents, WritePipe, ReadPipe, RemoveDone, EndBatch, CleanupDone, CallCleanup
  <2>2. pc \notin {"scan", "failed"} \/ pc' = pc
    BY DEF ReadEvents, WritePipe, ReadPipe, RemoveDone, EndBatch, CleanupDone, CallCleanup
  <2> QED
    BY <1>1, <2>1, <2>2, TypesParts DEF Attached
<1>7. ControlTypes'
  BY <1>1, <1>4, <1>5, TypesParts DEF ControlTypes
<1> QED
  <2>1. (Types <=> FsTypes /\ TreeTypes /\ ControlTypes /\ Walking /\ Attached)'
    BY TypesParts, PTL
  <2> QED
    BY <1>2, <1>3, <1>6, <1>7, <2>1

LEMMA UserTypes ==
  ASSUME Types, User
  PROVE  Types'
<1>1. FsTypes'
  BY UserFsTypes, TypesParts
<1>2. UNCHANGED <<pc, cause, heap, live, table, stack, root, batch, viewer, work, pipe>>
  BY UserLeaves
<1>3. TreeTypes' /\ ControlTypes' /\ Attached'
  BY <1>2, TypesParts DEF TreeTypes, ControlTypes, Attached
<1>4. Walking'
  <2>1. MoreListed /\ Walking
    BY UserLists, TypesParts
  <2>2. \A k \in 1..Len(frames) : \A n \in frames'[k].todo : Append(frames'[k].path, n) \in Paths
    BY <2>1 DEF MoreListed, Walking
  <2> QED
    BY <2>1, <2>2 DEF MoreListed, Walking
<1>5. (Types <=> FsTypes /\ TreeTypes /\ ControlTypes /\ Walking /\ Attached)'
  BY TypesParts, PTL
<1> QED
  BY <1>1, <1>3, <1>4, <1>5

LEMMA InitTypes == Init => Types
<1> SUFFICES ASSUME Init PROVE Types
  OBVIOUS
<1>1. FsTypes
  <2>1. PICK T \in InitialTrees : dirs = [p \in Paths |-> IF p \in T THEN InodeOf(p, 0) ELSE None]
    BY DEF Init
  <2>2. T \subseteq Paths /\ Root \in T /\ 0 \in 0..MaxMade
    BY TreesAssumption, BoundsAssumption
  <2>3. \A p \in Paths : InodeOf(p, 0) \in Inodes
    BY <2>2 DEF Inodes
  <2>4. dirs \in [Paths -> Inodes]
    BY <2>1, <2>3, NoneIsInode
  <2>5. InodeOf(Root, 0) # None
    <3>1. Len(<<Root, 0>>) = 2 /\ Len(<<"none">>) = 1
      OBVIOUS
    <3> QED
      BY <3>1 DEF InodeOf, None
  <2> QED
    BY <2>1, <2>2, <2>4, <2>5, RootIsPath DEF FsTypes, Init
<1>2. TreeTypes
  BY DEF Init, TreeTypes
<1>3. ControlTypes
  BY TreesAssumption DEF Init, ControlTypes
<1>4. Attached
  BY DEF Init, Attached
<1>5. Walking
  <2>1. PICK f \in Opened(Root) : frames = <<f>>
    BY DEF Init
  <2>2. f \in Frames /\ f.path = Root /\ \A n \in f.todo : Append(Root, n) \in Paths
    BY <1>1, RootIsPath, OpenedFacts
  <2>3. Len(Root) = 0
    BY EmptySeq DEF Root
  <2>4. Len(frames) = 1 /\ frames[1] = f /\ frames \in Seq(Frames)
    BY <2>1, <2>2
  <2>5. \A k \in 1..Len(frames) : k = 1 /\ frames[k].path = Root /\ frames[k].todo = f.todo
    BY <2>2, <2>4
  <2>6. Len(Root) >= 1 - 1
    BY <2>3
  <2> QED
    BY <2>2, <2>4, <2>5, <2>6 DEF Walking
<1> QED
  BY <1>1, <1>2, <1>3, <1>4, <1>5, TypesParts

LEMMA StepTypes ==
  ASSUME Types, [Next]_vars
  PROVE  Types'
<1>1. CASE User
  BY <1>1, UserTypes
<1>2. CASE \E n \in Names : ScanEnter(n)
  BY <1>2, ScanEnterTypes
<1>3. CASE ScanLeave
  BY <1>3, ScanLeaveTypes
<1>4. CASE ScanDone
  BY <1>4, ScanDoneTypes
<1>5. CASE HandleUnknown \/ PassOver \/ HandleCreate \/ HandleDelete
  BY <1>5, HandleTypes
<1>6. CASE RemoveStep
  BY <1>6, RemoveTypes
<1>7. CASE ReadEvents \/ WritePipe \/ ReadPipe \/ RemoveDone \/ EndBatch \/ CleanupDone
           \/ CallCleanup
  BY <1>7, OtherTypes
<1>8. CASE UNCHANGED vars
  BY <1>8, TypesParts
     DEF vars, treeVars, Types, TypeOK, Walking, Attached
<1> QED
  BY <1>1, <1>2, <1>3, <1>4, <1>5, <1>6, <1>7, <1>8 DEF Next, Thread

LEMMA TypesHold == Spec => []Types
BY InitTypes, StepTypes, PTL DEF Spec

\* Whatever the users do, every variable of the watchers keeps its type: a watcher on
\* wtstack is never a freed one, and no level exceeds the depth of a path.
THEOREM WatcherTypes == Spec => []TypeOK
<1>1. Types => TypeOK
  BY DEF Types
<1> QED
  BY <1>1, TypesHold, PTL

-----------------------------------------------------------------------------
(* StackRising and NoneLeadsToFreed *)

Leads(h, c, d) == h[c].child = d \/ h[c].sibling = d

\* What a live watcher leads to is live, is led to by nothing else, and knows what is
\* before it, unless that was freed; no links go round in a circle.
Chained ==
  /\ NoneLeadsToFreed
  /\ \A c \in 1..Len(heap) : heap[c].prev <= Len(heap)
  /\ \A c, d \in live : Leads(heap, c, d) => heap[d].prev = c \/ heap[d].prev \notin live \cup {Nil}
  /\ \A c, e, d \in live : Leads(heap, c, d) /\ Leads(heap, e, d) => c = e
  /\ \A c \in live : heap[c].child = heap[c].sibling => heap[c].child = Nil
  /\ \A S \in SUBSET live : S # {} => \E d \in S : \A c \in S : ~Leads(heap, c, d)

\* Nothing leads to a watcher on the stack yet.
StackFree ==
  \A m \in 1..Len(stack), c \in live : ~Leads(heap, c, stack[m])

\* No link is between the first n watchers and the rest, and the rest are on the stack.
Apart(n) ==
  /\ n <= Len(heap)
  /\ \A m \in 1..Len(stack) : stack[m] > n
  /\ \A c, d \in live : Leads(heap, c, d) => (c <= n <=> d <= n)

\* What a scan makes is linked to nothing made before, the watcher it is for included.
ViewerOff ==
  pc = "scan" /\ root # Nil => \E n \in Nat : viewer <= n /\ Apart(n)

LinkInv == Types /\ StackRising /\ Chained /\ StackFree /\ ViewerOff

\* A new watcher leads to watchers the loop has popped, to different ones by its two links.
LEMMA InsertLeads ==
  ASSUME Types, NEW p \in Paths, NEW d \in Inodes, NEW l \in 0..MaxDepth, Insert(p, d, l)
  PROVE  \E k \in 0..Len(stack) :
           LET w == Len(heap) + 1
               popped == {stack[m] : m \in k + 1..Len(stack)}
           IN /\ Inserted(p, d, l, k)
              /\ popped \subseteq live
              /\ heap'[w].path = p /\ heap'[w].wd = d /\ heap'[w].level = l /\ heap'[w].prev = Nil
              /\ heap'[w].child # Nil =>
                   heap'[w].child \in popped /\ heap[heap'[w].child].level > l
              /\ heap'[w].child = Nil => \A c \in popped : heap[c].level = l
              /\ heap'[w].sibling # Nil =>
                   heap'[w].sibling \in popped /\ heap[heap'[w].sibling].level = l
              /\ heap'[w].sibling = Nil => \A c \in popped : heap[c].level > l
              /\ \A c \in 1..Len(heap) :
                   /\ heap'[c].path = heap[c].path /\ heap'[c].wd = heap[c].wd
                   /\ heap'[c].level = heap[c].level
                   /\ heap'[c].child = heap[c].child /\ heap'[c].sibling = heap[c].sibling
                   /\ heap'[c].prev = IF c \in popped THEN w ELSE heap[c].prev
<1> DEFINE w == Len(heap) + 1
           x == NewWatcher(p, d, l)
<1>1. PICK k \in 0..Len(stack) :
        /\ Inserted(p, d, l, k)
        /\ LastOf({m \in k + 1..Len(stack) : heap[stack[m]].level > l}, x.child)
        /\ LastOf({m \in k + 1..Len(stack) : heap[stack[m]].level = l}, x.sibling)
  BY InsertFacts
<1> DEFINE popped == {stack[m] : m \in k + 1..Len(stack)}
<1>2. popped \subseteq live
  BY CellTypes
<1>3. heap'[w] = x
  BY <1>1 DEF Inserted
<1>4. x.path = p /\ x.wd = d /\ x.level = l /\ x.prev = Nil
  BY DEF NewWatcher
<1>5. \A m \in k + 1..Len(stack) : heap[stack[m]].level >= l /\ heap[stack[m]].level \in Nat
  BY <1>1, CellTypes DEF Inserted
<1>6. l \in Nat
  BY BoundsAssumption
<1>7. \A m \in k + 1..Len(stack) : stack[m] # Nil
  BY CellTypes DEF Nil
<1> HIDE DEF x
<1>8. /\ x.child # Nil => x.child \in popped /\ heap[x.child].level > l
      /\ x.child = Nil => \A c \in popped : heap[c].level = l
  <2>1. CASE {m \in k + 1..Len(stack) : heap[stack[m]].level > l} = {} /\ x.child = Nil
    BY <1>5, <1>6, <2>1
  <2>2. CASE \E m \in {m \in k + 1..Len(stack) : heap[stack[m]].level > l} : x.child = stack[m]
    BY <1>7, <2>2
  <2> QED
    BY <1>1, <2>1, <2>2 DEF LastOf
<1>9. /\ x.sibling # Nil => x.sibling \in popped /\ heap[x.sibling].level = l
      /\ x.sibling = Nil => \A c \in popped : heap[c].level > l
  <2>1. CASE {m \in k + 1..Len(stack) : heap[stack[m]].level = l} = {} /\ x.sibling = Nil
    BY <1>5, <1>6, <2>1
  <2>2. CASE \E m \in {m \in k + 1..Len(stack) : heap[stack[m]].level = l} : x.sibling = stack[m]
    BY <1>7, <2>2
  <2> QED
    BY <1>1, <2>1, <2>2 DEF LastOf
<1>10. \A c \in 1..Len(heap) :
         /\ heap'[c].path = heap[c].path /\ heap'[c].wd = heap[c].wd
         /\ heap'[c].level = heap[c].level
         /\ heap'[c].child = heap[c].child /\ heap'[c].sibling = heap[c].sibling
         /\ heap'[c].prev = IF c \in popped THEN w ELSE heap[c].prev
  <2> TAKE c \in 1..Len(heap)
  <2> DEFINE y == [heap[c] EXCEPT !.prev = w]
  <2>1. /\ y.path = heap[c].path /\ y.wd = heap[c].wd /\ y.level = heap[c].level
        /\ y.child = heap[c].child /\ y.sibling = heap[c].sibling /\ y.prev = w
    BY CellTypes DEF Watchers
  <2> HIDE DEF y
  <2>2. heap'[c] = IF c \in popped THEN y ELSE heap[c]
    BY <1>1 DEF Inserted, y
  <2> QED
    BY <2>1, <2>2
<1> QED
  BY <1>1, <1>2, <1>3, <1>4, <1>8, <1>9, <1>10

LEMMA InsertLinks ==
  ASSUME LinkInv, NEW p \in Paths, NEW d \in Inodes, NEW l \in 0..MaxDepth, Insert(p, d, l)
  PROVE  /\ StackRising' /\ Chained' /\ StackFree'
         /\ \A n \in Nat : Apart(n) => Apart(n)'
<1> DEFINE w == Len(heap) + 1
<1>1. PICK k \in 0..Len(stack) :
        LET popped == {stack[m] : m \in k + 1..Len(stack)}
        IN /\ Inserted(p, d, l, k)
           /\ popped \subseteq live
           /\ heap'[w].path = p /\ heap'[w].wd = d /\ heap'[w].level = l /\ heap'[w].prev = Nil
           /\ heap'[w].child # Nil =>
                heap'[w].child \in popped /\ heap[heap'[w].child].level > l
           /\ heap'[w].child = Nil => \A c \in popped : heap[c].level = l
           /\ heap'[w].sibling # Nil =>
                heap'[w].sibling \in popped /\ heap[heap'[w].sibling].level = l
           /\ heap'[w].sibling = Nil => \A c \in popped : heap[c].level > l
           /\ \A c \in 1..Len(heap) :
                /\ heap'[c].path = heap[c].path /\ heap'[c].wd = heap[c].wd
                /\ heap'[c].level = heap[c].level
                /\ heap'[c].child = heap[c].child /\ heap'[c].sibling = heap[c].sibling
                /\ heap'[c].prev = IF c \in popped THEN w ELSE heap[c].prev
  BY InsertLeads, SMTT(30) DEF LinkInv
<1> DEFINE popped == {stack[m] : m \in k + 1..Len(stack)}
<1>2. Types
  BY DEF LinkInv
<1>3. /\ Len(heap) \in Nat /\ live \subseteq 1..Len(heap) /\ w \notin live /\ Nil \notin live
      /\ w # Nil /\ w > Len(heap)
  BY <1>2, CellTypes DEF Nil
<1>4. live' = live \cup {w} /\ Len(heap') = w
      /\ Len(stack') = k + 1 /\ stack'[k + 1] = w /\ \A m \in 1..k : stack'[m] = stack[m]
      /\ DOMAIN stack' = 1..k + 1
  BY <1>1 DEF Inserted
<1>5. /\ popped \subseteq live
      /\ heap'[w].child # Nil => heap'[w].child \in popped /\ heap[heap'[w].child].level > l
      /\ heap'[w].sibling # Nil => heap'[w].sibling \in popped /\ heap[heap'[w].sibling].level = l
      /\ heap'[w].level = l /\ heap'[w].prev = Nil
  BY <1>1
<1>6. \A c \in 1..Len(heap) :
        /\ heap'[c].level = heap[c].level
        /\ heap'[c].child = heap[c].child /\ heap'[c].sibling = heap[c].sibling
        /\ heap'[c].prev = IF c \in popped THEN w ELSE heap[c].prev
  BY <1>1
<1>7. l \in Nat /\ \A m \in 1..Len(stack) : heap[stack[m]].level \in Nat /\ stack[m] \in live
      /\ Len(stack) \in Nat /\ DOMAIN stack = 1..Len(stack)
  BY <1>2, CellTypes, BoundsAssumption
<1>8. \A i, j \in 1..Len(stack) : i < j => heap[stack[i]].level < heap[stack[j]].level
  BY <1>7 DEF LinkInv, StackRising
<1>9. k > 0 => heap[stack[k]].level < l
  BY <1>1 DEF Inserted
<1>10. StackRising'
  <2>1. \A i, j \in 1..k + 1 : i < j => heap'[stack'[i]].level < heap'[stack'[j]].level
    <3> TAKE i, j \in 1..k + 1
    <3> HAVE i < j
    <3> HIDE DEF w
    <3>0. \A m \in 1..k : m \in 1..Len(stack) /\ stack'[m] = stack[m]
                         /\ heap'[stack'[m]].level = heap[stack[m]].level
      <4> TAKE m \in 1..k
      <4>1. m \in 1..Len(stack)
        BY <1>7
      <4>2. stack[m] \in 1..Len(heap)
        BY <1>3, <1>7, <4>1
      <4> QED
        BY <1>4, <1>6, <4>1, <4>2
    <3>1. i \in 1..k /\ i \in 1..Len(stack) /\ stack'[i] = stack[i]
          /\ heap'[stack'[i]].level = heap[stack[i]].level
      <4>1. i \in 1..k
        BY <1>7
      <4> QED
        BY <3>0, <4>1
    <3>2. CASE j \in 1..k
      <4>1. j \in 1..Len(stack) /\ stack'[j] = stack[j]
            /\ heap'[stack'[j]].level = heap[stack[j]].level
        BY <3>0, <3>2
      <4> QED
        BY <1>8, <3>1, <4>1
    <3>3. CASE j = k + 1
      <4>1. heap'[stack'[j]].level = l
        BY <1>4, <1>5, <3>3
      <4>2. k \in 1..Len(stack) /\ (i < k \/ i = k)
        BY <1>7, <3>1
      <4>3. heap[stack[i]].level < l
        BY <1>7, <1>8, <1>9, <3>1, <4>2
      <4> QED
        BY <3>1, <4>1, <4>3
    <3> QED
      BY <3>2, <3>3
  <2> QED
    BY <1>4, <2>1 DEF StackRising
<1>11. \A c \in popped : \A m \in 1..k : c # stack[m]
  <2> TAKE c \in popped
  <2> TAKE m \in 1..k
  <2>1. PICK j \in k + 1..Len(stack) : c = stack[j]
    OBVIOUS
  <2>2. m \in 1..Len(stack) /\ j \in 1..Len(stack) /\ m < j
    BY <1>7, <2>1
  <2>3. heap[stack[m]].level < heap[stack[j]].level
    BY <1>8, <2>2
  <2> QED
    BY <1>7, <2>1, <2>2, <2>3
<1>12. \A c \in live, e \in popped : ~Leads(heap, c, e)
  BY <1>7 DEF LinkInv, StackFree
<1>13. \A c \in live : heap[c].child \in live \cup {Nil} /\ heap[c].sibling \in live \cup {Nil}
  BY DEF LinkInv, Chained, NoneLeadsToFreed
<1>14. \A c \in live : \A e : Leads(heap', c, e) <=> Leads(heap, c, e)
  BY <1>3, <1>6 DEF Leads
<1>15. \A e \in live' : Leads(heap', w, e) => e \in popped
  BY <1>3, <1>4, <1>5 DEF Leads
<1>16. \A c \in live' : ~Leads(heap', c, w)
  <2>1. \A c \in live : ~Leads(heap, c, w)
    BY <1>3, <1>13 DEF Leads
  <2> QED
    BY <1>3, <1>4, <1>5, <1>14, <1>15, <2>1
<1> HIDE DEF w, popped
<1>17. Chained'
  <2>1. NoneLeadsToFreed'
    <3>1. \A c \in live' : heap'[c].child \in live' \cup {Nil} /\ heap'[c].sibling \in live' \cup {Nil}
      BY <1>3, <1>4, <1>5, <1>6, <1>13
    <3> QED
      BY <3>1 DEF NoneLeadsToFreed
  <2>2. \A c \in 1..Len(heap') : heap'[c].prev <= Len(heap')
    <3>1. \A c \in 1..Len(heap) : heap[c].prev <= Len(heap) /\ heap[c].prev \in Nat
      BY <1>2, CellTypes DEF LinkInv, Chained
    <3>2. \A c \in 1..Len(heap') : c \in 1..Len(heap) \/ c = w
      BY <1>3, <1>4 DEF w
    <3> QED
      BY <1>3, <1>4, <1>5, <1>6, <3>1, <3>2 DEF Nil, w
  <2>3. \A c, e \in live' : Leads(heap', c, e) => heap'[e].prev = c \/ heap'[e].prev \notin live' \cup {Nil}
    <3> TAKE c, e \in live'
    <3> HAVE Leads(heap', c, e)
    <3>1. e \in live
      BY <1>4, <1>16
    <3>2. CASE c = w
      BY <1>3, <1>6, <1>15, <3>1, <3>2
    <3>3. CASE c \in live
      <4>1. Leads(heap, c, e) /\ e \notin popped
        BY <1>12, <1>14, <3>3
      <4>2. heap'[e].prev = heap[e].prev
        BY <1>3, <1>6, <3>1, <4>1
      <4>3. heap[e].prev = c \/ heap[e].prev \notin live \cup {Nil}
        BY <3>1, <3>3, <4>1 DEF LinkInv, Chained
      <4>4. heap[e].prev # w
        <5>1. heap[e].prev <= Len(heap) /\ heap[e].prev \in Nat
          BY <1>2, <1>3, <3>1, CellTypes DEF LinkInv, Chained
        <5> QED
          BY <1>3, <5>1
      <4> QED
        BY <1>4, <4>2, <4>3, <4>4
    <3> QED
      BY <1>4, <3>2, <3>3
  <2>4. \A c, f, e \in live' : Leads(heap', c, e) /\ Leads(heap', f, e) => c = f
    <3> TAKE c, f, e \in live'
    <3> HAVE Leads(heap', c, e) /\ Leads(heap', f, e)
    <3>1. e \in live
      BY <1>4, <1>16
    <3>2. CASE c = w
      BY <1>4, <1>12, <1>14, <1>15, <3>2
    <3>3. CASE f = w
      BY <1>4, <1>12, <1>14, <1>15, <3>3
    <3>4. CASE c \in live /\ f \in live
      BY <1>14, <3>1, <3>4 DEF LinkInv, Chained
    <3> QED
      BY <1>4, <3>2, <3>3, <3>4
  <2>5. \A c \in live' : heap'[c].child = heap'[c].sibling => heap'[c].child = Nil
    <3>1. heap'[w].child = heap'[w].sibling => heap'[w].child = Nil
      BY <1>5, <1>7
    <3>2. \A c \in live : heap[c].child = heap[c].sibling => heap[c].child = Nil
      BY DEF LinkInv, Chained
    <3> QED
      BY <1>3, <1>4, <1>6, <3>1, <3>2
  <2>6. \A S \in SUBSET live' : S # {} => \E e \in S : \A c \in S : ~Leads(heap', c, e)
    <3> TAKE S \in SUBSET live'
    <3> HAVE S # {}
    <3>1. CASE w \in S
      BY <1>16, <3>1
    <3>2. CASE w \notin S
      <4>1. S \in SUBSET live
        BY <1>4, <3>2
      <4>2. PICK e \in S : \A c \in S : ~Leads(heap, c, e)
        BY <4>1 DEF LinkInv, Chained
      <4> QED
        BY <1>14, <4>1, <4>2
    <3> QED
      BY <3>1, <3>2
  <2> QED
    BY <2>1, <2>2, <2>3, <2>4, <2>5, <2>6 DEF Chained
<1>18. StackFree'
  <2>1. \A m \in 1..k + 1, c \in live' : ~Leads(heap', c, stack'[m])
    <3> TAKE m \in 1..k + 1, c \in live'
    <3>1. CASE m = k + 1
      BY <1>4, <1>16, <3>1
    <3>2. CASE m \in 1..k
      <4>1. stack'[m] = stack[m] /\ m \in 1..Len(stack) /\ stack[m] \in live
        BY <1>4, <1>7, <3>2
      <4>2. CASE c \in live
        <5>1. ~Leads(heap, c, stack[m])
          BY <4>1, <4>2 DEF LinkInv, StackFree
        <5> QED
          BY <1>14, <4>1, <4>2, <5>1 DEF Leads
      <4>3. CASE c = w
        <5>1. stack[m] \in live' /\ stack[m] \notin popped
          BY <1>4, <1>11, <3>2, <4>1
        <5> QED
          BY <1>15, <4>1, <4>3, <5>1 DEF Leads
      <4> QED
        BY <1>4, <4>2, <4>3
    <3> QED
      BY <3>1, <3>2
  <2> QED
    BY <1>4, <2>1 DEF StackFree
<1>19. \A n \in Nat : Apart(n) => Apart(n)'
  <2> TAKE n \in Nat
  <2> HAVE Apart(n)
  <2>1. /\ n <= Len(heap) /\ \A m \in 1..Len(stack) : stack[m] > n
        /\ \A c, e \in live : Leads(heap, c, e) => (c <= n <=> e <= n)
    BY DEF Apart
  <2>2. n <= Len(heap') /\ w > n
    BY <1>3, <1>4, <2>1 DEF w
  <2>3. \A m \in 1..k + 1 : stack'[m] > n
    <3> TAKE m \in 1..k + 1
    <3>1. m = k + 1 \/ (m \in 1..k /\ m \in 1..Len(stack))
      BY <1>7
    <3> QED
      BY <1>4, <2>1, <2>2, <3>1
  <2>4. \A c, e \in live' : Leads(heap', c, e) => (c <= n <=> e <= n)
    <3> TAKE c, e \in live'
    <3> HAVE Leads(heap', c, e)
    <3>1. e \in live
      BY <1>4, <1>16
    <3>2. CASE c = w
      <4>1. e \in popped
        BY <1>15, <3>2
      <4>2. PICK m \in k + 1..Len(stack) : e = stack[m]
        BY <4>1 DEF popped
      <4>3. m \in 1..Len(stack)
        BY <1>7
      <4>4. e > n
        BY <2>1, <4>2, <4>3
      <4> QED
        BY <1>3, <2>2, <3>1, <3>2, <4>4
    <3>3. CASE c \in live
      BY <1>14, <2>1, <3>1, <3>3
    <3> QED
      BY <1>4, <3>2, <3>3
  <2> QED
    BY <1>4, <2>2, <2>3, <2>4 DEF Apart
<1> QED
  BY <1>10, <1>17, <1>18, <1>19

\* What insert_watcher_child() does to the links of v, a watcher, and w, which nothing
\* leads to yet.
LEMMA LinkChildFacts ==
  ASSUME LinkInv, NEW v \in live, NEW w \in live, w # v,
         \A c \in live : ~Leads(heap, c, w)
  PROVE  \A c \in 1..Len(heap) :
           LET e == LinkChild(heap, v, w)[c]
           IN /\ e.path = heap[c].path /\ e.wd = heap[c].wd /\ e.level = heap[c].level
              /\ e.child = IF c = v THEN w ELSE heap[c].child
              /\ e.sibling = IF c = w THEN heap[v].child ELSE heap[c].sibling
              /\ c # v => e.prev = IF c = w THEN v ELSE IF c = heap[v].child THEN w ELSE heap[c].prev
              /\ c = v => e.prev = heap[c].prev
<1> TAKE c \in 1..Len(heap)
<1> DEFINE first == heap[v].child
           h == LinkChild(heap, v, w)
<1>1. Types /\ DOMAIN heap = 1..Len(heap) /\ heap[c] \in Watchers
      /\ first # w /\ first # v
  <2>1. {v} \in SUBSET live /\ {v} # {}
    OBVIOUS
  <2>2. ~Leads(heap, v, v)
    BY <2>1 DEF LinkInv, Chained
  <2> QED
    BY <2>2, CellTypes DEF LinkInv, Leads
<1> DEFINE linked == [heap[c] EXCEPT !.sibling = first, !.prev = v]
           father == [heap[c] EXCEPT !.child = w]
           second == [heap[c] EXCEPT !.prev = w]
<1>2. /\ c = w => h[c] = linked
      /\ c # w /\ c = v => h[c] = father
      /\ c # w /\ c # v /\ c = first => h[c] = second
      /\ c # w /\ c # v /\ c # first => h[c] = heap[c]
  <2>1. h = [e \in DOMAIN heap |->
               CASE e = w     -> [heap[e] EXCEPT !.sibling = first, !.prev = v]
                 [] e = v     -> [heap[e] EXCEPT !.child = w]
                 [] e = first -> [heap[e] EXCEPT !.prev = w]
                 [] OTHER     -> heap[e]]
    BY DEF LinkChild
  <2>2. h[c] = CASE c = w     -> linked
                 [] c = v     -> father
                 [] c = first -> second
                 [] OTHER     -> heap[c]
    BY <1>1, <2>1
  <2> HIDE DEF h, linked, father, second, first
  <2> QED
    BY <1>1, <2>2
<1> HIDE DEF h, linked, father, second
<1>3. CASE c = w
  <2>1. h[c] = linked
    BY <1>2, <1>3
  <2> QED
    BY <1>1, <1>3, <2>1 DEF h, linked, Watchers
<1>4. CASE c # w /\ c = v
  <2>1. h[c] = father
    BY <1>2, <1>4
  <2> QED
    BY <1>1, <1>4, <2>1 DEF h, father, Watchers
<1>5. CASE c # w /\ c # v /\ c = first
  <2>1. h[c] = second
    BY <1>2, <1>5
  <2> QED
    BY <1>1, <1>5, <2>1 DEF h, second, Watchers
<1>6. CASE c # w /\ c # v /\ c # first
  <2>1. h[c] = heap[c]
    BY <1>2, <1>6
  <2> QED
    BY <1>1, <1>6, <2>1 DEF h
<1> QED
  BY <1>3, <1>4, <1>5, <1>6

LEMMA LinkChildLinks ==
  ASSUME LinkInv, NEW v \in live, NEW w \in live, w # v,
         \A c \in live : ~Leads(heap, c, w),
         NEW n \in Nat, v <= n, w > n, Apart(n),
         heap' = LinkChild(heap, v, w), UNCHANGED live
  PROVE  Chained'
<1> DEFINE first == heap[v].child
<1>1. \A c \in 1..Len(heap) :
        /\ heap'[c].child = IF c = v THEN w ELSE heap[c].child
        /\ heap'[c].sibling = IF c = w THEN first ELSE heap[c].sibling
        /\ c # v => heap'[c].prev = IF c = w THEN v ELSE IF c = first THEN w ELSE heap[c].prev
        /\ c = v => heap'[c].prev = heap[c].prev
  BY LinkChildFacts
<1>2. /\ Types /\ live \subseteq 1..Len(heap) /\ Len(heap) \in Nat /\ DOMAIN heap = 1..Len(heap)
      /\ Nil \notin live /\ \A c \in 1..Len(heap) : heap[c].prev \in Nat
  BY CellTypes DEF LinkInv, Nil
<1>3. Len(heap') = Len(heap)
  <2>1. v \in DOMAIN heap /\ w \in DOMAIN heap
    BY <1>2
  <2>2. heap' \in Seq(Watchers) /\ DOMAIN heap' = DOMAIN heap
    BY <1>2, <2>1, LinkChildTypes
  <2>3. Len(heap') \in Nat /\ DOMAIN heap' = 1..Len(heap')
    BY <2>2
  <2> QED
    BY <1>2, <2>2, <2>3
<1>4. first \in live \cup {Nil} /\ first # w
  BY DEF LinkInv, Chained, NoneLeadsToFreed, Leads
<1>5. /\ \A c \in live : heap[c].child \in live \cup {Nil} /\ heap[c].sibling \in live \cup {Nil}
      /\ \A c \in 1..Len(heap) : heap[c].prev <= Len(heap)
      /\ \A c, d \in live :
           Leads(heap, c, d) => heap[d].prev = c \/ heap[d].prev \notin live \cup {Nil}
      /\ \A c, e, d \in live : Leads(heap, c, d) /\ Leads(heap, e, d) => c = e
      /\ \A c \in live : heap[c].child = heap[c].sibling => heap[c].child = Nil
      /\ \A S \in SUBSET live : S # {} => \E d \in S : \A c \in S : ~Leads(heap, c, d)
      /\ ~Leads(heap, v, v)
  <2>1. \A S \in SUBSET live : S # {} => \E d \in S : \A c \in S : ~Leads(heap, c, d)
    BY DEF LinkInv, Chained
  <2>2. {v} \in SUBSET live /\ {v} # {}
    OBVIOUS
  <2>3. ~Leads(heap, v, v)
    BY <2>1, <2>2
  <2> QED
    BY <2>1, <2>3 DEF LinkInv, Chained, NoneLeadsToFreed
\* Only v leads to w, and only w to what was the first child of v.
<1>6. \A c, d \in live :
        Leads(heap', c, d) =>
          \/ d = w /\ c = v
          \/ d = first /\ c = w
          \/ d # w /\ d # first /\ Leads(heap, c, d)
          \/ d # w /\ d = first /\ c = v /\ heap[v].sibling = first
  <2> TAKE c, d \in live
  <2> HAVE Leads(heap', c, d)
  <2>1. ~Leads(heap, c, w)
    OBVIOUS
  <2>2. c \in 1..Len(heap)
    BY <1>2
  <2>3. CASE c = v
    BY <1>1, <2>1, <2>2, <2>3 DEF Leads
  <2>4. CASE c # v
    <3>1. d = first => c = w
      <4>1. d = first => heap[v].child = d
        OBVIOUS
      <4>2. d = first /\ c # w => Leads(heap, c, d)
        BY <1>1, <2>2, <2>4 DEF Leads
      <4>3. d = first => Leads(heap, v, d)
        BY <4>1 DEF Leads
      <4> QED
        BY <1>5, <2>4, <4>2, <4>3
    <3>2. d # first => Leads(heap, c, d)
      BY <1>1, <2>2, <2>4 DEF Leads
    <3> QED
      BY <2>1, <3>1, <3>2
  <2> QED
    BY <2>3, <2>4
<1>7. first # Nil => heap[v].sibling # first
  BY <1>5
<1> HIDE DEF first
<1>8. NoneLeadsToFreed'
  <2>1. \A c \in live : heap'[c].child \in live \cup {Nil} /\ heap'[c].sibling \in live \cup {Nil}
    BY <1>1, <1>2, <1>4, <1>5
  <2> QED
    BY <2>1 DEF NoneLeadsToFreed
<1>9. \A c \in 1..Len(heap') : heap'[c].prev <= Len(heap')
  <2> TAKE c \in 1..Len(heap')
  <2>1. v \in 1..Len(heap) /\ w \in 1..Len(heap) /\ c \in 1..Len(heap)
    BY <1>2, <1>3
  <2>2. heap'[c].prev \in {v, w, heap[c].prev}
    BY <1>1, <2>1
  <2>3. v <= Len(heap) /\ w <= Len(heap) /\ heap[c].prev <= Len(heap)
    BY <1>2, <1>5, <2>1
  <2> QED
    BY <1>3, <2>2, <2>3
<1>10. \A c, d \in live' :
         Leads(heap', c, d) => heap'[d].prev = c \/ heap'[d].prev \notin live' \cup {Nil}
  <2> TAKE c, d \in live'
  <2> HAVE Leads(heap', c, d)
  <2>1. c \in live /\ d \in live /\ d \in 1..Len(heap) /\ d # Nil
    BY <1>2
  <2>2. CASE d = w /\ c = v
    BY <1>1, <2>1, <2>2
  <2>3. CASE d = first /\ c = w
    <3>1. d # v => heap'[d].prev = w
      BY <1>1, <1>4, <2>1, <2>3
    <3>2. d # v
      BY <1>5, <2>3 DEF Leads, first
    <3> QED
      BY <2>3, <3>1, <3>2
  <2>4. CASE d # w /\ d # first /\ Leads(heap, c, d)
    <3>1. heap'[d].prev = heap[d].prev
      BY <1>1, <2>1, <2>4
    <3> QED
      BY <1>5, <2>1, <2>4, <3>1
  <2> QED
    BY <1>6, <1>7, <2>1, <2>2, <2>3, <2>4
<1>11. \A c, e, d \in live' : Leads(heap', c, d) /\ Leads(heap', e, d) => c = e
  <2> TAKE c, e, d \in live'
  <2> HAVE Leads(heap', c, d) /\ Leads(heap', e, d)
  <2>1. c \in live /\ e \in live /\ d \in live /\ d # Nil
    BY <1>2
  <2> QED
    BY <1>4, <1>5, <1>6, <1>7, <2>1
<1>12. \A c \in live' : heap'[c].child = heap'[c].sibling => heap'[c].child = Nil
  <2> TAKE c \in live'
  <2>1. c \in live /\ c \in 1..Len(heap)
    BY <1>2
  <2>2. CASE c = v
    <3>1. heap'[c].child = w /\ heap'[c].sibling = heap[v].sibling
      BY <1>1, <2>1, <2>2
    <3> QED
      BY <3>1 DEF Leads
  <2>3. CASE c # v /\ c = w
    <3>1. heap'[c].child = heap[w].child /\ heap'[c].sibling = first
      BY <1>1, <2>1, <2>3
    <3>2. first # Nil /\ heap[w].child = first => Leads(heap, w, first) /\ Leads(heap, v, first)
      BY DEF Leads, first
    <3> QED
      BY <1>4, <1>5, <2>3, <3>1, <3>2
  <2>4. CASE c # v /\ c # w
    BY <1>1, <1>5, <2>1, <2>4
  <2> QED
    BY <2>2, <2>3, <2>4
<1>13. \A S \in SUBSET live' : S # {} => \E d \in S : \A c \in S : ~Leads(heap', c, d)
  <2> TAKE S \in SUBSET live'
  <2> HAVE S # {}
  <2>1. S \in SUBSET live
    OBVIOUS
  <2>2. CASE v \notin S /\ w \in S
    <3>1. w \in live /\ \A c \in S : c # v /\ c \in live
      BY <2>1, <2>2
    <3>2. \A c \in S : ~Leads(heap', c, w)
      BY <1>4, <1>6, <3>1
    <3> QED
      BY <2>2, <3>2
  <2>3. CASE w \notin S
    <3>1. PICK d \in S : \A c \in S : ~Leads(heap, c, d)
      BY <1>5, <2>1
    <3>2. \A c \in S : c # w /\ c \in live
      BY <2>1, <2>3
    <3>3. d # w /\ d \in live /\ d # Nil
      BY <1>2, <2>1, <2>3
    <3>4. heap[v].sibling = first => first = Nil
      BY <1>7
    <3>5. \A c \in S : ~Leads(heap', c, d)
      BY <1>6, <3>1, <3>2, <3>3, <3>4
    <3> QED
      BY <3>5
  <2>4. CASE v \in S
    <3> DEFINE old == {c \in S : c <= n}
    <3>1. old \in SUBSET live /\ v \in old
      BY <2>1, <2>4
    <3>2. PICK d \in old : \A c \in old : ~Leads(heap, c, d)
      BY <1>5, <3>1
    <3>3. d # first
      BY <3>1, <3>2 DEF first, Leads
    <3>4. \A c \in S : Leads(heap, c, d) => c \in old
      BY <2>1 DEF Apart
    <3>5. d # w /\ d \in live /\ d \in S
      BY <3>1, <3>2, <1>2
    <3>6. \A c \in S : ~Leads(heap', c, d)
      BY <1>6, <2>1, <3>2, <3>3, <3>4, <3>5
    <3> QED
      BY <3>5, <3>6
  <2> QED
    BY <2>2, <2>3, <2>4
<1> QED
  BY <1>8, <1>9, <1>10, <1>11, <1>12, <1>13 DEF Chained

\* remove_watcher() leaves nothing that leads to what it frees: only the watcher before
\* it did.
LEMMA FreeLinks ==
  ASSUME LinkInv, NEW w \in live, heap[w].prev \in live \cup {Nil}, Free(w)
  PROVE  Chained'
<1> DEFINE p == heap[w].prev
           s == heap[w].sibling
<1>1. Types
  BY DEF LinkInv
<1>2. /\ Len(heap') = Len(heap) /\ live' = live \ {w}
      /\ \A c \in 1..Len(heap) :
           /\ heap'[c].prev = heap[c].prev
           /\ heap'[c].child = IF c = p /\ heap[c].child = w THEN s ELSE heap[c].child
           /\ heap'[c].sibling = IF c = p /\ heap[c].child # w /\ heap[c].sibling = w
                                 THEN s ELSE heap[c].sibling
  BY <1>1, FreeFacts
<1>3. live \subseteq 1..Len(heap) /\ Nil \notin live
  BY <1>1, CellTypes DEF Nil
<1>4. /\ \A c \in live : heap[c].child \in live \cup {Nil} /\ heap[c].sibling \in live \cup {Nil}
      /\ \A c \in 1..Len(heap) : heap[c].prev <= Len(heap)
      /\ \A c, d \in live :
           Leads(heap, c, d) => heap[d].prev = c \/ heap[d].prev \notin live \cup {Nil}
      /\ \A c, e, d \in live : Leads(heap, c, d) /\ Leads(heap, e, d) => c = e
      /\ \A c \in live : heap[c].child = heap[c].sibling => heap[c].child = Nil
      /\ \A S \in SUBSET live : S # {} => \E d \in S : \A c \in S : ~Leads(heap, c, d)
  BY DEF LinkInv, Chained, NoneLeadsToFreed
<1>5. \A c \in live : Leads(heap, c, w) => c = p
  BY <1>4
<1>6. ~Leads(heap, w, w)
  <2>1. {w} \in SUBSET live /\ {w} # {}
    OBVIOUS
  <2> QED
    BY <1>4, <2>1
<1>7. s \in live' \cup {Nil} /\ s # w
  BY <1>2, <1>3, <1>4, <1>6 DEF Leads
\* The watcher before w now leads to the sibling of w instead.
<1>8. \A c, d \in live' :
        Leads(heap', c, d) =>
          \/ Leads(heap, c, d)
          \/ c = p /\ d = s /\ Leads(heap, p, w) /\ Leads(heap, w, s)
  <2> TAKE c, d \in live'
  <2> HAVE Leads(heap', c, d)
  <2>1. c \in live /\ c \in 1..Len(heap) /\ d \in live
    BY <1>2, <1>3
  <2> QED
    BY <1>2, <2>1 DEF Leads
<1> HIDE DEF p
<1>9. NoneLeadsToFreed'
  <2>1. \A c \in live' : heap'[c].child \in live' \cup {Nil} /\ heap'[c].sibling \in live' \cup {Nil}
    <3> TAKE c \in live'
    <3>1. c \in live /\ c \in 1..Len(heap)
      BY <1>2, <1>3
    <3>2. c = p \/ (heap[c].child # w /\ heap[c].sibling # w)
      BY <1>5, <3>1 DEF Leads
    <3>3. heap[c].child = w => heap[c].sibling # w
      BY <1>3, <1>4, <3>1
    <3>4. heap[c].child \in live \cup {Nil} /\ heap[c].sibling \in live \cup {Nil}
      BY <1>4, <3>1
    <3>5. heap'[c].child # w /\ heap'[c].child \in live \cup {Nil}
      BY <1>2, <1>7, <3>1, <3>2, <3>4
    <3>6. heap'[c].sibling # w /\ heap'[c].sibling \in live \cup {Nil}
      BY <1>2, <1>7, <3>1, <3>2, <3>3, <3>4
    <3> QED
      BY <1>2, <3>5, <3>6
  <2> QED
    BY <2>1 DEF NoneLeadsToFreed
<1>10. \A c \in 1..Len(heap') : heap'[c].prev <= Len(heap')
  BY <1>2, <1>4
<1>11. \A c, d \in live' :
         Leads(heap', c, d) => heap'[d].prev = c \/ heap'[d].prev \notin live' \cup {Nil}
  <2> TAKE c, d \in live'
  <2> HAVE Leads(heap', c, d)
  <2>1. c \in live /\ d \in live /\ d \in 1..Len(heap) /\ heap'[d].prev = heap[d].prev
    BY <1>2, <1>3
  <2>2. CASE Leads(heap, c, d)
    BY <1>2, <1>4, <2>1, <2>2
  <2>3. CASE d = s /\ Leads(heap, w, s)
    <3>1. heap[d].prev = w \/ heap[d].prev \notin live \cup {Nil}
      BY <1>4, <2>1, <2>3
    <3> QED
      BY <1>2, <1>3, <2>1, <3>1
  <2> QED
    BY <1>8, <2>2, <2>3
<1>12. \A c, e, d \in live' : Leads(heap', c, d) /\ Leads(heap', e, d) => c = e
  <2> TAKE c, e, d \in live'
  <2> HAVE Leads(heap', c, d) /\ Leads(heap', e, d)
  <2>1. c \in live /\ e \in live /\ d \in live /\ c # w /\ e # w
    BY <1>2
  <2>2. d = s /\ Leads(heap, w, s) => ~Leads(heap, c, d) /\ ~Leads(heap, e, d)
    BY <1>4, <2>1
  <2> QED
    BY <1>4, <1>8, <2>1, <2>2
<1>13. \A c \in live' : heap'[c].child = heap'[c].sibling => heap'[c].child = Nil
  <2> TAKE c \in live'
  <2>1. c \in live /\ c \in 1..Len(heap) /\ c # w
    BY <1>2, <1>3
  <2>2. s # Nil => ~Leads(heap, c, s)
    <3>1. Leads(heap, w, s)
      BY DEF Leads
    <3> QED
      BY <1>4, <1>7, <1>2, <2>1, <3>1
  <2>3. heap[c].child = heap[c].sibling => heap[c].child = Nil
    BY <1>4, <2>1
  <2> QED
    BY <1>2, <1>3, <2>1, <2>2, <2>3 DEF Leads
<1>14. \A S \in SUBSET live' : S # {} => \E d \in S : \A c \in S : ~Leads(heap', c, d)
  <2> TAKE S \in SUBSET live'
  <2> HAVE S # {}
  <2>1. S \in SUBSET live /\ S \cup {w} \in SUBSET live /\ S \cup {w} # {}
    BY <1>2
  <2>2. CASE p \in S /\ Leads(heap, p, w)
    <3>1. PICK d \in S \cup {w} : \A c \in S \cup {w} : ~Leads(heap, c, d)
      BY <1>4, <2>1
    <3>2. d \in S /\ \A c \in S : ~Leads(heap, c, d)
      BY <2>2, <3>1
    <3>3. \A c \in S : ~Leads(heap', c, d)
      BY <1>8, <3>1, <3>2
    <3> QED
      BY <3>2, <3>3
  <2>3. CASE ~(p \in S /\ Leads(heap, p, w))
    <3>1. PICK d \in S : \A c \in S : ~Leads(heap, c, d)
      BY <1>4, <2>1
    <3>2. \A c \in S : ~Leads(heap', c, d)
      BY <1>8, <2>3, <3>1
    <3> QED
      BY <3>2
  <2> QED
    BY <2>2, <2>3
<1> QED
  BY <1>9, <1>10, <1>11, <1>12, <1>13, <1>14 DEF Chained

LEMMA InitLinks == Init => LinkInv
<1> SUFFICES ASSUME Init PROVE LinkInv
  OBVIOUS
<1>1. heap = <<>> /\ live = {} /\ stack = <<>> /\ root = Nil
  BY DEF Init
<1>2. StackRising /\ StackFree /\ ViewerOff
  BY <1>1 DEF StackRising, StackFree, ViewerOff
<1>3. Chained
  BY <1>1 DEF Chained, NoneLeadsToFreed
<1> QED
  BY <1>2, <1>3, InitTypes DEF LinkInv

\* The parts of LinkInv in the next state.
LEMMA LinkParts == LinkInv <=> Types /\ StackRising /\ Chained /\ StackFree /\ ViewerOff
BY DEF LinkInv

LEMMA SameLinks ==
  ASSUME LinkInv, UNCHANGED <<heap, live, stack>>, pc' = "scan" /\ root' # Nil => ViewerOff'
  PROVE  StackRising' /\ Chained' /\ StackFree' /\ ViewerOff'
<1>1. StackRising'
  BY DEF LinkInv, StackRising
<1>2. NoneLeadsToFreed'
  BY DEF LinkInv, Chained, NoneLeadsToFreed
<1>3. Chained'
  BY <1>2 DEF LinkInv, Chained
<1>4. StackFree'
  BY DEF LinkInv, StackFree
<1>5. ViewerOff'
  BY DEF ViewerOff
<1> QED
  BY <1>1, <1>3, <1>4, <1>5

LEMMA StepLinks ==
  ASSUME LinkInv, [Next]_vars
  PROVE  LinkInv'
<1>1. Types /\ Types'
  BY StepTypes DEF LinkInv
<1>2. Attached /\ Walking /\ FsTypes
  BY <1>1, TypesParts
<1>3. SUFFICES StackRising' /\ Chained' /\ StackFree' /\ ViewerOff'
  BY <1>1, LinkParts, PTL
<1>4. CASE \/ User \/ UNCHANGED vars
           \/ ReadEvents \/ WritePipe \/ ReadPipe \/ RemoveDone \/ EndBatch \/ CleanupDone
           \/ CallCleanup \/ HandleUnknown \/ PassOver \/ HandleDelete
  <2>1. /\ UNCHANGED <<heap, live, stack, root>>
        /\ pc' = "scan" => UNCHANGED <<pc, viewer>>
    <3>1. CASE User
      BY <3>1, UserLeaves
    <3>2. CASE UNCHANGED vars
      BY <3>2 DEF vars
    <3>3. CASE \/ ReadEvents \/ WritePipe \/ ReadPipe \/ RemoveDone \/ EndBatch \/ CleanupDone
               \/ CallCleanup
      BY <3>3 DEF ReadEvents, WritePipe, ReadPipe, RemoveDone, EndBatch, CleanupDone, CallCleanup,
                  treeVars
    <3>4. CASE HandleUnknown \/ PassOver \/ HandleDelete
      BY <3>4 DEF HandleUnknown, PassOver, HandleDelete, Die, Handling, treeVars
    <3> QED
      BY <1>4, <3>1, <3>2, <3>3, <3>4
  <2>2. pc' = "scan" /\ root' # Nil => ViewerOff'
    BY <2>1 DEF LinkInv, ViewerOff, Apart
  <2> QED
    BY <2>1, <2>2, SameLinks
<1>5. CASE HandleCreate
  <2>1. UNCHANGED <<heap, live, stack, root>> /\ stack = <<>> /\ (pc' = "scan" => viewer' = EvViewer)
    BY <1>2, <1>5 DEF HandleCreate, Handling, Die, treeVars, Attached
  <2>2. pc' = "scan" /\ root' # Nil => ViewerOff'
    <3> HAVE pc' = "scan" /\ root' # Nil
    <3>1. Len(heap) \in Nat /\ live \subseteq 1..Len(heap)
      BY <1>1, CellTypes
    <3>2. viewer' \in live
      BY <1>1, <1>5, <2>1, SearchFinds DEF HandleCreate, EvViewer
    <3>3. PICK n \in Nat : n = Len(heap)
      BY <3>1
    <3>4. viewer' <= n /\ Apart(n)'
      BY <2>1, <3>1, <3>2, <3>3 DEF Apart
    <3> QED
      BY <3>4 DEF ViewerOff
  <2> QED
    BY <2>1, <2>2, SameLinks
<1>6. CASE \E n \in Names : ScanEnter(n)
  <2>1. PICK n \in Names : ScanEnter(n)
    BY <1>6
  <2>2. UNCHANGED <<root, viewer>> /\ pc = "scan"
    BY <2>1 DEF ScanEnter
  <2>3. CASE UNCHANGED treeVars
    <3>1. pc' = "scan" /\ root' # Nil => ViewerOff'
      BY <2>2, <2>3 DEF treeVars, LinkInv, ViewerOff, Apart
    <3> QED
      BY <2>3, <3>1, SameLinks DEF treeVars
  <2>4. CASE Insert(Append(Top.path, n), None, Len(frames))
    <3>1. Append(Top.path, n) \in Paths /\ Len(frames) \in 0..MaxDepth
      BY <1>1, <2>1, TopFacts DEF ScanEnter
    <3>2. /\ StackRising' /\ Chained' /\ StackFree'
          /\ \A m \in Nat : Apart(m) => Apart(m)'
      BY <2>4, <3>1, NoneIsInode, InsertLinks
    <3> QED
      BY <2>2, <3>2 DEF LinkInv, ViewerOff
  <2> QED
    BY <2>1, <2>3, <2>4 DEF ScanEnter
<1>7. CASE ScanLeave
  <2>1. pc = "scan" /\ UNCHANGED <<root, viewer, pc>> /\ frames # <<>>
    BY <1>7 DEF ScanLeave
  <2>2. CASE UNCHANGED treeVars
    <3>1. pc' = "scan" /\ root' # Nil => ViewerOff'
      BY <2>1, <2>2 DEF treeVars, LinkInv, ViewerOff, Apart
    <3> QED
      BY <2>2, <3>1, SameLinks DEF treeVars
  <2>3. CASE \E d \in AddWatch(Top) : Insert(Top.path, d, Len(frames) - 1)
    <3>1. Top.path \in Paths /\ Len(frames) - 1 \in 0..MaxDepth
      BY <1>1, <2>1, TopFacts
    <3>2. \A d \in AddWatch(Top) : d \in Inodes
      BY <1>1, <1>2, <2>1, TopFacts, AddWatchFacts
    <3>3. /\ StackRising' /\ Chained' /\ StackFree'
          /\ \A m \in Nat : Apart(m) => Apart(m)'
      BY <2>3, <3>1, <3>2, InsertLinks
    <3> QED
      BY <2>1, <3>3 DEF LinkInv, ViewerOff
  <2> QED
    BY <1>7, <2>2, <2>3 DEF ScanLeave
<1>8. CASE ScanDone
  <2>1. pc = "scan" /\ pc' # "scan" /\ UNCHANGED live
    BY <1>8 DEF ScanDone, Die
  <2>2. ViewerOff'
    BY <2>1 DEF ViewerOff
  <2>3. CASE UNCHANGED <<heap, stack>>
    BY <2>1, <2>2, <2>3, SameLinks
  <2>4. CASE Len(stack) = 1 /\ stack' = <<>> /\ root = Nil /\ UNCHANGED heap
    <3>1. StackRising' /\ StackFree'
      BY <2>4 DEF StackRising, StackFree
    <3>2. NoneLeadsToFreed'
      BY <2>1, <2>4 DEF LinkInv, Chained, NoneLeadsToFreed
    <3>3. Chained'
      BY <2>1, <2>4, <3>2 DEF LinkInv, Chained
    <3> QED
      BY <2>2, <3>1, <3>3
  <2>5. CASE Len(stack) = 1 /\ stack' = <<>> /\ root # Nil /\ heap' = LinkChild(heap, viewer, stack[1])
    <3>1. StackRising' /\ StackFree'
      BY <2>5 DEF StackRising, StackFree
    <3>2. viewer \in live /\ stack[1] \in live /\ 1 \in 1..Len(stack)
      BY <1>1, <1>2, <2>1, <2>5, CellTypes DEF Attached
    <3>3. PICK n \in Nat : viewer <= n /\ Apart(n)
      BY <2>1, <2>5 DEF LinkInv, ViewerOff
    <3>4. stack[1] > n /\ \A c \in live : ~Leads(heap, c, stack[1])
      BY <3>2, <3>3 DEF Apart, LinkInv, StackFree
    <3>5. stack[1] # viewer
      BY <1>1, <3>2, <3>3, <3>4, CellTypes
    <3>6. Chained'
      BY <2>1, <2>5, <3>2, <3>3, <3>4, <3>5, LinkChildLinks
    <3> QED
      BY <2>2, <3>1, <3>6
  <2> QED
    BY <1>8, <2>3, <2>4, <2>5 DEF ScanDone
<1>9. CASE RemoveStep
  <2>1. pc # "scan" /\ pc' # "scan" /\ stack = <<>> /\ UNCHANGED stack
    BY <1>2, <1>9, RemoveCases DEF RemoveCase, Attached
  <2>2. ViewerOff' /\ StackRising' /\ StackFree'
    BY <2>1 DEF ViewerOff, StackRising, StackFree
  <2>3. CASE UNCHANGED <<heap, live>>
    BY <2>1, <2>2, <2>3, SameLinks
  <2>4. CASE \E w \in live : heap[w].prev \in live \cup {Nil} /\ Free(w)
    BY <2>2, <2>4, FreeLinks
  <2> QED
    BY <1>9, <2>3, <2>4, RemoveCases DEF RemoveCase
<1> QED
  BY <1>4, <1>5, <1>6, <1>7, <1>8, <1>9 DEF Next, Thread

LEMMA LinksHold == Spec => []LinkInv
BY InitLinks, StepLinks, PTL DEF Spec

\* wtstack in any run of the thread: the levels rise from the bottom to the top, so the
\* loop of insert_watcher() pops what belongs to the new watcher and no more.
THEOREM LevelsRise == Spec => []StackRising
<1>1. LinkInv => StackRising
  BY DEF LinkInv
<1> QED
  BY <1>1, LinksHold, PTL

\* remove_watcher() and insert_watcher_child() in any order, scans under way or not: no
\* child or sibling of a watcher in use leads to one that was freed.
THEOREM LinksAreLive == Spec => []NoneLeadsToFreed
<1>1. LinkInv => NoneLeadsToFreed
  BY DEF LinkInv, Chained
<1> QED
  BY <1>1, LinksHold, PTL

-----------------------------------------------------------------------------
(* RemovesOwnOnly, when no directory is hidden *)

\* q is in the directory p, and q and p are in the same one.
IsIn(q, p)     == q # Root /\ ParentOf(q) = p
IsBeside(q, p) == q # Root /\ p # Root /\ ParentOf(q) = ParentOf(p)

\* q is somewhere below p.
Below(p, q) == IsPrefix(p, q) /\ Len(p) < Len(q)

\* The links are those of the paths.
LinksOfPaths ==
  \A c, d \in live :
    /\ heap[c].child = d => IsIn(heap[d].path, heap[c].path)
    /\ heap[c].sibling = d => IsBeside(heap[d].path, heap[c].path)

\* The directory a scan begins at.
Base(p) == IF root = Nil THEN p = Root ELSE IsIn(p, heap[viewer].path)

\* A watcher on the stack is in the directory nftw() is in at its level.
Standing(x) ==
  /\ x.level <= Len(frames)
  /\ x.level > 0 => IsIn(x.path, frames[x.level].path)
  /\ x.level = 0 => frames = <<>> /\ Base(x.path) /\ x.sibling = Nil

ScanOfPaths ==
  pc = "scan" =>
    /\ frames # <<>> => Base(frames[1].path)
    /\ \A k \in 1..Len(frames) - 1 : IsIn(frames[k + 1].path, frames[k].path)
    /\ \A m \in 1..Len(stack) : Standing(heap[stack[m]])

\* The recursion has still to free what it was given, and is below that.
RemovalOfPaths ==
  pc = "remove" /\ work # <<>> =>
    LET given == work[Len(work)]
    IN /\ given.op = "free" /\ given.cell \in 1..Len(heap)
       /\ \A k \in 1..Len(work) - 1 :
            work[k].cell # Nil =>
              /\ work[k].cell \in 1..Len(heap)
              /\ Below(heap[given.cell].path, heap[work[k].cell].path)

LEMMA PrefixFacts ==
  \A p, q \in Paths :
    IsPrefix(p, q) <=> Len(p) <= Len(q) /\ \A k \in 1..Len(p) : p[k] = q[k]
<1> TAKE p, q \in Paths
<1>1. p \in Seq(Names) /\ q \in Seq(Names) /\ Len(p) \in Nat /\ Len(q) \in Nat
  BY PathIsSeq
<1>2. PICK n \in Nat : n = Len(p)
  BY <1>1
<1>3. SubSeq(p, 1, n) = p
  <2>1. \A k \in 1..n : p[k] \in Names
    BY <1>1, <1>2
  <2>2. /\ SubSeq(p, 1, n) \in Seq(Names) /\ Len(SubSeq(p, 1, n)) = n
        /\ \A k \in 1..n : SubSeq(p, 1, n)[k] = p[k]
    BY <1>2, <2>1, SubSeqProperties
  <2> QED
    BY <1>1, <1>2, <2>2, SeqEqual
<1>4. ASSUME n <= Len(q)
      PROVE  /\ SubSeq(q, 1, n) \in Seq(Names) /\ Len(SubSeq(q, 1, n)) = n
             /\ \A k \in 1..n : SubSeq(q, 1, n)[k] = q[k]
  <2>1. \A k \in 1..n : q[k] \in Names
    BY <1>1, <1>4
  <2> QED
    BY <1>2, <2>1, SubSeqProperties
<1>5. ASSUME n <= Len(q)
      PROVE  SubSeq(q, 1, n) = p <=> \A k \in 1..n : p[k] = q[k]
  <2> DEFINE r == SubSeq(q, 1, n)
  <2>1. r \in Seq(Names) /\ Len(r) = n /\ \A k \in 1..n : r[k] = q[k]
    BY <1>4, <1>5
  <2> HIDE DEF r
  <2>2. (\A k \in 1..n : r[k] = p[k]) => r = p
    BY <1>1, <1>2, <2>1, SeqEqual
  <2> QED
    BY <2>1, <2>2 DEF r
<1> QED
  BY <1>2, <1>3, <1>5 DEF IsPrefix

LEMMA BelowFacts ==
  \A g, p, q \in Paths :
    /\ IsPrefix(g, g)
    /\ Below(g, p) => IsPrefix(g, p)
    /\ IsIn(q, p) /\ IsPrefix(g, p) => Below(g, q)
    /\ IsBeside(q, p) /\ Below(g, p) => Below(g, q)
<1> TAKE g, p, q \in Paths
<1>1. Len(g) \in Nat /\ Len(p) \in Nat /\ Len(q) \in Nat
  BY PathIsSeq
<1>2. IsPrefix(g, g)
  BY <1>1, PrefixFacts
<1>3. ASSUME IsIn(q, p), IsPrefix(g, p) PROVE Below(g, q)
  <2>1. Len(p) = Len(q) - 1 /\ \A k \in 1..Len(p) : p[k] = q[k]
    BY <1>3, ParentFacts DEF IsIn
  <2>2. Len(g) <= Len(p) /\ \A k \in 1..Len(g) : g[k] = p[k]
    BY <1>3, PrefixFacts
  <2>3. Len(g) < Len(q) /\ \A k \in 1..Len(g) : g[k] = q[k]
    BY <1>1, <2>1, <2>2
  <2> QED
    BY <1>1, <2>3, PrefixFacts DEF Below
<1>4. ASSUME IsBeside(q, p), Below(g, p) PROVE Below(g, q)
  <2>1. /\ Len(q) = Len(p)
        /\ \A k \in 1..Len(p) - 1 : ParentOf(p)[k] = p[k] /\ ParentOf(p)[k] = q[k]
    BY <1>1, <1>4, ParentFacts DEF IsBeside
  <2>2. Len(g) < Len(p) /\ \A k \in 1..Len(g) : g[k] = p[k]
    BY <1>4, PrefixFacts DEF Below
  <2>3. Len(g) < Len(q) /\ \A k \in 1..Len(g) : g[k] = q[k]
    BY <1>1, <2>1, <2>2
  <2> QED
    BY <1>1, <2>3, PrefixFacts DEF Below
<1> QED
  BY <1>2, <1>3, <1>4 DEF Below

\* The links of a new watcher are those of its path if those of the stack stand as they
\* should to it.
LEMMA InsertPaths ==
  ASSUME LinkInv, LinksOfPaths,
         NEW p \in Paths, NEW d \in Inodes, NEW l \in 0..MaxDepth, Insert(p, d, l),
         \A m \in 1..Len(stack) :
           /\ heap[stack[m]].level > l => IsIn(heap[stack[m]].path, p)
           /\ heap[stack[m]].level = l => IsBeside(heap[stack[m]].path, p)
  PROVE  LinksOfPaths'
<1> DEFINE w == Len(heap) + 1
<1>1. PICK k \in 0..Len(stack) :
        LET popped == {stack[m] : m \in k + 1..Len(stack)}
        IN /\ Inserted(p, d, l, k)
           /\ popped \subseteq live
           /\ heap'[w].path = p
           /\ heap'[w].child # Nil =>
                heap'[w].child \in popped /\ heap[heap'[w].child].level > l
           /\ heap'[w].sibling # Nil =>
                heap'[w].sibling \in popped /\ heap[heap'[w].sibling].level = l
           /\ \A c \in 1..Len(heap) :
                /\ heap'[c].path = heap[c].path
                /\ heap'[c].child = heap[c].child /\ heap'[c].sibling = heap[c].sibling
  BY InsertLeads DEF LinkInv
<1> DEFINE popped == {stack[m] : m \in k + 1..Len(stack)}
<1>2. /\ Len(heap) \in Nat /\ live \subseteq 1..Len(heap) /\ w \notin live /\ Nil \notin live
      /\ w # Nil /\ live' = live \cup {w}
  BY <1>1, CellTypes DEF LinkInv, Nil, Inserted
<1>3. \A c \in live : heap[c].child \in live \cup {Nil} /\ heap[c].sibling \in live \cup {Nil}
  BY DEF LinkInv, Chained, NoneLeadsToFreed
<1>4. \A e \in popped : e \in live /\ \E m \in 1..Len(stack) : e = stack[m]
  BY <1>1
<1>5. \A e \in live' : heap'[w].child = e => e \in live /\ IsIn(heap[e].path, p)
  BY <1>1, <1>2, <1>4, SMTT(30)
<1>6. \A e \in live' : heap'[w].sibling = e => e \in live /\ IsBeside(heap[e].path, p)
  BY <1>1, <1>2, <1>4, SMTT(30)
<1>7. /\ heap'[w].path = p
      /\ \A c \in live : /\ heap'[c].path = heap[c].path
                         /\ heap'[c].child = heap[c].child /\ heap'[c].sibling = heap[c].sibling
                         /\ heap'[c].child # w /\ heap'[c].sibling # w
  BY <1>1, <1>2, <1>3
<1> HIDE DEF w, popped
<1>8. \A c, e \in live' :
        /\ heap'[c].child = e => IsIn(heap'[e].path, heap'[c].path)
        /\ heap'[c].sibling = e => IsBeside(heap'[e].path, heap'[c].path)
  <2> TAKE c, e \in live'
  <2>1. CASE c = w
    BY <1>5, <1>6, <1>7, <2>1
  <2>2. CASE c \in live
    <3>1. CASE e = w
      BY <1>7, <2>2, <3>1
    <3>2. CASE e \in live
      BY <1>7, <2>2, <3>2 DEF LinksOfPaths
    <3> QED
      BY <1>2, <3>1, <3>2
  <2> QED
    BY <1>2, <2>1, <2>2
<1> QED
  BY <1>8 DEF LinksOfPaths

\* What is on the stack afterwards: the new watcher, and those of lower levels.
LEMMA InsertStack ==
  ASSUME LinkInv, NEW p \in Paths, NEW d \in Inodes, NEW l \in 0..MaxDepth, Insert(p, d, l)
  PROVE  \A m \in 1..Len(stack') :
           \/ /\ heap'[stack'[m]].path = p /\ heap'[stack'[m]].level = l
              /\ \/ heap'[stack'[m]].sibling = Nil
                 \/ \E j \in 1..Len(stack) : heap[stack[j]].level = l
           \/ \E j \in 1..Len(stack) :
                /\ heap[stack[j]].level < l
                /\ heap'[stack'[m]].path = heap[stack[j]].path
                /\ heap'[stack'[m]].level = heap[stack[j]].level
                /\ heap'[stack'[m]].sibling = heap[stack[j]].sibling
<1> DEFINE w == Len(heap) + 1
<1>1. PICK k \in 0..Len(stack) :
        LET popped == {stack[m] : m \in k + 1..Len(stack)}
        IN /\ Inserted(p, d, l, k)
           /\ heap'[w].path = p /\ heap'[w].level = l
           /\ heap'[w].sibling # Nil =>
                heap'[w].sibling \in popped /\ heap[heap'[w].sibling].level = l
           /\ \A c \in 1..Len(heap) :
                /\ heap'[c].path = heap[c].path /\ heap'[c].level = heap[c].level
                /\ heap'[c].sibling = heap[c].sibling
  BY InsertLeads DEF LinkInv
<1>2. /\ Len(stack') = k + 1 /\ stack'[k + 1] = w /\ \A m \in 1..k : stack'[m] = stack[m]
      /\ k > 0 => heap[stack[k]].level < l
  BY <1>1 DEF Inserted
<1>3. /\ Len(stack) \in Nat /\ DOMAIN stack = 1..Len(stack) /\ l \in Nat
      /\ \A m \in 1..Len(stack) : stack[m] \in 1..Len(heap) /\ heap[stack[m]].level \in Nat
  BY CellTypes, BoundsAssumption DEF LinkInv
<1>4. heap'[w].sibling # Nil => \E j \in 1..Len(stack) : heap[stack[j]].level = l
  <2> HAVE heap'[w].sibling # Nil
  <2>1. PICK m \in k + 1..Len(stack) : heap'[w].sibling = stack[m]
    BY <1>1
  <2>2. m \in 1..Len(stack) /\ heap[stack[m]].level = l
    BY <1>1, <1>3, <2>1
  <2> QED
    BY <2>2
<1>5. \A m \in 1..k : m \in 1..Len(stack) /\ heap[stack[m]].level < l
  <2> TAKE m \in 1..k
  <2>1. m \in 1..Len(stack) /\ k \in 1..Len(stack) /\ (m = k \/ m < k)
    BY <1>3
  <2>2. m < k => heap[stack[m]].level < heap[stack[k]].level
    BY <1>3, <2>1 DEF LinkInv, StackRising
  <2>3. heap[stack[m]].level \in Nat /\ heap[stack[k]].level \in Nat /\ heap[stack[k]].level < l
    BY <1>2, <1>3, <2>1, SMTT(30)
  <2> QED
    BY <1>3, <2>1, <2>2, <2>3
<1> HIDE DEF w
<1> TAKE m \in 1..Len(stack')
<1>6. m = k + 1 \/ m \in 1..k
  BY <1>2, <1>3
<1>7. CASE m = k + 1
  BY <1>1, <1>2, <1>4, <1>7
<1>8. CASE m \in 1..k
  <2>1. m \in 1..Len(stack) /\ heap[stack[m]].level < l /\ stack'[m] = stack[m]
    BY <1>2, <1>5, <1>8
  <2>2. stack[m] \in 1..Len(heap)
    BY <1>3, <2>1
  <2>3. /\ heap'[stack'[m]].path = heap[stack[m]].path
        /\ heap'[stack'[m]].level = heap[stack[m]].level
        /\ heap'[stack'[m]].sibling = heap[stack[m]].sibling
    BY <1>1, <2>1, <2>2
  <2> QED
    BY <2>1, <2>3
<1> QED
  BY <1>6, <1>7, <1>8

PathInv == LinkInv /\ LinksOfPaths /\ ScanOfPaths

LEMMA InitPaths == Init => PathInv
<1> SUFFICES ASSUME Init PROVE PathInv
  OBVIOUS
<1>1. live = {} /\ stack = <<>> /\ root = Nil /\ \E f \in Opened(Root) : frames = <<f>>
  BY DEF Init
<1>2. LinksOfPaths
  BY <1>1 DEF LinksOfPaths
<1>3. Len(frames) = 1 /\ frames[1].path = Root
  BY <1>1 DEF Opened, Listed, Shut
<1>4. Base(frames[1].path)
  BY <1>1, <1>3 DEF Base
<1>5. ScanOfPaths
  BY <1>1, <1>3, <1>4 DEF ScanOfPaths
<1> QED
  BY <1>2, <1>5, InitLinks DEF PathInv

\* No watcher on the stack is of level 0 while nftw() is in a directory.
LEMMA StandingFacts ==
  ASSUME PathInv, pc = "scan", frames # <<>>
  PROVE  /\ Base(frames[1].path)
         /\ \A k \in 1..Len(frames) - 1 : IsIn(frames[k + 1].path, frames[k].path)
         /\ \A m \in 1..Len(stack) :
              /\ heap[stack[m]].level \in 1..Len(frames)
              /\ IsIn(heap[stack[m]].path, frames[heap[stack[m]].level].path)
<1>1. \A m \in 1..Len(stack) : heap[stack[m]].level \in Nat
  BY CellTypes DEF PathInv, LinkInv
<1>2. \A m \in 1..Len(stack) : Standing(heap[stack[m]])
  BY DEF PathInv, ScanOfPaths
<1>3. Len(frames) \in Nat
  BY TopFacts DEF PathInv, LinkInv
<1>4. /\ Base(frames[1].path)
      /\ \A k \in 1..Len(frames) - 1 : IsIn(frames[k + 1].path, frames[k].path)
  BY DEF PathInv, ScanOfPaths
<1>5. \A m \in 1..Len(stack) :
        /\ heap[stack[m]].level \in 1..Len(frames)
        /\ IsIn(heap[stack[m]].path, frames[heap[stack[m]].level].path)
  BY <1>1, <1>2, <1>3 DEF Standing
<1> QED
  BY <1>4, <1>5

\* No directory is hidden, the monitored one neither.
AllShown == HiddenNames = {} /\ ~BaseHidden

LEMMA NoneHidden ==
  ASSUME AllShown
  PROVE  \A p : ~Filtered(p)
BY DEF Filtered, AllShown

\* A step that moves no watcher and leaves the directories nftw() is in.
LEMMA SamePaths ==
  ASSUME PathInv, UNCHANGED <<heap, live>>,
         pc' = "scan" => pc = "scan" /\ SamePlaces /\ UNCHANGED <<stack, root, viewer>>
  PROVE  LinksOfPaths' /\ ScanOfPaths'
<1>1. LinksOfPaths'
  BY DEF PathInv, LinksOfPaths
<1>2. ScanOfPaths'
  <2> SUFFICES ASSUME pc' = "scan" PROVE ScanOfPaths'
    BY DEF ScanOfPaths
  <2>1. /\ pc = "scan" /\ SamePlaces /\ UNCHANGED <<heap, stack, root, viewer>>
        /\ Types /\ ScanOfPaths
    BY DEF PathInv, LinkInv
  <2>2. frames \in Seq(Frames) /\ Len(frames) \in Nat
    BY <2>1, TypesParts DEF Walking
  <2>3. frames # <<>> => 1 \in 1..Len(frames)
    BY <2>2, EmptySeq
  <2>4. frames' # <<>> => Base(frames[1].path)'
    BY <2>1, <2>3 DEF SamePlaces, ScanOfPaths, Base
  <2>5. \A k \in 1..Len(frames') - 1 : IsIn(frames'[k + 1].path, frames'[k].path)
    <3> TAKE k \in 1..Len(frames') - 1
    <3>1. k \in 1..Len(frames) /\ k + 1 \in 1..Len(frames) /\ k \in 1..Len(frames) - 1
      BY <2>1, <2>2 DEF SamePlaces
    <3> QED
      BY <2>1, <3>1 DEF SamePlaces, ScanOfPaths
  <2>6. \A m \in 1..Len(stack) : Standing(heap[stack[m]])'
    <3> TAKE m \in 1..Len(stack)
    <3>1. heap[stack[m]].level \in Nat
      BY <2>1, CellTypes
    <3>2. Standing(heap[stack[m]])
      BY <2>1 DEF ScanOfPaths
    <3>3. heap[stack[m]].level > 0 => heap[stack[m]].level \in 1..Len(frames)
      BY <2>2, <3>1, <3>2 DEF Standing
    <3> QED
      BY <2>1, <3>1, <3>2, <3>3 DEF SamePlaces, Standing, Base
  <2> QED
    BY <2>1, <2>4, <2>5, <2>6 DEF ScanOfPaths
<1> QED
  BY <1>1, <1>2

LEMMA ScanEnterPaths ==
  ASSUME PathInv, AllShown, NEW n \in Names, ScanEnter(n)
  PROVE  LinksOfPaths' /\ ScanOfPaths'
<1> DEFINE p == Append(Top.path, n)
           L == Len(frames)
<1>1. /\ pc = "scan" /\ frames # <<>> /\ UNCHANGED <<root, viewer>> /\ n \in Top.todo
      /\ Types
  BY DEF ScanEnter, PathInv, LinkInv
<1>2. /\ L \in Nat \ {0} /\ Top.path \in Paths /\ p \in Paths /\ L \in 0..MaxDepth
      /\ Top = frames[L]
  BY <1>1, TopFacts DEF Top
<1>3. p # Root /\ ParentOf(p) = Top.path
  BY <1>2, PathOfName
<1>4. /\ Base(frames[1].path)
      /\ \A k \in 1..L - 1 : IsIn(frames[k + 1].path, frames[k].path)
      /\ \A m \in 1..Len(stack) :
           /\ heap[stack[m]].level \in 1..L
           /\ IsIn(heap[stack[m]].path, frames[heap[stack[m]].level].path)
  BY <1>1, StandingFacts
<1>5. /\ NameTaken(n) \in Seq(Frames) /\ Len(NameTaken(n)) = L
      /\ \A k \in 1..L : NameTaken(n)[k].path = frames[k].path
  BY <1>1, NameTakenFacts
<1> HIDE DEF p
<1>6. CASE frames' \in {Append(NameTaken(n), f) : f \in Opened(p)} /\ UNCHANGED <<pc, treeVars>>
  <2>1. /\ Len(frames') = L + 1 /\ frames'[L + 1].path = p
        /\ \A k \in 1..L : frames'[k].path = frames[k].path
    <3>1. PICK f \in Opened(p) : frames' = Append(NameTaken(n), f)
      BY <1>6
    <3>2. f \in Frames /\ f.path = p
      BY <1>1, <1>2, OpenedFacts, TypesParts
    <3> QED
      BY <1>2, <1>5, <3>1, <3>2, AppendProperties
  <2>2. \A k \in 1..L + 1 - 1 : IsIn(frames'[k + 1].path, frames'[k].path)
    <3> TAKE k \in 1..L + 1 - 1
    <3>1. CASE k = L
      BY <1>2, <1>3, <2>1, <3>1 DEF IsIn
    <3>2. CASE k \in 1..L - 1
      <4>1. k \in 1..L /\ k + 1 \in 1..L
        BY <1>2, <3>2
      <4> QED
        BY <1>4, <2>1, <3>2, <4>1
    <3> QED
      BY <1>2, <3>1, <3>2
  <2>3. UNCHANGED <<heap, live, stack>>
    BY <1>6 DEF treeVars
  <2>4. \A m \in 1..Len(stack) : Standing(heap[stack[m]])'
    <3> TAKE m \in 1..Len(stack)
    <3> DEFINE x == heap[stack[m]]
    <3>1. x.level \in 1..L /\ IsIn(x.path, frames[x.level].path)
      BY <1>4
    <3>2. x.level <= L + 1 /\ x.level > 0 /\ frames'[x.level].path = frames[x.level].path
      BY <1>2, <2>1, <3>1
    <3> QED
      BY <2>1, <2>3, <3>1, <3>2 DEF Standing
  <2>5. Base(frames[1].path)' 
    <3>1. 1 \in 1..L
      BY <1>2
    <3> QED
      BY <1>1, <1>4, <2>1, <2>3, <3>1 DEF Base
  <2>6. LinksOfPaths'
    BY <2>3 DEF PathInv, LinksOfPaths
  <2>7. ScanOfPaths'
    BY <1>2, <2>1, <2>2, <2>3, <2>4, <2>5 DEF ScanOfPaths
  <2> QED
    BY <2>6, <2>7
<1>7. CASE frames' = NameTaken(n) /\ UNCHANGED treeVars
  <2>1. /\ Len(frames') = L /\ \A k \in 1..L : frames'[k].path = frames[k].path
    BY <1>5, <1>7
  <2>2. UNCHANGED <<heap, live, stack>>
    BY <1>7 DEF treeVars
  <2>3. \A m \in 1..Len(stack) : Standing(heap[stack[m]])'
    <3> TAKE m \in 1..Len(stack)
    <3> DEFINE x == heap[stack[m]]
    <3>1. x.level \in 1..L /\ IsIn(x.path, frames[x.level].path)
      BY <1>4
    <3>2. x.level <= L /\ x.level > 0 /\ frames'[x.level].path = frames[x.level].path
      BY <1>2, <2>1, <3>1
    <3> QED
      BY <2>1, <2>2, <3>1, <3>2 DEF Standing
  <2>4. Base(frames[1].path)' 
    <3>1. 1 \in 1..L
      BY <1>2
    <3> QED
      BY <1>1, <1>4, <2>1, <2>2, <3>1 DEF Base
  <2>5. \A k \in 1..L - 1 : IsIn(frames'[k + 1].path, frames'[k].path)
    <3> TAKE k \in 1..L - 1
    <3>1. k \in 1..L /\ k + 1 \in 1..L
      BY <1>2
    <3> QED
      BY <1>4, <2>1, <3>1
  <2>6. LinksOfPaths'
    BY <2>2 DEF PathInv, LinksOfPaths
  <2>7. ScanOfPaths'
    BY <1>2, <2>1, <2>2, <2>3, <2>4, <2>5 DEF ScanOfPaths
  <2> QED
    BY <2>6, <2>7
<1>8. CASE frames' = NameTaken(n) /\ Insert(p, None, L)
  <2>1. /\ Len(frames') = L /\ \A k \in 1..L : frames'[k].path = frames[k].path
    BY <1>5, <1>8
  <2>2. \A m \in 1..Len(stack) :
          /\ heap[stack[m]].level > L => IsIn(heap[stack[m]].path, p)
          /\ heap[stack[m]].level = L => IsBeside(heap[stack[m]].path, p)
    <3> TAKE m \in 1..Len(stack)
    <3>1. heap[stack[m]].level \in 1..L /\ IsIn(heap[stack[m]].path, frames[heap[stack[m]].level].path)
      BY <1>4
    <3> QED
      BY <1>2, <1>3, <3>1 DEF IsIn, IsBeside
  <2>3. LinksOfPaths'
    BY <1>2, <1>8, <2>2, NoneIsInode, InsertPaths DEF PathInv
  <2>4. \A m \in 1..Len(stack') : Standing(heap[stack[m]])'
    <3> TAKE m \in 1..Len(stack')
    <3> DEFINE x == heap'[stack'[m]]
    <3>1. \/ x.path = p /\ x.level = L
          \/ \E j \in 1..Len(stack) :
               /\ x.path = heap[stack[j]].path /\ x.level = heap[stack[j]].level
      BY <1>2, <1>8, NoneIsInode, InsertStack DEF PathInv
    <3>2. x.level \in 1..L /\ IsIn(x.path, frames[x.level].path)
      BY <1>2, <1>3, <1>4, <3>1, SMTT(30) DEF IsIn
    <3>3. x.level <= L /\ x.level > 0 /\ frames'[x.level].path = frames[x.level].path
      BY <1>2, <2>1, <3>2
    <3> QED
      BY <2>1, <3>2, <3>3 DEF Standing
  <2>5. Base(frames[1].path)' 
    <3>1. 1 \in 1..L
      BY <1>2
    <3>2. root # Nil => heap'[viewer].path = heap[viewer].path
      <4> HAVE root # Nil
      <4>1. viewer \in 1..Len(heap)
        BY <1>1, CellTypes DEF Types, Attached
      <4> QED
        BY <1>1, <1>2, <1>8, <4>1, NoneIsInode, InsertLeads
    <3> QED
      BY <1>1, <1>4, <2>1, <3>1, <3>2 DEF Base
  <2>6. \A k \in 1..L - 1 : IsIn(frames'[k + 1].path, frames'[k].path)
    <3> TAKE k \in 1..L - 1
    <3>1. k \in 1..L /\ k + 1 \in 1..L
      BY <1>2
    <3> QED
      BY <1>4, <2>1, <3>1
  <2>7. ScanOfPaths'
    BY <1>2, <2>1, <2>4, <2>5, <2>6 DEF ScanOfPaths
  <2> QED
    BY <2>3, <2>7
<1>9. CASE pc' = "failed" /\ UNCHANGED treeVars
  <2>1. UNCHANGED <<heap, live>> /\ pc' # "scan"
    BY <1>9 DEF treeVars
  <2> QED
    BY <2>1, SamePaths
<1> QED
  BY <1>6, <1>7, <1>8, <1>9 DEF ScanEnter, NameTaken, Die, p

LEMMA ScanLeavePaths ==
  ASSUME PathInv, AllShown, ScanLeave
  PROVE  LinksOfPaths' /\ ScanOfPaths'
<1> DEFINE p == Top.path
           L == Len(frames)
<1> PICK d \in AddWatch(Top) : Insert(p, d, L - 1)
  BY NoneHidden DEF ScanLeave
<1>1. /\ pc = "scan" /\ frames # <<>> /\ UNCHANGED <<pc, root, viewer>> /\ Types
      /\ frames' = SubSeq(frames, 1, L - 1) /\ Insert(p, d, L - 1)
  BY DEF ScanLeave, PathInv, LinkInv
<1>2. /\ L \in Nat \ {0} /\ p \in Paths /\ L - 1 \in 0..MaxDepth /\ L - 1 \in Nat
      /\ p = frames[L].path /\ d \in Inodes /\ Len(p) \in Nat
  <2>1. L \in Nat \ {0} /\ p \in Paths /\ L - 1 \in 0..MaxDepth /\ p = frames[L].path
        /\ Len(p) \in Nat
    BY <1>1, TopFacts DEF Top
  <2>2. d \in Inodes
    BY <1>1, TopFacts, AddWatchFacts, TypesParts
  <2> QED
    BY <2>1, <2>2
<1>3. /\ Base(frames[1].path)
      /\ \A k \in 1..L - 1 : IsIn(frames[k + 1].path, frames[k].path)
      /\ \A m \in 1..Len(stack) :
           /\ heap[stack[m]].level \in 1..L
           /\ IsIn(heap[stack[m]].path, frames[heap[stack[m]].level].path)
  BY <1>1, StandingFacts
<1> HIDE DEF p
<1>4. PICK r \in Nat : r = L - 1
  BY <1>2
<1>5. Len(frames') = r /\ \A k \in 1..r : frames'[k] = frames[k]
  <2>1. frames \in Seq(Frames)
    BY <1>1, TypesParts DEF Walking
  <2>2. \A k \in 1..r : frames[k] \in Frames
    BY <1>2, <1>4, <2>1, ElementOfSeq
  <2> QED
    BY <1>1, <1>4, <2>2, SubSeqProperties
<1>6. r > 0 => IsIn(p, frames[r].path)
  BY <1>2, <1>3, <1>4
<1>7. r = 0 => Base(p)
  <2>1. r = 0 => L = 1
    BY <1>2, <1>4
  <2>2. r = 0 => p = frames[1].path
    BY <1>2, <2>1
  <2> QED
    BY <1>3, <2>2 DEF Base
<1>8. \A m \in 1..Len(stack) :
        /\ heap[stack[m]].level > r => IsIn(heap[stack[m]].path, p)
        /\ heap[stack[m]].level = r => r > 0 /\ IsBeside(heap[stack[m]].path, p)
  <2> TAKE m \in 1..Len(stack)
  <2> DEFINE x == heap[stack[m]]
  <2>1. x.level \in 1..L /\ IsIn(x.path, frames[x.level].path)
    BY <1>3
  <2>2. x.level > r => x.level = L
    BY <1>2, <1>4, <2>1
  <2>3. x.level = r => r > 0
    BY <1>4, <2>1
  <2> QED
    BY <1>2, <1>6, <2>1, <2>2, <2>3 DEF IsIn, IsBeside
<1>9. LinksOfPaths'
  <2>1. Insert(p, d, r) /\ r \in 0..MaxDepth
    BY <1>1, <1>2, <1>4
  <2> QED
    BY <1>2, <1>8, <2>1, InsertPaths DEF PathInv
<1>10. \A q : (root' = Nil => q = Root) /\ (root' # Nil => IsIn(q, heap'[viewer'].path)) <=> Base(q)
  <2>1. root # Nil => heap'[viewer].path = heap[viewer].path
    <3> HAVE root # Nil
    <3>1. viewer \in 1..Len(heap)
      BY <1>1, CellTypes DEF Types, Attached
    <3> QED
      BY <1>1, <1>2, <3>1, InsertLeads
  <2> QED
    BY <1>1, <2>1 DEF Base
<1>11. \A m \in 1..Len(stack') : Standing(heap[stack[m]])'
  <2> TAKE m \in 1..Len(stack')
  <2> DEFINE x == heap'[stack'[m]]
  <2>1. \/ /\ x.path = p /\ x.level = r
           /\ x.sibling = Nil \/ \E j \in 1..Len(stack) : heap[stack[j]].level = r
        \/ \E j \in 1..Len(stack) :
             /\ heap[stack[j]].level < r
             /\ x.path = heap[stack[j]].path /\ x.level = heap[stack[j]].level
    <3>1. Insert(p, d, r) /\ r \in 0..MaxDepth
      BY <1>1, <1>2, <1>4
    <3> QED
      BY <1>2, <3>1, InsertStack DEF PathInv
  <2> HIDE DEF x
  <2>2. CASE /\ x.path = p /\ x.level = r
             /\ x.sibling = Nil \/ \E j \in 1..Len(stack) : heap[stack[j]].level = r
    <3>1. r > 0 => IsIn(x.path, frames'[r].path)
      BY <1>4, <1>5, <1>6, <2>2
    <3>2. r = 0 => x.sibling = Nil
      BY <1>8, <2>2
    <3>3. r = 0 => frames' = <<>>
      <4>1. frames' \in Seq(Frames)
        BY <1>1, TypesParts, ScanLeaveTypes DEF Walking
      <4> QED
        BY <1>5, <4>1, EmptySeq
    <3>4. r = 0 => Base(x.path)
      BY <1>7, <2>2
    <3> QED
      BY <1>5, <1>10, <2>2, <3>1, <3>2, <3>3, <3>4 DEF Standing, Base, x
  <2>3. CASE \E j \in 1..Len(stack) :
               /\ heap[stack[j]].level < r
               /\ x.path = heap[stack[j]].path /\ x.level = heap[stack[j]].level
    <3>1. x.level \in 1..r /\ IsIn(x.path, frames[x.level].path)
      BY <1>2, <1>3, <1>4, <2>3
    <3>2. frames'[x.level].path = frames[x.level].path /\ x.level <= r /\ x.level > 0
      BY <1>4, <1>5, <3>1, SMTT(30)
    <3> QED
      BY <1>5, <3>1, <3>2 DEF Standing, x
  <2> QED
    BY <2>1, <2>2, <2>3
<1>12. \A k \in 1..r - 1 : IsIn(frames'[k + 1].path, frames'[k].path)
  <2> TAKE k \in 1..r - 1
  <2>1. k \in 1..r /\ k + 1 \in 1..r /\ k \in 1..L - 1
    BY <1>4
  <2> QED
    BY <1>3, <1>5, <2>1
<1>13. frames' # <<>> => Base(frames[1].path)'
  <2> HAVE frames' # <<>>
  <2>1. frames' \in Seq(Frames)
    BY <1>1, TypesParts, ScanLeaveTypes DEF Walking
  <2>2. 1 \in 1..r
    BY <1>4, <1>5, <2>1, EmptySeq
  <2>3. Base(frames'[1].path)
    BY <1>3, <1>5, <2>2
  <2> QED
    BY <1>10, <2>3 DEF Base
<1>14. ScanOfPaths'
  BY <1>5, <1>11, <1>12, <1>13 DEF ScanOfPaths
<1> QED
  BY <1>9, <1>14

LEMMA ScanDonePaths ==
  ASSUME PathInv, ScanDone
  PROVE  LinksOfPaths' /\ ScanOfPaths'
<1>1. /\ pc = "scan" /\ pc' # "scan" /\ UNCHANGED live /\ frames = <<>> /\ Types
  BY DEF ScanDone, Die, PathInv, LinkInv
<1>2. ScanOfPaths'
  BY <1>1 DEF ScanOfPaths
<1>3. CASE UNCHANGED heap
  BY <1>1, <1>2, <1>3, SamePaths
<1>4. CASE Len(stack) = 1 /\ root # Nil /\ heap' = LinkChild(heap, viewer, stack[1])
  <2> DEFINE v == viewer
             w == stack[1]
  <2>1. v \in live /\ w \in live /\ 1 \in 1..Len(stack) /\ live \subseteq 1..Len(heap)
    BY <1>1, <1>4, CellTypes DEF Types, Attached
  <2>2. PICK n \in Nat : v <= n /\ Apart(n)
    BY <1>1, <1>4 DEF PathInv, LinkInv, ViewerOff
  <2>3. w > n /\ \A c \in live : ~Leads(heap, c, w)
    BY <2>1, <2>2 DEF Apart, PathInv, LinkInv, StackFree
  <2>4. w # v
    BY <1>1, <2>1, <2>2, <2>3, CellTypes
  <2>5. IsIn(heap[w].path, heap[v].path)
    <3>1. Standing(heap[w])
      BY <1>1, <2>1 DEF PathInv, ScanOfPaths
    <3>2. heap[w].level = 0
      <4>1. heap[w].level \in Nat
        BY <1>1, <2>1, CellTypes
      <4>2. Len(frames) = 0
        BY <1>1
      <4> QED
        BY <3>1, <4>1, <4>2 DEF Standing
    <3> QED
      BY <1>4, <3>1, <3>2 DEF Standing, Base
  <2> DEFINE first == heap[v].child
  <2>6. \A c \in 1..Len(heap) :
          /\ heap'[c].path = heap[c].path
          /\ heap'[c].child = IF c = v THEN w ELSE heap[c].child
          /\ heap'[c].sibling = IF c = w THEN first ELSE heap[c].sibling
    BY <1>4, <2>1, <2>3, <2>4, LinkChildFacts DEF PathInv
  <2> HIDE DEF v, w
  <2>7. \A c, d \in live :
          /\ heap'[c].child = d => IsIn(heap'[d].path, heap'[c].path)
          /\ heap'[c].sibling = d => IsBeside(heap'[d].path, heap'[c].path)
    <3> TAKE c, d \in live
    <3>1. /\ heap[c].child = d => IsIn(heap[d].path, heap[c].path)
          /\ heap[c].sibling = d => IsBeside(heap[d].path, heap[c].path)
          /\ heap[v].child = d => IsIn(heap[d].path, heap[v].path)
      BY <2>1 DEF PathInv, LinksOfPaths
    <3>2. heap'[c].path = heap[c].path /\ heap'[d].path = heap[d].path
      BY <2>1, <2>6
    <3>3. heap'[c].child = d => IsIn(heap[d].path, heap[c].path)
      BY <2>1, <2>5, <2>6, <3>1
    <3>4. heap'[c].sibling = d => IsBeside(heap[d].path, heap[c].path)
      BY <2>1, <2>5, <2>6, <3>1 DEF IsIn, IsBeside
    <3> QED
      BY <3>2, <3>3, <3>4
  <2>8. LinksOfPaths'
    BY <1>1, <2>7 DEF LinksOfPaths
  <2> QED
    BY <1>2, <2>8
<1> QED
  BY <1>3, <1>4 DEF ScanDone, Die

LEMMA HandleCreatePaths ==
  ASSUME PathInv, HandleCreate
  PROVE  LinksOfPaths' /\ ScanOfPaths'
<1>1. UNCHANGED <<heap, live, stack, root>> /\ pc = "handle" /\ Types
  BY DEF HandleCreate, Handling, Die, treeVars, PathInv, LinkInv
<1>2. CASE pc' # "scan"
  BY <1>1, <1>2, SamePaths
<1>3. CASE pc' = "scan"
  <2>1. /\ EvPath \in Paths /\ \E f \in Opened(EvPath) : frames' = <<f>>
        /\ viewer' = EvViewer
        /\ EvViewer # Nil
    BY <1>3 DEF HandleCreate, Die
  <2>2. EvViewer \in live /\ heap[EvViewer].path \in Paths
    BY <1>1, <2>1, SearchFinds, CellTypes DEF EvViewer
  <2>3. EvPath # Root /\ ParentOf(EvPath) = heap[EvViewer].path
    BY <2>2, PathOfName DEF EvPath
  <2>4. root # Nil /\ stack = <<>>
    BY <1>1 DEF Types, Attached
  <2>5. Len(frames') = 1 /\ frames'[1].path = EvPath
    BY <2>1 DEF Opened, Listed, Shut
  <2>6. Base(frames[1].path)'
    BY <1>1, <2>1, <2>3, <2>4, <2>5 DEF Base, IsIn
  <2>7. ScanOfPaths'
    BY <1>1, <2>4, <2>5, <2>6 DEF ScanOfPaths
  <2>8. LinksOfPaths'
    BY <1>1 DEF PathInv, LinksOfPaths
  <2> QED
    BY <2>7, <2>8
<1> QED
  BY <1>2, <1>3

LEMMA FreePaths ==
  ASSUME PathInv, NEW w \in live, heap[w].prev \in live \cup {Nil}, Free(w)
  PROVE  LinksOfPaths'
<1> DEFINE s == heap[w].sibling
<1>1. /\ live' = live \ {w} /\ live \subseteq 1..Len(heap)
      /\ \A c \in 1..Len(heap) :
           /\ heap'[c].path = heap[c].path
           /\ heap'[c].child = heap[c].child \/ (heap[c].child = w /\ heap'[c].child = s)
           /\ heap'[c].sibling = heap[c].sibling \/ (heap[c].sibling = w /\ heap'[c].sibling = s)
  BY FreeFacts, CellTypes DEF PathInv, LinkInv
<1>2. \A c, d \in live' :
        /\ heap'[c].child = d => IsIn(heap'[d].path, heap'[c].path)
        /\ heap'[c].sibling = d => IsBeside(heap'[d].path, heap'[c].path)
  <2> TAKE c, d \in live'
  <2>1. c \in live /\ d \in live /\ c \in 1..Len(heap) /\ d \in 1..Len(heap)
    BY <1>1
  <2>2. /\ heap[c].child = d => IsIn(heap[d].path, heap[c].path)
        /\ heap[c].sibling = d => IsBeside(heap[d].path, heap[c].path)
        /\ heap[c].child = w => IsIn(heap[w].path, heap[c].path)
        /\ heap[c].sibling = w => IsBeside(heap[w].path, heap[c].path)
        /\ s = d => IsBeside(heap[d].path, heap[w].path)
    BY <2>1 DEF PathInv, LinksOfPaths
  <2>3. heap'[c].path = heap[c].path /\ heap'[d].path = heap[d].path
    BY <1>1, <2>1
  <2>4. heap'[c].child = d => IsIn(heap[d].path, heap[c].path)
    BY <1>1, <2>1, <2>2 DEF IsIn, IsBeside
  <2>5. heap'[c].sibling = d => IsBeside(heap[d].path, heap[c].path)
    BY <1>1, <2>1, <2>2 DEF IsBeside
  <2> QED
    BY <2>3, <2>4, <2>5
<1> QED
  BY <1>2 DEF LinksOfPaths

LEMMA PathParts == PathInv <=> LinkInv /\ LinksOfPaths /\ ScanOfPaths
BY DEF PathInv

LEMMA StepPaths ==
  ASSUME PathInv, AllShown, [Next]_vars
  PROVE  PathInv'
<1>1. LinkInv'
  BY StepLinks DEF PathInv
<1>2. SUFFICES LinksOfPaths' /\ ScanOfPaths'
  BY <1>1, PathParts, PTL
<1>3. CASE \/ User \/ UNCHANGED vars
           \/ ReadEvents \/ WritePipe \/ ReadPipe \/ RemoveDone \/ EndBatch \/ CleanupDone
           \/ CallCleanup \/ HandleUnknown \/ PassOver \/ HandleDelete
  <2>1. /\ UNCHANGED <<heap, live>>
        /\ pc' = "scan" => pc = "scan" /\ SamePlaces /\ UNCHANGED <<stack, root, viewer>>
    <3>1. CASE User
      BY <3>1, UserLeaves, UserPlaces, TypesParts DEF PathInv, LinkInv
    <3>2. CASE UNCHANGED vars
      BY <3>2 DEF vars, treeVars, SamePlaces
    <3>3. CASE \/ ReadEvents \/ WritePipe \/ ReadPipe \/ RemoveDone \/ EndBatch \/ CleanupDone
               \/ CallCleanup
      BY <3>3 DEF ReadEvents, WritePipe, ReadPipe, RemoveDone, EndBatch, CleanupDone, CallCleanup,
                  treeVars, SamePlaces
    <3>4. CASE HandleUnknown \/ PassOver \/ HandleDelete
      BY <3>4 DEF HandleUnknown, PassOver, HandleDelete, Die, Handling, treeVars
    <3> QED
      BY <1>3, <3>1, <3>2, <3>3, <3>4
  <2> QED
    BY <2>1, SamePaths
<1>4. CASE HandleCreate
  BY <1>4, HandleCreatePaths
<1>5. CASE \E n \in Names : ScanEnter(n)
  BY <1>5, ScanEnterPaths
<1>6. CASE ScanLeave
  BY <1>6, ScanLeavePaths
<1>7. CASE ScanDone
  BY <1>7, ScanDonePaths
<1>8. CASE RemoveStep
  <2>1. pc # "scan" /\ pc' # "scan"
    BY <1>8, RemoveCases DEF RemoveCase
  <2>2. CASE UNCHANGED <<heap, live>>
    BY <2>1, <2>2, SamePaths
  <2>3. CASE \E w \in live : heap[w].prev \in live \cup {Nil} /\ Free(w)
    BY <2>1, <2>3, FreePaths DEF ScanOfPaths
  <2> QED
    BY <1>8, <2>2, <2>3, RemoveCases DEF RemoveCase
<1> QED
  BY <1>3, <1>4, <1>5, <1>6, <1>7, <1>8 DEF Next, Thread

RemovalInv == PathInv /\ RemovalOfPaths

\* A task on what is below the watcher given.
TaskBelow(h, g, t) == t.cell # Nil => t.cell \in 1..Len(h) /\ Below(h[g].path, h[t.cell].path)

LEMMA RemovalIs ==
  RemovalOfPaths <=>
    (pc = "remove" /\ work # <<>> =>
       /\ work[Len(work)].op = "free" /\ work[Len(work)].cell \in 1..Len(heap)
       /\ \A k \in 1..Len(work) - 1 : TaskBelow(heap, work[Len(work)].cell, work[k]))
BY DEF RemovalOfPaths, TaskBelow

LEMMA HandleDeleteRemoves ==
  ASSUME PathInv, HandleDelete
  PROVE  RemovalOfPaths'
<1> DEFINE w == ByPath(EvPath)
<1>1. UNCHANGED <<heap, live>> /\ (pc' # "remove" \/ (w # Nil /\ work' = Removal(w)))
  BY DEF HandleDelete, Handling, Die, treeVars
<1>2. CASE pc' # "remove"
  BY <1>2 DEF RemovalOfPaths
<1>3. CASE w # Nil /\ work' = Removal(w)
  <2>1. w \in live /\ live \subseteq 1..Len(heap) /\ \A c \in live : heap[c].path \in Paths
    BY <1>3, SearchFinds, CellTypes DEF PathInv, LinkInv
  <2> HIDE DEF w
  <2>2. work' = <<Task("post", heap[w].child), Task("free", w)>>
    BY <1>3 DEF Removal
  <2>3. Len(work') = 2 /\ work'[1] = Task("post", heap[w].child) /\ work'[2] = Task("free", w)
    BY <2>2
  <2>4. work'[2].op = "free" /\ work'[2].cell = w /\ work'[1].cell = heap[w].child
    BY <2>3 DEF Task
  <2>5. heap[w].child # Nil =>
          heap[w].child \in live /\ Below(heap[w].path, heap[heap[w].child].path)
    <3> HAVE heap[w].child # Nil
    <3>1. heap[w].child \in live
      BY <2>1 DEF PathInv, LinkInv, Chained, NoneLeadsToFreed
    <3>2. IsIn(heap[heap[w].child].path, heap[w].path)
      BY <2>1, <3>1 DEF PathInv, LinksOfPaths
    <3> QED
      BY <2>1, <3>1, <3>2, BelowFacts
  <2>6. \A k \in 1..Len(work') - 1 : TaskBelow(heap', w, work'[k])
    BY <1>1, <2>1, <2>3, <2>4, <2>5 DEF TaskBelow
  <2> QED
    BY <1>1, <2>1, <2>3, <2>4, <2>6 DEF RemovalOfPaths, TaskBelow
<1> QED
  BY <1>1, <1>2, <1>3

\* Tasks put before the rest of the recursion.
LEMMA TasksBefore ==
  \A a, b \in Seq(Tasks) :
    /\ Len(a \o b) = Len(a) + Len(b)
    /\ b # <<>> => (a \o b)[Len(a) + Len(b)] = b[Len(b)]
    /\ \A k \in 1..Len(a) + Len(b) - 1 :
         \/ \E j \in 1..Len(a) : (a \o b)[k] = a[j]
         \/ \E j \in 1..Len(b) - 1 : (a \o b)[k] = b[j]
<1> TAKE a, b \in Seq(Tasks)
<1> DEFINE r == a \o b
<1>1. /\ Len(a) \in Nat /\ Len(b) \in Nat /\ Len(r) = Len(a) + Len(b)
      /\ \A k \in 1..Len(a) + Len(b) : r[k] = IF k <= Len(a) THEN a[k] ELSE b[k - Len(a)]
  BY ConcatProperties, LenProperties
<1> HIDE DEF r
<1>2. b # <<>> => r[Len(a) + Len(b)] = b[Len(b)]
  <2> HAVE b # <<>>
  <2>1. Len(b) \in Nat \ {0}
    BY <1>1, EmptySeq
  <2>2. Len(a) + Len(b) \in 1..Len(a) + Len(b) /\ ~(Len(a) + Len(b) <= Len(a))
        /\ Len(a) + Len(b) - Len(a) = Len(b)
    BY <1>1, <2>1
  <2> QED
    BY <1>1, <2>2
<1>3. \A k \in 1..Len(a) + Len(b) - 1 :
        \/ \E j \in 1..Len(a) : r[k] = a[j]
        \/ \E j \in 1..Len(b) - 1 : r[k] = b[j]
  <2> TAKE k \in 1..Len(a) + Len(b) - 1
  <2>1. k \in 1..Len(a) + Len(b)
    BY <1>1
  <2>2. CASE k <= Len(a)
    <3>1. k \in 1..Len(a) /\ r[k] = a[k]
      BY <1>1, <2>1, <2>2
    <3> QED
      BY <3>1
  <2>3. CASE ~(k <= Len(a))
    <3>1. k - Len(a) \in 1..Len(b) - 1 /\ r[k] = b[k - Len(a)]
      BY <1>1, <2>1, <2>3
    <3> QED
      BY <3>1
  <2> QED
    BY <2>2, <2>3
<1> QED
  BY <1>1, <1>2, <1>3 DEF r

LEMMA RemoveStepRemoves ==
  ASSUME RemovalInv, RemoveStep
  PROVE  RemovalOfPaths'
<1> DEFINE t == Head(work)
           n == Len(work)
           g == work[n].cell
<1>1. work # <<>> /\ RemoveCase(t) /\ pc \in {"remove", "cleanup"} /\ Types
  BY RemoveCases DEF RemovalInv, PathInv, LinkInv
<1>2. SUFFICES ASSUME pc = "remove", pc' = "remove", work' # <<>>
               PROVE  /\ work'[Len(work')].op = "free" /\ work'[Len(work')].cell \in 1..Len(heap')
                      /\ \A k \in 1..Len(work') - 1 : TaskBelow(heap', work'[Len(work')].cell, work'[k])
  <2>1. CASE pc = "remove"
    BY <1>2, <2>1 DEF RemovalOfPaths, TaskBelow
  <2>2. CASE pc = "cleanup"
    BY <1>1, <2>2 DEF RemovalOfPaths, RemoveCase
  <2> QED
    BY <1>1, <2>1, <2>2
<1>3. /\ work \in Seq(Tasks) /\ n \in Nat \ {0} /\ t = work[1]
      /\ Tail(work) \in Seq(Tasks) /\ Len(Tail(work)) = n - 1
      /\ \A k \in 1..n - 1 : Tail(work)[k] = work[k + 1]
  BY <1>1, HeadTailProperties, EmptySeq DEF Types
<1>4. /\ work[n].op = "free" /\ g \in 1..Len(heap)
      /\ \A k \in 1..n - 1 : TaskBelow(heap, g, work[k])
  BY <1>1, <1>2 DEF RemovalInv, RemovalOfPaths, TaskBelow
<1> HIDE DEF t, g
<1>5. /\ Len(heap') = Len(heap)
      /\ \A c \in 1..Len(heap) : heap'[c].path = heap[c].path
      /\ \A x : TaskBelow(heap, g, x) => TaskBelow(heap', g, x)
  <2>1. CASE UNCHANGED heap
    BY <2>1
  <2>2. CASE t.cell \in live /\ heap[t.cell].prev \in live \cup {Nil} /\ Free(t.cell)
    <3>1. Len(heap') = Len(heap) /\ \A c \in 1..Len(heap) : heap'[c].path = heap[c].path
      BY <1>1, <2>2, FreeFacts
    <3> QED
      BY <1>4, <3>1 DEF TaskBelow
  <2> QED
    BY <1>1, <2>1, <2>2 DEF RemoveCase
\* What is left of the recursion after the task at hand.
<1>6. Tail(work) # <<>> =>
        /\ n - 1 \in Nat \ {0} /\ Tail(work)[n - 1] = work[n]
        /\ \A k \in 1..n - 2 : TaskBelow(heap, g, Tail(work)[k])
  <2> HAVE Tail(work) # <<>>
  <2>1. n - 1 \in Nat \ {0} /\ n - 1 \in 1..n - 1 /\ (n - 1) + 1 = n
    BY <1>3, EmptySeq
  <2>2. Tail(work)[n - 1] = work[n]
    BY <1>3, <2>1
  <2>3. \A k \in 1..n - 2 : TaskBelow(heap, g, Tail(work)[k])
    <3> TAKE k \in 1..n - 2
    <3>1. k \in 1..n - 1 /\ k + 1 \in 1..n - 1
      BY <1>3
    <3> QED
      BY <1>3, <1>4, <3>1
  <2> QED
    BY <2>1, <2>2, <2>3
<1>7. CASE work' = Tail(work)
  <2>1. Len(work') = n - 1 /\ Len(work') - 1 = n - 2
    BY <1>3, <1>7
  <2> QED
    BY <1>2, <1>4, <1>5, <1>6, <1>7, <2>1 DEF g
<1>8. ASSUME NEW new \in Seq(Tasks), work' = new \o Tail(work), UNCHANGED heap,
             t.op # "free", TaskBelow(heap, g, t) => \A k \in 1..Len(new) : TaskBelow(heap, g, new[k])
      PROVE  /\ work'[Len(work')].op = "free" /\ work'[Len(work')].cell \in 1..Len(heap')
             /\ \A k \in 1..Len(work') - 1 : TaskBelow(heap', work'[Len(work')].cell, work'[k])
  <2>1. n # 1
    BY <1>3, <1>4, <1>8
  <2>2. TaskBelow(heap, g, t) /\ Tail(work) # <<>>
    <3>1. 1 \in 1..n - 1 /\ Len(Tail(work)) # 0
      BY <1>3, <2>1
    <3> QED
      BY <1>3, <1>4, <3>1, EmptySeq
  <2> DEFINE rest == Tail(work)
             a == Len(new)
             b == Len(rest)
  <2>3. /\ Len(work') = a + b
        /\ work'[a + b] = rest[b]
        /\ \A k \in 1..a + b - 1 :
             \/ \E j \in 1..a : work'[k] = new[j]
             \/ \E j \in 1..b - 1 : work'[k] = rest[j]
    BY <1>3, <1>8, <2>2, TasksBefore, ZenonT(60)
  <2>4. b = n - 1 /\ b - 1 = n - 2 /\ rest[b] = work[n]
    BY <1>3, <1>6, <2>2
  <2>5. /\ \A j \in 1..a : TaskBelow(heap, g, new[j])
        /\ \A j \in 1..b - 1 : TaskBelow(heap, g, rest[j])
    BY <1>6, <1>8, <2>2, <2>4
  <2> HIDE DEF rest, a, b
  <2>6. \A k \in 1..a + b - 1 : TaskBelow(heap, g, work'[k])
    <3> TAKE k \in 1..a + b - 1
    <3>1. CASE \E j \in 1..a : work'[k] = new[j]
      BY <2>5, <3>1
    <3>2. CASE \E j \in 1..b - 1 : work'[k] = rest[j]
      BY <2>5, <3>2
    <3> QED
      BY <2>3, <3>1, <3>2
  <2>7. work'[Len(work')] = work[n] /\ Len(work') - 1 = a + b - 1 /\ work[n].cell = g
    <3>1. a \in Nat /\ b \in Nat
      BY <1>3, <2>4, LenProperties DEF a
    <3> QED
      BY <2>3, <2>4, <3>1 DEF g
  <2>8. \A k \in 1..a + b - 1 : TaskBelow(heap', g, work'[k])
    BY <1>5, <2>6
  <2> HIDE DEF n
  <2> QED
    BY <1>4, <1>5, <2>7, <2>8
<1>9. CASE /\ t.cell \in live /\ t.op = "post" /\ UNCHANGED <<heap, live>>
           /\ work' = <<Task("post", heap[t.cell].child), Task("next", t.cell), Task("free", t.cell)>>
                      \o Tail(work)
  <2> DEFINE new == <<Task("post", heap[t.cell].child), Task("next", t.cell), Task("free", t.cell)>>
  <2>1. t.cell \in 1..Len(heap) /\ heap[t.cell].child \in Nat /\ t.cell \in Nat
    BY <1>1, <1>9, CellTypes
  <2>2. Len(new) = 3 /\ new[1].cell = heap[t.cell].child /\ new[2].cell = t.cell /\ new[3].cell = t.cell
    BY DEF Task
  <2>3. new \in Seq(Tasks)
    BY <2>1 DEF Task, Tasks
  <2>4. TaskBelow(heap, g, t) => \A k \in 1..Len(new) : TaskBelow(heap, g, new[k])
    <3> HAVE TaskBelow(heap, g, t)
    <3>1. Below(heap[g].path, heap[t.cell].path)
      BY <1>1, <1>9, CellTypes DEF TaskBelow, Nil
    <3>2. heap[t.cell].child # Nil =>
            /\ heap[t.cell].child \in 1..Len(heap)
            /\ Below(heap[g].path, heap[heap[t.cell].child].path)
      <4> HAVE heap[t.cell].child # Nil
      <4>1. heap[t.cell].child \in live
        BY <1>9 DEF RemovalInv, PathInv, LinkInv, Chained, NoneLeadsToFreed
      <4>2. IsIn(heap[heap[t.cell].child].path, heap[t.cell].path)
        BY <1>9, <4>1 DEF RemovalInv, PathInv, LinksOfPaths
      <4>3. heap[t.cell].child \in 1..Len(heap) /\ \A c \in 1..Len(heap) : heap[c].path \in Paths
        BY <1>1, <4>1, CellTypes
      <4>4. IsPrefix(heap[g].path, heap[t.cell].path)
        BY <3>1 DEF Below
      <4> QED
        BY <1>4, <2>1, <4>2, <4>3, <4>4, BelowFacts
    <3> QED
      BY <2>1, <2>2, <3>1, <3>2 DEF TaskBelow
  <2> HIDE DEF new
  <2> QED
    BY <1>8, <1>9, <2>3, <2>4 DEF new
<1>10. CASE /\ t.cell \in live /\ t.op = "next" /\ UNCHANGED <<heap, live>>
            /\ work' = <<Task("post", heap[t.cell].sibling)>> \o Tail(work)
  <2> DEFINE new == <<Task("post", heap[t.cell].sibling)>>
  <2>1. t.cell \in 1..Len(heap) /\ heap[t.cell].sibling \in Nat
    BY <1>1, <1>10, CellTypes
  <2>2. Len(new) = 1 /\ new[1].cell = heap[t.cell].sibling
    BY DEF Task
  <2>3. new \in Seq(Tasks)
    BY <2>1 DEF Task, Tasks
  <2>4. TaskBelow(heap, g, t) => \A k \in 1..Len(new) : TaskBelow(heap, g, new[k])
    <3> HAVE TaskBelow(heap, g, t)
    <3>1. Below(heap[g].path, heap[t.cell].path)
      BY <1>1, <1>10, CellTypes DEF TaskBelow, Nil
    <3>2. heap[t.cell].sibling # Nil =>
            /\ heap[t.cell].sibling \in 1..Len(heap)
            /\ Below(heap[g].path, heap[heap[t.cell].sibling].path)
      <4> HAVE heap[t.cell].sibling # Nil
      <4>1. heap[t.cell].sibling \in live
        BY <1>10 DEF RemovalInv, PathInv, LinkInv, Chained, NoneLeadsToFreed
      <4>2. IsBeside(heap[heap[t.cell].sibling].path, heap[t.cell].path)
        BY <1>10, <4>1 DEF RemovalInv, PathInv, LinksOfPaths
      <4>3. heap[t.cell].sibling \in 1..Len(heap) /\ \A c \in 1..Len(heap) : heap[c].path \in Paths
        BY <1>1, <4>1, CellTypes
      <4> QED
        BY <1>4, <2>1, <3>1, <4>2, <4>3, BelowFacts
    <3> QED
      BY <2>2, <3>2 DEF TaskBelow
  <2> HIDE DEF new
  <2> QED
    BY <1>8, <1>10, <2>3, <2>4 DEF new
<1> QED
  BY <1>1, <1>2, <1>7, <1>9, <1>10 DEF RemoveCase

LEMMA StepRemoves ==
  ASSUME RemovalInv, AllShown, [Next]_vars
  PROVE  RemovalInv'
<1>1. PathInv'
  BY StepPaths DEF RemovalInv
<1>2. SUFFICES RemovalOfPaths'
  <2>1. (RemovalInv <=> PathInv /\ RemovalOfPaths)'
    BY DEF RemovalInv
  <2> QED
    BY <1>1, <2>1
<1>3. CASE HandleDelete
  BY <1>3, HandleDeleteRemoves DEF RemovalInv
<1>4. CASE RemoveStep
  BY <1>4, RemoveStepRemoves
<1>5. CASE User \/ UNCHANGED vars \/ WritePipe \/ ReadPipe
  <2>1. UNCHANGED <<pc, work, heap>> \/ pc' # "remove"
    BY <1>5, UserLeaves DEF vars, WritePipe, ReadPipe, treeVars
  <2> QED
    BY <2>1 DEF RemovalInv, RemovalOfPaths
<1>6. CASE \/ ReadEvents \/ RemoveDone \/ EndBatch \/ CleanupDone \/ CallCleanup \/ HandleUnknown
           \/ HandleCreate \/ ScanLeave \/ ScanDone \/ \E n \in Names : ScanEnter(n)
  <2>1. pc' # "remove"
    BY <1>6 DEF ReadEvents, RemoveDone, EndBatch, CleanupDone, CallCleanup, HandleUnknown,
                HandleCreate, Handling, ScanLeave, ScanDone, ScanEnter, Die
  <2> QED
    BY <2>1 DEF RemovalOfPaths
<1>7. CASE PassOver
  <2>1. pc' # "remove"
    BY <1>7 DEF PassOver, Handling
  <2> QED
    BY <2>1 DEF RemovalOfPaths
<1> QED
  BY <1>3, <1>4, <1>5, <1>6, <1>7 DEF Next, Thread

\* wrap-inotify.h:37 for any tree and any changes of it, as long as no directory is
\* hidden: with the siblings a hidden directory leaves behind it does not hold.
THEOREM RemovalsAreOwn ==
  ASSUME AllShown
  PROVE  Spec => []RemovesOwnOnly
<1>1. Init => RemovalInv
  <2>1. Init => RemovalOfPaths
    BY DEF Init, RemovalOfPaths
  <2> QED
    BY <2>1, InitPaths DEF RemovalInv
<1>2. RemovalInv /\ [Next]_vars => RemovalInv'
  BY StepRemoves
<1>3. RemovalInv => RemovesOwnOnly
  <2> SUFFICES ASSUME RemovalInv, pc = "remove"
               PROVE  \A k \in DOMAIN work :
                        work[k].cell # Nil =>
                          IsPrefix(heap[work[Len(work)].cell].path, heap[work[k].cell].path)
    BY DEF RemovesOwnOnly
  <2> TAKE k \in DOMAIN work
  <2> HAVE work[k].cell # Nil
  <2>1. Types /\ Len(work) \in Nat /\ DOMAIN work = 1..Len(work) /\ work # <<>>
    BY LenProperties DEF RemovalInv, PathInv, LinkInv, Types
  <2> DEFINE g == work[Len(work)].cell
  <2>2. g \in 1..Len(heap) /\ \A c \in 1..Len(heap) : heap[c].path \in Paths
    BY <2>1, CellTypes DEF RemovalInv, RemovalOfPaths
  <2>3. CASE k = Len(work)
    BY <2>2, <2>3, BelowFacts
  <2>4. CASE k \in 1..Len(work) - 1
    <3>1. work[k].cell \in 1..Len(heap) /\ Below(heap[g].path, heap[work[k].cell].path)
      BY <2>1, <2>4 DEF RemovalInv, RemovalOfPaths
    <3> QED
      BY <2>2, <3>1, BelowFacts
  <2> QED
    BY <2>1, <2>3, <2>4
<1> QED
  BY <1>1, <1>2, <1>3, PTL DEF Spec

-----------------------------------------------------------------------------
(* TreeMirrorsPaths, when no directory is hidden and directories are only made *)

MadeEvents ==
  {e \in [wd : Inodes, kind : {"create", "overflow"}, name : Names \cup {""}] :
     e.kind = "create" => e.wd # None}

\* Nothing is removed.
OnlyMade ==
  /\ queue \in Seq(MadeEvents) /\ batch \in Seq(MadeEvents)
  /\ pc # "remove"

\* Each watcher has its place: on the stack, at the root, or after the one before it.
Placed ==
  pc \in {"scan", "idle", "write", "handle"} =>
    \A c \in live :
      \/ \E m \in 1..Len(stack) : stack[m] = c
      \/ c = root
      \/ heap[c].prev \in live /\ Leads(heap, heap[c].prev, c)

MadeInv == PathInv /\ OnlyMade /\ Placed

OnlyMkdir == AllShown /\ UserOps \subseteq {"mkdir", "cleanup"}

LEMMA UserOnlyMakes ==
  ASSUME MadeInv, OnlyMkdir, User
  PROVE  /\ queue' \in Seq(MadeEvents)
         /\ \E p \in Paths : Mkdir(p)
<1>1. PICK p \in Paths : Mkdir(p)
  BY DEF User, OnlyMkdir, Rmdir, MoveOut, Rename, MkdirOutside
<1>2. /\ p # Root /\ queue' = Queued(queue, dirs[ParentOf(p)], "create", NameOf(p))
      /\ dirs[ParentOf(p)] # None
  BY <1>1 DEF Mkdir, Change, IsDir
<1>3. ParentOf(p) \in Paths /\ NameOf(p) \in Names
  BY <1>2, NameOfPath
<1>4. dirs[ParentOf(p)] \in Inodes
  BY <1>3, TypesParts DEF MadeInv, PathInv, LinkInv, FsTypes
<1>5. /\ Event(dirs[ParentOf(p)], "create", NameOf(p)) \in MadeEvents
      /\ Overflow \in MadeEvents
  BY <1>2, <1>3, <1>4, NoneIsInode DEF Event, Overflow, MadeEvents
<1> DEFINE e == IF Len(queue) < QueueCap THEN Event(dirs[ParentOf(p)], "create", NameOf(p))
                ELSE Overflow
<1>6. e \in MadeEvents /\ (queue' = queue \/ queue' = Append(queue, e))
  BY <1>2, <1>5 DEF Queued
<1> HIDE DEF e
<1>7. queue' \in Seq(MadeEvents)
  BY <1>6, AppendProperties DEF MadeInv, OnlyMade
<1> QED
  BY <1>1, <1>7

\* A read() takes the first events of the queue, one at least.
LEMMA ReadFacts ==
  ASSUME NEW S, queue \in Seq(S), ReadEvents
  PROVE  /\ batch' \in Seq(S) /\ queue' \in Seq(S)
         /\ \E r \in 1..Len(queue) :
              /\ Len(batch') = r /\ Len(queue') = Len(queue) - r
              /\ \A i \in 1..r : batch'[i] = queue[i]
              /\ \A i \in 1..Len(queue) - r : queue'[i] = queue[r + i]
<1> DEFINE r == ReadLen
<1>1. /\ batch' = SubSeq(queue, 1, r) /\ queue' = SubSeq(queue, r + 1, Len(queue))
      /\ queue # <<>>
  BY DEF ReadEvents
<1>2. Len(queue) \in Nat \ {0} /\ \A i \in 1..Len(queue) : queue[i] \in S
  BY <1>1, EmptySeq
<1>3. r \in 1..Len(queue)
  <2>1. ReadCap \in Nat \ {0}
    BY TreesAssumption
  <2> QED
    BY <1>2, <2>1 DEF ReadLen
<1> HIDE DEF r
<1>4. \A i \in 1..r : queue[i] \in S
  BY <1>2, <1>3
<1>5. \A i \in r + 1..Len(queue) : queue[i] \in S
  BY <1>2, <1>3
<1>6. /\ batch' \in Seq(S) /\ Len(batch') = r
      /\ \A i \in 1..r : batch'[i] = queue[i]
  BY <1>1, <1>2, <1>3, <1>4, SubSeqProperties
<1>7. /\ queue' \in Seq(S) /\ Len(queue') = Len(queue) - r
      /\ \A i \in 1..Len(queue) - r : queue'[i] = queue[r + i]
  BY <1>1, <1>2, <1>3, <1>5, SubSeqProperties
<1> QED
  BY <1>3, <1>6, <1>7

LEMMA StepOnlyMade ==
  ASSUME MadeInv, OnlyMkdir, [Next]_vars
  PROVE  OnlyMade'
<1>1. queue \in Seq(MadeEvents) /\ batch \in Seq(MadeEvents) /\ pc # "remove"
  BY DEF MadeInv, OnlyMade
<1>2. CASE User
  BY <1>1, <1>2, UserOnlyMakes, UserLeaves DEF OnlyMade
<1>3. CASE ReadEvents
  <2>1. queue' \in Seq(MadeEvents) /\ batch' \in Seq(MadeEvents) /\ pc' = "write"
    BY <1>1, <1>3, ReadFacts DEF ReadEvents
  <2> QED
    BY <1>1, <2>1 DEF OnlyMade
<1>4. CASE PassOver \/ HandleCreate
  <2>1. batch # <<>> /\ batch' = Tail(batch) /\ UNCHANGED queue /\ pc' # "remove"
    BY <1>4 DEF PassOver, HandleCreate, Handling, Rest, Die
  <2>2. Tail(batch) \in Seq(MadeEvents)
    BY <1>1, <2>1, HeadTailProperties
  <2> QED
    BY <1>1, <2>1, <2>2 DEF OnlyMade
<1>5. CASE HandleDelete
  <2>1. batch # <<>> /\ Head(batch).kind = "delete"
    BY <1>5 DEF HandleDelete, Handling, Ev
  <2>2. Head(batch) \in MadeEvents
    BY <1>1, <2>1, HeadTailProperties
  <2> QED
    BY <2>1, <2>2 DEF MadeEvents
<1>6. CASE RemoveStep
  BY <1>1, <1>6, RemoveCases DEF RemoveCase, OnlyMade
<1>7. CASE \/ WritePipe \/ ReadPipe \/ RemoveDone \/ EndBatch \/ CleanupDone \/ CallCleanup
           \/ HandleUnknown \/ ScanLeave \/ ScanDone \/ \E n \in Names : ScanEnter(n)
  <2>1. UNCHANGED <<queue, batch>> /\ (pc' = pc \/ pc' # "remove")
    BY <1>7 DEF WritePipe, ReadPipe, RemoveDone, EndBatch, CleanupDone, CallCleanup,
                HandleUnknown, Handling, ScanLeave, ScanDone, ScanEnter, Die
  <2> QED
    BY <1>1, <2>1 DEF OnlyMade
<1>8. CASE UNCHANGED vars
  BY <1>1, <1>8 DEF vars, OnlyMade
<1> QED
  BY <1>2, <1>3, <1>4, <1>5, <1>6, <1>7, <1>8 DEF Next, Thread

\* Of the watchers the loop pops at most one is of the level of the new one and at most
\* one is deeper, as no level is skipped: each has its place after the new watcher.
LEMMA InsertPlaces ==
  ASSUME LinkInv, Placed, pc = "scan", UNCHANGED root,
         NEW p \in Paths, NEW d \in Inodes, NEW l \in 0..MaxDepth, Insert(p, d, l),
         \A m \in 1..Len(stack) : heap[stack[m]].level <= l + 1
  PROVE  Placed'
<1> DEFINE w == Len(heap) + 1
<1>1. PICK k \in 0..Len(stack) :
        LET popped == {stack[m] : m \in k + 1..Len(stack)}
        IN /\ Inserted(p, d, l, k)
           /\ heap'[w].child # Nil =>
                heap'[w].child \in popped /\ heap[heap'[w].child].level > l
           /\ heap'[w].child = Nil => \A c \in popped : heap[c].level = l
           /\ heap'[w].sibling # Nil =>
                heap'[w].sibling \in popped /\ heap[heap'[w].sibling].level = l
           /\ heap'[w].sibling = Nil => \A c \in popped : heap[c].level > l
           /\ \A c \in 1..Len(heap) :
                /\ heap'[c].child = heap[c].child /\ heap'[c].sibling = heap[c].sibling
                /\ heap'[c].prev = IF c \in popped THEN w ELSE heap[c].prev
  BY InsertLeads, SMTT(30) DEF LinkInv
<1> DEFINE popped == {stack[m] : m \in k + 1..Len(stack)}
<1>2. /\ live' = live \cup {w} /\ live \subseteq 1..Len(heap) /\ Len(stack) \in Nat
      /\ Len(stack') = k + 1 /\ stack'[k + 1] = w /\ \A m \in 1..k : stack'[m] = stack[m]
      /\ \A m \in k + 1..Len(stack) : heap[stack[m]].level >= l
      /\ \A m \in 1..Len(stack) : heap[stack[m]].level \in Nat
      /\ l \in Nat /\ DOMAIN stack = 1..Len(stack)
  BY <1>1, CellTypes, BoundsAssumption DEF LinkInv, Inserted
<1>3. \A i, j \in k + 1..Len(stack) : heap[stack[i]].level = heap[stack[j]].level => stack[i] = stack[j]
  <2> TAKE i, j \in k + 1..Len(stack)
  <2>1. i \in 1..Len(stack) /\ j \in 1..Len(stack)
    BY <1>2
  <2>2. /\ i < j => heap[stack[i]].level < heap[stack[j]].level
        /\ j < i => heap[stack[j]].level < heap[stack[i]].level
    BY <1>2, <2>1 DEF LinkInv, StackRising
  <2>3. heap[stack[i]].level \in Nat /\ heap[stack[j]].level \in Nat
    BY <1>2, <2>1
  <2>4. i < j \/ j < i \/ i = j
    BY <2>1
  <2> QED
    BY <2>2, <2>3, <2>4
<1>4. \A c \in popped : heap[c].level = l \/ heap[c].level = l + 1
  <2> TAKE c \in popped
  <2>1. PICK m \in k + 1..Len(stack) : c = stack[m]
    OBVIOUS
  <2>2. m \in 1..Len(stack)
    BY <1>2
  <2>3. heap[stack[m]].level \in Nat /\ heap[stack[m]].level <= l + 1 /\ heap[stack[m]].level >= l
    BY <1>2, <2>2
  <2> QED
    BY <1>2, <2>1, <2>3
<1>5. \A c, e \in popped : heap[c].level = heap[e].level => c = e
  BY <1>3
<1>6. \A c \in popped : heap'[w].child = c \/ heap'[w].sibling = c
  <2> TAKE c \in popped
  <2>1. CASE heap[c].level = l
    <3>1. heap'[w].sibling # Nil
      BY <1>1, <1>2, <2>1
    <3> QED
      BY <1>1, <1>5, <2>1, <3>1
  <2>2. CASE heap[c].level = l + 1
    <3>1. heap'[w].child # Nil
      <4>1. l # l + 1
        BY <1>2
      <4> QED
        BY <1>1, <2>2, <4>1
    <3>2. heap'[w].child \in popped /\ heap[heap'[w].child].level > l
      BY <1>1, <3>1
    <3>3. heap[heap'[w].child].level = l + 1
      BY <1>2, <1>4, <3>2
    <3> QED
      BY <1>5, <2>2, <3>2, <3>3
  <2> QED
    BY <1>4, <2>1, <2>2
<1>7. /\ \A c \in 1..Len(heap) :
           /\ heap'[c].child = heap[c].child /\ heap'[c].sibling = heap[c].sibling
           /\ heap'[c].prev = IF c \in popped THEN w ELSE heap[c].prev
  BY <1>1
<1>8. \A m \in 1..Len(stack) : m \in 1..k \/ stack[m] \in popped
  BY <1>2
<1>9. 1..k \subseteq 1..k + 1 /\ k + 1 \in 1..k + 1
  BY <1>2
<1> HIDE DEF w, popped
<1>10. \A c \in live' :
         \/ \E m \in 1..Len(stack') : stack'[m] = c
         \/ c = root'
         \/ heap'[c].prev \in live' /\ Leads(heap', heap'[c].prev, c)
  <2> TAKE c \in live'
  <2>1. CASE c = w
    BY <1>2, <1>9, <2>1
  <2>2. CASE c \in live /\ c \in popped
    BY <1>2, <1>6, <1>7, <2>2 DEF Leads
  <2>3. CASE c \in live /\ c \notin popped
    <3>1. heap'[c].prev = heap[c].prev
      BY <1>2, <1>7, <2>3
    <3>2. CASE \E m \in 1..Len(stack) : stack[m] = c
      <4>1. PICK m \in 1..Len(stack) : stack[m] = c
        BY <3>2
      <4>2. m \in 1..k
        BY <1>8, <2>3, <4>1
      <4> QED
        BY <1>2, <1>9, <4>1, <4>2
    <3>3. CASE heap[c].prev \in live /\ Leads(heap, heap[c].prev, c)
      <4>1. heap[c].prev \in 1..Len(heap)
        BY <1>2, <3>3
      <4> QED
        BY <1>2, <1>7, <3>1, <3>3, <4>1 DEF Leads
    <3> QED
      BY <2>3, <3>2, <3>3 DEF Placed
  <2> QED
    BY <1>2, <2>1, <2>2, <2>3
<1> QED
  BY <1>10 DEF Placed

LEMMA ScanDonePlaces ==
  ASSUME PathInv, Placed, ScanDone
  PROVE  Placed'
<1>1. pc = "scan" /\ UNCHANGED live /\ frames = <<>> /\ Types /\ live \subseteq 1..Len(heap)
      /\ Nil \notin live
  BY CellTypes DEF ScanDone, PathInv, LinkInv, Nil
<1>2. CASE pc' = "failed"
  BY <1>2 DEF Placed
<1>3. CASE Len(stack) = 1 /\ root = Nil /\ root' = stack[1] /\ UNCHANGED heap
  <2>1. \A m \in 1..Len(stack) : stack[m] = root'
    BY <1>3
  <2> QED
    BY <1>1, <1>3, <2>1 DEF Placed
<1>4. CASE Len(stack) = 1 /\ root # Nil /\ UNCHANGED root /\ heap' = LinkChild(heap, viewer, stack[1])
  <2> DEFINE v == viewer
             w == stack[1]
             first == heap[v].child
  <2>1. v \in live /\ w \in live /\ 1 \in 1..Len(stack) /\ \A m \in 1..Len(stack) : stack[m] = w
    BY <1>1, <1>4, CellTypes DEF Types, Attached
  <2>2. PICK n \in Nat : v <= n /\ Apart(n)
    BY <1>1, <1>4 DEF PathInv, LinkInv, ViewerOff
  <2>3. w > n /\ \A c \in live : ~Leads(heap, c, w)
    BY <2>1, <2>2 DEF Apart, PathInv, LinkInv, StackFree
  <2>4. w # v
    BY <1>1, <2>1, <2>2, <2>3, CellTypes
  <2>5. heap[w].sibling = Nil
    <3>1. Standing(heap[w])
      BY <1>1, <2>1 DEF PathInv, ScanOfPaths
    <3>2. heap[w].level = 0
      <4>1. heap[w].level \in Nat
        BY <1>1, <2>1, CellTypes
      <4>2. Len(frames) = 0
        BY <1>1
      <4> QED
        BY <3>1, <4>1, <4>2 DEF Standing
    <3> QED
      BY <3>1, <3>2 DEF Standing
  <2>6. ~Leads(heap, v, v)
    <3>1. {v} \in SUBSET live /\ {v} # {}
      BY <2>1
    <3> QED
      BY <3>1 DEF PathInv, LinkInv, Chained
  <2>7. \A c \in 1..Len(heap) :
          /\ heap'[c].child = IF c = v THEN w ELSE heap[c].child
          /\ heap'[c].sibling = IF c = w THEN first ELSE heap[c].sibling
          /\ c # v => heap'[c].prev = IF c = w THEN v ELSE IF c = first THEN w ELSE heap[c].prev
          /\ c = v => heap'[c].prev = heap[c].prev
    BY <1>4, <2>1, <2>3, <2>4, LinkChildFacts DEF PathInv
  <2> HIDE DEF v, w, first
  <2>8. \A c \in live :
          \/ c = root
          \/ heap'[c].prev \in live /\ Leads(heap', heap'[c].prev, c)
    <3> TAKE c \in live
    <3>1. CASE c = w
      BY <1>1, <2>1, <2>4, <2>7, <3>1 DEF Leads
    <3>2. CASE c = first /\ c # w
      <4>1. c # v
        BY <2>6, <3>2 DEF Leads, first
      <4>2. heap'[c].prev = w /\ heap'[w].sibling = first
        BY <1>1, <2>1, <2>7, <3>2, <4>1
      <4> QED
        BY <2>1, <3>2, <4>2 DEF Leads
    <3>3. CASE c # w /\ c # first
      <4>1. c = root \/ (heap[c].prev \in live /\ Leads(heap, heap[c].prev, c))
        BY <1>1, <2>1, <3>3 DEF Placed
      <4>2. heap'[c].prev = heap[c].prev
        BY <1>1, <2>7, <3>3
      <4>3. ASSUME heap[c].prev \in live, Leads(heap, heap[c].prev, c)
            PROVE  Leads(heap', heap[c].prev, c)
        <5>1. heap[c].prev \in 1..Len(heap) /\ c # Nil
          BY <1>1, <4>3
        <5> DEFINE e == heap[c].prev
        <5>2. e = v => heap[e].child # c
          BY <3>3 DEF first
        <5>3. e = w => heap[e].sibling # c
          BY <2>5, <5>1
        <5> HIDE DEF e
        <5> QED
          BY <2>4, <2>7, <4>3, <5>1, <5>2, <5>3 DEF Leads, e
      <4> QED
        BY <4>1, <4>2, <4>3
    <3> QED
      BY <3>1, <3>2, <3>3
  <2> QED
    BY <1>1, <1>4, <2>8 DEF Placed
<1> QED
  BY <1>2, <1>3, <1>4 DEF ScanDone, Die

LEMMA ScanEnterPlaces ==
  ASSUME MadeInv, AllShown, NEW n \in Names, ScanEnter(n)
  PROVE  Placed'
<1>1. pc = "scan" /\ frames # <<>> /\ UNCHANGED root /\ n \in Top.todo /\ Types
  BY DEF ScanEnter, MadeInv, PathInv, LinkInv
<1>2. CASE pc' = "failed"
  BY <1>2 DEF Placed
<1>3. CASE UNCHANGED <<pc, treeVars>>
  BY <1>1, <1>3 DEF MadeInv, Placed, treeVars
<1>4. CASE Insert(Append(Top.path, n), None, Len(frames))
  <2>1. Append(Top.path, n) \in Paths /\ Len(frames) \in 0..MaxDepth /\ Len(frames) \in Nat
    BY <1>1, TopFacts
  <2>2. \A m \in 1..Len(stack) : heap[stack[m]].level <= Len(frames) + 1
    <3> TAKE m \in 1..Len(stack)
    <3>1. heap[stack[m]].level \in 1..Len(frames)
      BY <1>1, StandingFacts DEF MadeInv
    <3> QED
      BY <2>1, <3>1
  <2> QED
    BY <1>1, <1>4, <2>1, <2>2, NoneIsInode, InsertPlaces DEF MadeInv, PathInv
<1> QED
  BY <1>2, <1>3, <1>4 DEF ScanEnter, Die

LEMMA ScanLeavePlaces ==
  ASSUME MadeInv, AllShown, ScanLeave
  PROVE  Placed'
<1> PICK d \in AddWatch(Top) : Insert(Top.path, d, Len(frames) - 1)
  BY NoneHidden DEF ScanLeave
<1>1. pc = "scan" /\ frames # <<>> /\ UNCHANGED root /\ Types
  BY DEF ScanLeave, MadeInv, PathInv, LinkInv
<1>2. /\ Top.path \in Paths /\ Len(frames) - 1 \in 0..MaxDepth /\ Len(frames) \in Nat
      /\ d \in Inodes
  <2>1. Top.path \in Paths /\ Len(frames) - 1 \in 0..MaxDepth /\ Len(frames) \in Nat
    BY <1>1, TopFacts
  <2> QED
    BY <1>1, <2>1, TopFacts, AddWatchFacts, TypesParts
<1>3. PICK l \in 0..MaxDepth : l = Len(frames) - 1
  BY <1>2
<1>4. \A m \in 1..Len(stack) : heap[stack[m]].level <= l + 1
  <2> TAKE m \in 1..Len(stack)
  <2>1. heap[stack[m]].level \in 1..Len(frames)
    BY <1>1, StandingFacts DEF MadeInv
  <2>2. l + 1 = Len(frames)
    BY <1>2, <1>3
  <2> QED
    BY <1>2, <2>1, <2>2
<1>5. Insert(Top.path, d, l)
  BY <1>3
<1> QED
  BY <1>1, <1>2, <1>4, <1>5, InsertPlaces DEF MadeInv, PathInv

LEMMA StepPlaces ==
  ASSUME MadeInv, OnlyMkdir, [Next]_vars
  PROVE  Placed'
<1>1. CASE \E n \in Names : ScanEnter(n)
  BY <1>1, ScanEnterPlaces DEF OnlyMkdir
<1>2. CASE ScanLeave
  BY <1>2, ScanLeavePlaces DEF OnlyMkdir
<1>3. CASE ScanDone
  BY <1>3, ScanDonePlaces DEF MadeInv
<1>4. CASE \/ User \/ UNCHANGED vars
           \/ ReadEvents \/ WritePipe \/ ReadPipe \/ EndBatch \/ CleanupDone \/ CallCleanup
           \/ HandleUnknown \/ PassOver \/ HandleCreate
  <2>1. /\ UNCHANGED <<heap, live, stack, root>>
        /\ pc' \in {"scan", "idle", "write", "handle"} => pc \in {"scan", "idle", "write", "handle"}
    <3>1. CASE User
      BY <3>1, UserLeaves
    <3>2. CASE UNCHANGED vars
      BY <3>2 DEF vars, treeVars
    <3>3. CASE ReadEvents \/ WritePipe \/ ReadPipe \/ EndBatch \/ CleanupDone \/ CallCleanup
      BY <3>3 DEF ReadEvents, WritePipe, ReadPipe, EndBatch, CleanupDone, CallCleanup, treeVars
    <3>4. CASE HandleUnknown \/ PassOver \/ HandleCreate
      BY <3>4 DEF HandleUnknown, PassOver, HandleCreate, Die, Handling, treeVars
    <3> QED
      BY <1>4, <3>1, <3>2, <3>3, <3>4
  <2> QED
    BY <2>1 DEF MadeInv, Placed
<1>5. CASE RemoveStep
  BY <1>5, RemoveCases DEF MadeInv, OnlyMade, RemoveCase, Placed
<1>6. CASE RemoveDone
  BY <1>6 DEF RemoveDone, MadeInv, OnlyMade
<1>7. CASE HandleDelete
  BY <1>7 DEF HandleDelete, Die, Placed
<1> QED
  BY <1>1, <1>2, <1>3, <1>4, <1>5, <1>6, <1>7 DEF Next, Thread

LEMMA MadeParts == MadeInv <=> PathInv /\ OnlyMade /\ Placed
BY DEF MadeInv

LEMMA MadeHolds ==
  ASSUME OnlyMkdir
  PROVE  Spec => []MadeInv
<1>1. Init => MadeInv
  <2>1. Init => OnlyMade /\ Placed
    BY DEF Init, OnlyMade, Placed
  <2> QED
    BY <2>1, InitPaths DEF MadeInv
<1>2. MadeInv /\ [Next]_vars => MadeInv'
  <2> SUFFICES ASSUME MadeInv, [Next]_vars PROVE MadeInv'
    OBVIOUS
  <2>1. PathInv'
    BY StepPaths DEF MadeInv, OnlyMkdir
  <2>2. OnlyMade' /\ Placed'
    BY StepOnlyMade, StepPlaces
  <2> QED
    BY <2>1, <2>2, MadeParts, PTL
<1> QED
  BY <1>1, <1>2, PTL DEF Spec

\* insert_watcher() and insert_watcher_child() build the tree of the directories, however
\* many are made while a scan is under way: each watcher is reached from its father's.
THEOREM WatchersAreTree ==
  ASSUME OnlyMkdir
  PROVE  Spec => []TreeMirrorsPaths
<1>1. MadeInv => TreeMirrorsPaths
  <2> SUFFICES ASSUME MadeInv, Ready, NEW c \in live \ {root}
               PROVE  LET w == heap[c]
                      IN /\ w.prev \in live
                         /\ \/ heap[w.prev].child = c /\ heap[w.prev].path = ParentOf(w.path)
                            \/ /\ heap[w.prev].sibling = c
                               /\ ParentOf(heap[w.prev].path) = ParentOf(w.path)
    BY DEF TreeMirrorsPaths
  <2>1. pc \in {"idle", "write"} /\ stack = <<>>
    BY DEF Ready, MadeInv, PathInv, LinkInv, Types, Attached
  <2>2. heap[c].prev \in live /\ Leads(heap, heap[c].prev, c)
    BY <2>1 DEF MadeInv, Placed
  <2> QED
    BY <2>2 DEF MadeInv, PathInv, LinksOfPaths, Leads, IsIn, IsBeside
<1> QED
  BY <1>1, MadeHolds, PTL

-----------------------------------------------------------------------------
(* OneWatcherPerPath, when no directory is hidden and directories are only made: a path  *)
(* has a watcher, or nftw() is in it, or is still to enter it, or its event is still to  *)
(* be handled, and never two of these.                                                   *)

Working == pc \in {"scan", "idle", "write", "handle"}

DirPaths     == {p \in Paths : IsDir(p)}
WatcherPaths == {heap[c].path : c \in live}
EnteredPaths == {frames[k].path : k \in 1..Len(frames)}
NamedPaths ==
  {q \in Paths : q # Root /\ \E k \in 1..Len(frames) :
                              ParentOf(q) = frames[k].path /\ NameOf(q) \in frames[k].todo}

\* The directories of D that are in x.
DirsIn(D, x) == {q \in D : q # Root /\ q # x /\ ParentOf(q) = x}

\* The event that q was made: the inode of a directory tells its path.
Announces(e, q) ==
  e.kind = "create" /\ q # Root /\ e.wd[1] = ParentOf(q) /\ e.name = NameOf(q)
AnnouncedBy(s) == {q \in Paths : \E i \in 1..Len(s) : Announces(s[i], q)}
EachOnce(s) ==
  \A q \in Paths, i, j \in 1..Len(s) : Announces(s[i], q) /\ Announces(s[j], q) => i = j

\* Paths of watchers, entered, named and announced ones, among those of directories: what
\* is below a directory waits until it has been listed.
Separate(W, E, N, A, D) ==
  /\ W \cap E = {} /\ W \cap N = {} /\ W \cap A = {}
  /\ E \cap N = {} /\ E \cap A = {} /\ N \cap A = {}
  /\ W \cup E \cup N \cup A \subseteq D
  /\ \A q \in W \cup E \cup N \cup A : q # Root => ParentOf(q) \in W \cup E

EventsOnce ==
  EachOnce(queue) /\ EachOnce(batch) /\ AnnouncedBy(queue) \cap AnnouncedBy(batch) = {}

InodesTell ==
  /\ \A p \in DirPaths : dirs[p][1] = p
  /\ \A c \in live : heap[c].wd # None => heap[c].wd[1] = heap[c].path
  /\ \A d \in watched : d[1] \in WatcherPaths

FramesApart ==
  /\ \A i, j \in 1..Len(frames) : frames[i].path = frames[j].path => i = j
  /\ \A k \in 1..Len(frames) : frames[k].shut \in {None, dirs[frames[k].path]}
  /\ pc # "scan" => frames = <<>>

AllSeparate ==
  Separate(WatcherPaths, EnteredPaths, NamedPaths, AnnouncedBy(queue) \cup AnnouncedBy(batch),
           DirPaths)

\* Every event of the batch has been handled.
BatchDone == pc = "idle" \/ root = Nil => batch = <<>>

OneInv ==
  /\ MadeInv
  /\ BatchDone
  /\ OneWatcherPerPath
  /\ Working => AllSeparate /\ EventsOnce /\ InodesTell /\ FramesApart

\* Fewer paths are announced.
LEMMA SeparateFewer ==
  \A W, E, N, A, D, B : Separate(W, E, N, A, D) /\ B \subseteq A => Separate(W, E, N, B, D)
BY DEF Separate

\* The directory x is made: in one that has a watcher it may be announced, in one that
\* nftw() is in it may be named.
LEMMA SeparateMade ==
  \A W, E, N, A, D, M, B, x :
    /\ Separate(W, E, N, A, D) /\ x \notin D
    /\ B \subseteq A \cup {x} /\ (x \in B => ParentOf(x) \in W)
    /\ M \subseteq N \cup {x} /\ (x \in M => ParentOf(x) \in E)
    => Separate(W, E, M, B, D \cup {x})
<1> TAKE W, E, N, A, D, M, B, x
<1> HAVE /\ Separate(W, E, N, A, D) /\ x \notin D
         /\ B \subseteq A \cup {x} /\ (x \in B => ParentOf(x) \in W)
         /\ M \subseteq N \cup {x} /\ (x \in M => ParentOf(x) \in E)
<1>1. x \notin W /\ x \notin E /\ x \notin N /\ x \notin A /\ ~(x \in B /\ x \in M)
  BY DEF Separate
<1>2. /\ W \cap E = {} /\ W \cap M = {} /\ W \cap B = {}
      /\ E \cap M = {} /\ E \cap B = {} /\ M \cap B = {}
  BY <1>1 DEF Separate
<1>3. W \cup E \cup M \cup B \subseteq D \cup {x}
  BY DEF Separate
<1>4. \A q \in W \cup E \cup M \cup B : q # Root => ParentOf(q) \in W \cup E
  BY DEF Separate
<1> QED
  BY <1>2, <1>3, <1>4 DEF Separate

\* A path announced or named is entered, and the directories in it are named.
LEMMA SeparateEntered ==
  \A W, E, N, A, D, M, B, x :
    /\ Separate(W, E, N, A, D) /\ x \in N \cup A
    /\ M \subseteq (N \ {x}) \cup DirsIn(D, x)
    /\ B \subseteq A \ {x}
    => Separate(W, E \cup {x}, M, B, D)
<1> TAKE W, E, N, A, D, M, B, x
<1> HAVE /\ Separate(W, E, N, A, D) /\ x \in N \cup A
         /\ M \subseteq (N \ {x}) \cup DirsIn(D, x)
         /\ B \subseteq A \ {x}
<1> DEFINE C == DirsIn(D, x)
<1>1. x \notin W /\ x \notin E /\ x \in D
  BY DEF Separate
<1>2. \A q \in C : q \notin W /\ q \notin E /\ q \notin N /\ q \notin A
  BY <1>1 DEF Separate, DirsIn
<1>3. C \subseteq D /\ x \notin C /\ \A q \in C : ParentOf(q) = x
  BY DEF DirsIn
<1>4. M \subseteq (N \ {x}) \cup C
  OBVIOUS
<1> HIDE DEF C
<1>5. /\ W \cap (E \cup {x}) = {} /\ W \cap M = {} /\ W \cap B = {}
      /\ (E \cup {x}) \cap M = {} /\ (E \cup {x}) \cap B = {} /\ M \cap B = {}
  BY <1>1, <1>2, <1>3, <1>4 DEF Separate
<1>6. W \cup (E \cup {x}) \cup M \cup B \subseteq D
  BY <1>1, <1>3, <1>4 DEF Separate
<1>7. \A q \in W \cup (E \cup {x}) \cup M \cup B : q # Root => ParentOf(q) \in W \cup (E \cup {x})
  BY <1>1, <1>3, <1>4 DEF Separate
<1> QED
  BY <1>5, <1>6, <1>7 DEF Separate

\* An entered directory is left, and has its watcher.
LEMMA SeparateLeft ==
  \A W, E, N, A, D, x :
    Separate(W, E, N, A, D) /\ x \in E => Separate(W \cup {x}, E \ {x}, N, A, D)
BY DEF Separate

LEMMA PathOfParts ==
  \A p, q \in Paths :
    p # Root /\ q # Root /\ ParentOf(p) = ParentOf(q) /\ NameOf(p) = NameOf(q) => p = q
<1> TAKE p, q \in Paths
<1> HAVE p # Root /\ q # Root /\ ParentOf(p) = ParentOf(q) /\ NameOf(p) = NameOf(q)
<1>1. /\ p \in Seq(Names) /\ q \in Seq(Names)
      /\ Len(p) \in Nat \ {0} /\ Len(ParentOf(p)) = Len(p) - 1
      /\ \A k \in 1..Len(p) - 1 : ParentOf(p)[k] = p[k]
      /\ Len(q) \in Nat \ {0} /\ Len(ParentOf(q)) = Len(q) - 1
      /\ \A k \in 1..Len(q) - 1 : ParentOf(q)[k] = q[k]
  BY PathIsSeq, ParentFacts
<1>2. Len(p) = Len(q)
  BY <1>1
<1>3. \A k \in 1..Len(p) : p[k] = q[k]
  <2> TAKE k \in 1..Len(p)
  <2>1. CASE k = Len(p)
    BY <1>2, <2>1 DEF NameOf
  <2>2. CASE k \in 1..Len(p) - 1
    BY <1>1, <1>2, <2>2
  <2> QED
    BY <1>1, <2>1, <2>2
<1> QED
  BY <1>1, <1>2, <1>3, SeqEqual

LEMMA AnnouncedAppend ==
  \A s \in Seq(MadeEvents), e \in MadeEvents, x \in Paths :
    /\ \A q \in Paths : Announces(e, q) => q = x
    /\ x \notin AnnouncedBy(s) /\ EachOnce(s)
    => /\ EachOnce(Append(s, e))
       /\ AnnouncedBy(s) \subseteq AnnouncedBy(Append(s, e))
       /\ AnnouncedBy(Append(s, e)) \subseteq AnnouncedBy(s) \cup {x}
       /\ x \in AnnouncedBy(Append(s, e)) <=> Announces(e, x)
<1> TAKE s \in Seq(MadeEvents), e \in MadeEvents, x \in Paths
<1> HAVE /\ \A q \in Paths : Announces(e, q) => q = x
         /\ x \notin AnnouncedBy(s) /\ EachOnce(s)
<1> DEFINE r == Append(s, e)
<1>1. /\ Len(s) \in Nat /\ Len(r) = Len(s) + 1 /\ r[Len(s) + 1] = e
      /\ \A i \in 1..Len(s) : r[i] = s[i]
  BY AppendProperties, LenProperties
<1> HIDE DEF r
<1>2. \A i \in 1..Len(r) : i \in 1..Len(s) \/ i = Len(s) + 1
  BY <1>1
<1>3. \A i \in 1..Len(r), q \in Paths :
        Announces(r[i], q) => (i \in 1..Len(s) /\ Announces(s[i], q) /\ q # x)
                              \/ (i = Len(s) + 1 /\ Announces(e, q) /\ q = x)
  BY <1>1, <1>2 DEF AnnouncedBy
<1>4. EachOnce(r)
  BY <1>3 DEF EachOnce
<1>5. AnnouncedBy(r) \subseteq AnnouncedBy(s) \cup {x}
  BY <1>3 DEF AnnouncedBy
<1>6. x \in AnnouncedBy(r) => Announces(e, x)
  BY <1>3 DEF AnnouncedBy
<1>7. Announces(e, x) => x \in AnnouncedBy(r)
  <2>1. Len(s) + 1 \in 1..Len(r)
    BY <1>1
  <2> QED
    BY <1>1, <2>1 DEF AnnouncedBy
<1>8. AnnouncedBy(s) \subseteq AnnouncedBy(r)
  <2>1. 1..Len(s) \subseteq 1..Len(r)
    BY <1>1
  <2> QED
    BY <1>1, <2>1 DEF AnnouncedBy
<1> QED
  BY <1>4, <1>5, <1>6, <1>7, <1>8 DEF r

LEMMA AnnouncedTail ==
  \A s \in Seq(MadeEvents) :
    s # <<>> /\ EachOnce(s) =>
      /\ EachOnce(Tail(s))
      /\ AnnouncedBy(Tail(s)) \subseteq AnnouncedBy(s)
      /\ \A q \in AnnouncedBy(s) : q \in AnnouncedBy(Tail(s)) \/ Announces(Head(s), q)
      /\ \A q \in Paths : Announces(Head(s), q) => q \in AnnouncedBy(s) /\ q \notin AnnouncedBy(Tail(s))
<1> TAKE s \in Seq(MadeEvents)
<1> HAVE s # <<>> /\ EachOnce(s)
<1> DEFINE r == Tail(s)
           h == Head(s)
<1>1. /\ Len(s) \in Nat \ {0} /\ Len(r) = Len(s) - 1 /\ h = s[1]
      /\ \A i \in 1..Len(s) - 1 : r[i] = s[i + 1]
  BY HeadTailProperties, EmptySeq
<1> HIDE DEF r, h
<1>2. \A i \in 1..Len(r) : i + 1 \in 1..Len(s) /\ i + 1 # 1 /\ r[i] = s[i + 1]
  BY <1>1
<1>3. EachOnce(r)
  <2> SUFFICES ASSUME NEW q \in Paths, NEW i \in 1..Len(r), NEW j \in 1..Len(r),
                      Announces(r[i], q), Announces(r[j], q)
               PROVE  i = j
    BY DEF EachOnce
  <2>1. i + 1 = j + 1
    BY <1>2 DEF EachOnce
  <2> QED
    BY <2>1
<1>4. AnnouncedBy(r) \subseteq AnnouncedBy(s)
  BY <1>2 DEF AnnouncedBy
<1>6. \A q \in AnnouncedBy(s) : q \in AnnouncedBy(r) \/ Announces(h, q)
  <2> TAKE q \in AnnouncedBy(s)
  <2>1. q \in Paths /\ \E i \in 1..Len(s) : Announces(s[i], q)
    BY DEF AnnouncedBy
  <2>2. PICK i \in 1..Len(s) : Announces(s[i], q)
    BY <2>1
  <2>3. CASE i = 1
    BY <1>1, <2>2, <2>3
  <2>4. CASE i # 1
    <3>1. i - 1 \in 1..Len(r) /\ (i - 1) + 1 = i
      BY <1>1, <2>4
    <3>2. r[i - 1] = s[i]
      BY <1>2, <3>1
    <3> QED
      BY <2>1, <2>2, <3>1, <3>2 DEF AnnouncedBy
  <2> QED
    BY <2>3, <2>4
<1>5. \A q \in Paths : Announces(h, q) => q \in AnnouncedBy(s) /\ q \notin AnnouncedBy(r)
  <2> TAKE q \in Paths
  <2> HAVE Announces(h, q)
  <2>1. 1 \in 1..Len(s) /\ Announces(s[1], q)
    BY <1>1
  <2>2. \A i \in 1..Len(r) : ~Announces(r[i], q)
    BY <1>2, <2>1 DEF EachOnce
  <2> QED
    BY <2>1, <2>2 DEF AnnouncedBy
<1> QED
  BY <1>3, <1>4, <1>5, <1>6 DEF r, h

\* What the parts of OneInv are said of.
LEMMA OneParts ==
  OneInv <=> /\ MadeInv /\ BatchDone /\ OneWatcherPerPath
             /\ Working => AllSeparate /\ EventsOnce /\ InodesTell /\ FramesApart
BY DEF OneInv

\* A name that appears is named where nftw() is still reading, and nowhere else.
LEMMA NamedMore ==
  ASSUME Walking, MoreListed, NEW x \in Paths, x # Root, NamesMore(x)
  PROVE  /\ EnteredPaths' = EnteredPaths
         /\ NamedPaths \subseteq NamedPaths' /\ NamedPaths' \subseteq NamedPaths \cup {x}
         /\ x \in NamedPaths' => ParentOf(x) \in EnteredPaths
<1>1. /\ Len(frames') = Len(frames)
      /\ \A k \in 1..Len(frames) :
           frames'[k].path = frames[k].path /\ frames[k].todo \subseteq frames'[k].todo
  BY DEF MoreListed
<1>2. EnteredPaths' = EnteredPaths
  BY <1>1 DEF EnteredPaths
<1>3. NamedPaths \subseteq NamedPaths'
  <2> SUFFICES ASSUME NEW q \in NamedPaths PROVE q \in NamedPaths'
    OBVIOUS
  <2>1. PICK k \in 1..Len(frames) : ParentOf(q) = frames[k].path /\ NameOf(q) \in frames[k].todo
    BY DEF NamedPaths
  <2>2. q \in Paths /\ q # Root
    BY DEF NamedPaths
  <2>3. k \in 1..Len(frames') /\ ParentOf(q) = frames'[k].path /\ NameOf(q) \in frames'[k].todo
    BY <1>1, <2>1
  <2> QED
    BY <2>2, <2>3 DEF NamedPaths
<1>4. \A q \in NamedPaths' : ParentOf(q) \in EnteredPaths /\ (q \in NamedPaths \/ q = x)
  <2> TAKE q \in NamedPaths'
  <2>1. PICK k \in 1..Len(frames) : ParentOf(q) = frames[k].path /\ NameOf(q) \in frames'[k].todo
    BY <1>1 DEF NamedPaths
  <2>2. q \in Paths /\ q # Root
    BY DEF NamedPaths
  <2>3. ParentOf(q) \in EnteredPaths
    BY <2>1 DEF EnteredPaths
  <2>4. CASE NameOf(q) \in frames[k].todo
    BY <2>1, <2>2, <2>3, <2>4 DEF NamedPaths
  <2>5. CASE NameOf(q) \notin frames[k].todo
    <3>1. PICK j \in 1..Len(frames) :
             /\ frames[j].path = ParentOf(x)
             /\ \A i \in 1..Len(frames) : i # j => frames'[i] = frames[i]
             /\ frames'[j].todo = frames[j].todo \cup {NameOf(x)}
      BY <2>1, <2>5 DEF NamesMore
    <3>2. k = j
      BY <2>1, <2>5, <3>1
    <3>3. NameOf(q) = NameOf(x) /\ ParentOf(q) = ParentOf(x)
      BY <2>1, <2>5, <3>1, <3>2
    <3> QED
      BY <2>2, <2>3, <3>3, PathOfParts
  <2> QED
    BY <2>4, <2>5
<1> QED
  BY <1>2, <1>3, <1>4

\* The directory x is made.  The event, if there is one, is of x, and x is in a directory
\* that has a watcher; there is one if that is watched and the queue takes it.
LEMMA UserIs ==
  ASSUME OneInv, OnlyMkdir, User
  PROVE  /\ Working
         /\ \E x \in Paths :
              /\ UNCHANGED <<pc, root, heap, live, stack, batch, watched>>
              /\ MoreListed /\ SamePlaces
              /\ EnteredPaths' = EnteredPaths
              /\ NamedPaths \subseteq NamedPaths' /\ NamedPaths' \subseteq NamedPaths \cup {x}
              /\ x \in NamedPaths' => ParentOf(x) \in EnteredPaths
              /\ x # Root /\ x \notin DirPaths /\ ParentOf(x) \in DirPaths
              /\ dirs'[x][1] = x /\ \A p \in Paths : p # x => dirs'[p] = dirs[p]
              /\ DirPaths' = DirPaths \cup {x}
              /\ EachOnce(queue')
              /\ AnnouncedBy(queue) \subseteq AnnouncedBy(queue')
              /\ AnnouncedBy(queue') \subseteq AnnouncedBy(queue) \cup {x}
              /\ x \in AnnouncedBy(queue') => ParentOf(x) \in WatcherPaths
              /\ quiet' /\ dirs[ParentOf(x)] \in watched => x \in AnnouncedBy(queue')
              /\ quiet' => quiet /\ pc # "scan"
<1>1. PICK x \in Paths : Mkdir(x)
  BY UserOnlyMakes DEF OneInv
<1>2. /\ UNCHANGED <<pc, root, heap, live, stack, batch, watched>> /\ Appears(x)
      /\ pc \notin {"failed", "undefined", "cleanup", "swept"}
      /\ x # Root /\ ~IsDir(x) /\ IsDir(ParentOf(x))
      /\ dirs' = [dirs EXCEPT ![x] = InodeOf(x, made + 1)]
      /\ queue' = Queued(queue, dirs[ParentOf(x)], "create", NameOf(x))
      /\ quiet' = (quiet /\ pc # "scan" /\ ~Overflown(queue'))
  BY <1>1, UserLeaves DEF Mkdir, Change, treeVars
<1>3. Types /\ OnlyMade /\ FsTypes /\ Walking
  BY TypesParts DEF OneInv, MadeInv, PathInv, LinkInv
<1>4. Working
  BY <1>2, <1>3 DEF Working, Types, TypeOK, OnlyMade
<1>5. AllSeparate /\ EventsOnce /\ InodesTell
  BY <1>4 DEF OneInv
<1>6. /\ ParentOf(x) \in DirPaths /\ x \notin DirPaths /\ NameOf(x) \in Names
      /\ dirs[ParentOf(x)][1] = ParentOf(x) /\ dirs[ParentOf(x)] \in Inodes
      /\ dirs[ParentOf(x)] # None
  <2>1. ParentOf(x) \in Paths /\ NameOf(x) \in Names
    BY <1>2, NameOfPath
  <2> QED
    BY <1>2, <1>3, <1>5, <2>1 DEF DirPaths, InodesTell, FsTypes, IsDir
<1>7. /\ InodeOf(x, made + 1) # None /\ InodeOf(x, made + 1)[1] = x
  <2>1. Len(<<x, made + 1>>) = 2 /\ Len(<<"none">>) = 1 /\ <<x, made + 1>>[1] = x
    OBVIOUS
  <2> QED
    BY <2>1 DEF InodeOf, None
<1>8. /\ dirs'[x] = InodeOf(x, made + 1)
      /\ \A p \in Paths : p # x => dirs'[p] = dirs[p]
  BY <1>2, <1>3 DEF FsTypes
<1>9. DirPaths' = DirPaths \cup {x}
  BY <1>7, <1>8 DEF DirPaths, IsDir
<1>10. x \notin AnnouncedBy(queue) /\ EachOnce(queue)
  BY <1>5, <1>6 DEF AllSeparate, Separate, EventsOnce
<1> DEFINE d == dirs[ParentOf(x)]
           e == Event(d, "create", NameOf(x))
<1>11. \/ queue' = queue /\ (d \notin watched \/ Overflown(queue))
       \/ queue' = Append(queue, Overflow)
       \/ queue' = Append(queue, e) /\ d \in watched
  BY <1>2 DEF Queued
<1>12. /\ EachOnce(queue') /\ AnnouncedBy(queue) \subseteq AnnouncedBy(queue')
       /\ AnnouncedBy(queue') \subseteq AnnouncedBy(queue) \cup {x}
       /\ x \in AnnouncedBy(queue') => ParentOf(x) \in WatcherPaths
       /\ quiet' /\ d \in watched => x \in AnnouncedBy(queue')
  <2>1. CASE queue' = queue /\ (d \notin watched \/ Overflown(queue))
    BY <1>2, <1>10, <2>1
  <2>2. CASE queue' = Append(queue, Overflow)
    <3>1. Overflow \in MadeEvents /\ \A q \in Paths : ~Announces(Overflow, q)
      BY NoneIsInode DEF Overflow, Event, MadeEvents, Announces
    <3>2. ~quiet'
      <4>1. /\ Len(queue) \in Nat /\ Len(queue') = Len(queue) + 1
            /\ queue'[Len(queue) + 1] = Overflow
        BY <1>3, <2>2, <3>1, AppendProperties, LenProperties DEF OnlyMade
      <4>2. Len(queue) + 1 \in DOMAIN queue'
        BY <1>3, <2>2, <3>1, <4>1, AppendProperties, LenProperties DEF OnlyMade
      <4>3. Overflown(queue')
        BY <4>1, <4>2 DEF Overflown
      <4> QED
        BY <1>2, <4>3
    <3> QED
      BY <1>3, <1>10, <2>2, <3>1, <3>2, AnnouncedAppend DEF OnlyMade
  <2>3. CASE queue' = Append(queue, e) /\ d \in watched
    <3>1. e \in MadeEvents
      BY <1>6 DEF Event, MadeEvents
    <3>2. Announces(e, x) /\ \A q \in Paths : Announces(e, q) => q = x
      BY <1>2, <1>6, PathOfParts DEF Announces, Event
    <3>3. ParentOf(x) \in WatcherPaths
      BY <1>5, <1>6, <2>3 DEF InodesTell
    <3> HIDE DEF e
    <3> QED
      BY <1>3, <1>10, <2>3, <3>1, <3>2, <3>3, AnnouncedAppend DEF OnlyMade
  <2> QED
    BY <1>11, <2>1, <2>2, <2>3
<1>13. MoreListed /\ SamePlaces /\ NamesMore(x)
  BY <1>2, <1>3, AppearsFacts, UserPlaces
<1>14. /\ EnteredPaths' = EnteredPaths
       /\ NamedPaths \subseteq NamedPaths' /\ NamedPaths' \subseteq NamedPaths \cup {x}
       /\ x \in NamedPaths' => ParentOf(x) \in EnteredPaths
  BY <1>2, <1>3, <1>13, NamedMore
<1> QED
  BY <1>2, <1>4, <1>6, <1>7, <1>8, <1>9, <1>12, <1>13, <1>14

LEMMA UserOne ==
  ASSUME OneInv, OnlyMkdir, User
  PROVE  AllSeparate' /\ EventsOnce' /\ InodesTell' /\ FramesApart' /\ OneWatcherPerPath'
<1>1. PICK x \in Paths :
         /\ UNCHANGED <<pc, heap, live, batch, watched>>
         /\ MoreListed /\ SamePlaces
         /\ EnteredPaths' = EnteredPaths /\ NamedPaths' \subseteq NamedPaths \cup {x}
         /\ x \in NamedPaths' => ParentOf(x) \in EnteredPaths
         /\ x \notin DirPaths
         /\ dirs'[x][1] = x /\ \A p \in Paths : p # x => dirs'[p] = dirs[p]
         /\ DirPaths' = DirPaths \cup {x}
         /\ EachOnce(queue')
         /\ AnnouncedBy(queue') \subseteq AnnouncedBy(queue) \cup {x}
         /\ x \in AnnouncedBy(queue') => ParentOf(x) \in WatcherPaths
  BY UserIs
<1>2. AllSeparate /\ EventsOnce /\ InodesTell /\ FramesApart /\ OneWatcherPerPath
  BY UserIs DEF OneInv
<1>3. WatcherPaths' = WatcherPaths /\ EnteredPaths \subseteq DirPaths
  BY <1>1, <1>2 DEF WatcherPaths, AllSeparate, Separate
<1>4. x \notin AnnouncedBy(queue) /\ x \notin AnnouncedBy(batch)
  BY <1>1, <1>2 DEF AllSeparate, Separate
<1>5. AllSeparate'
  <2> DEFINE A == AnnouncedBy(queue) \cup AnnouncedBy(batch)
             B == AnnouncedBy(queue') \cup AnnouncedBy(batch)
  <2>1. Separate(WatcherPaths, EnteredPaths, NamedPaths, A, DirPaths)
    BY <1>2 DEF AllSeparate
  <2>2. B \subseteq A \cup {x} /\ (x \in B => ParentOf(x) \in WatcherPaths)
    BY <1>1, <1>4
  <2> HIDE DEF A, B
  <2>3. Separate(WatcherPaths, EnteredPaths, NamedPaths', B, DirPaths \cup {x})
    BY <1>1, <2>1, <2>2, SeparateMade
  <2> QED
    BY <1>1, <1>3, <2>3 DEF AllSeparate, B
<1>6. EventsOnce'
  BY <1>1, <1>2, <1>4 DEF EventsOnce
<1>7. InodesTell'
  BY <1>1, <1>2, <1>3 DEF InodesTell, DirPaths
<1>8. OneWatcherPerPath'
  BY <1>1, <1>2 DEF OneWatcherPerPath
<1>9. FramesApart'
  <2>1. /\ Len(frames') = Len(frames) /\ (frames = <<>> => frames' = <<>>)
        /\ \A k \in 1..Len(frames) :
             frames'[k].path = frames[k].path /\ frames'[k].shut = frames[k].shut
    BY <1>1 DEF MoreListed, SamePlaces
  <2>2. \A k \in 1..Len(frames) : dirs'[frames[k].path] = dirs[frames[k].path]
    BY <1>1, <1>3 DEF EnteredPaths, DirPaths
  <2> QED
    BY <1>1, <1>2, <2>1, <2>2 DEF FramesApart
<1> QED
  BY <1>5, <1>6, <1>7, <1>8, <1>9

\* Steps that move no watcher, leave the directories nftw() is in and announce no path anew.
Aside ==
  ReadEvents \/ WritePipe \/ ReadPipe \/ EndBatch \/ PassOver \/ ScanDone \/ UNCHANGED vars

LEMMA AsideIs ==
  ASSUME OneInv, Working, Aside
  PROVE  /\ UNCHANGED <<dirs, live, frames, watched, quiet>>
         /\ \A c \in live : heap'[c].path = heap[c].path /\ heap'[c].wd = heap[c].wd
         /\ WatcherPaths' = WatcherPaths /\ EnteredPaths' = EnteredPaths
         /\ NamedPaths' = NamedPaths /\ DirPaths' = DirPaths
         /\ EventsOnce'
         /\ AnnouncedBy(queue') \cup AnnouncedBy(batch') = AnnouncedBy(queue) \cup AnnouncedBy(batch)
         /\ pc' # "scan" => frames = <<>>
         /\ pc' = "scan" => UNCHANGED <<pc, stack, heap>>
<1>1. EventsOnce /\ FramesApart /\ Types /\ OnlyMade /\ PathInv /\ BatchDone
  BY DEF OneInv, MadeInv, PathInv, LinkInv
<1>2. UNCHANGED <<dirs, live, frames, watched, quiet>>
  BY DEF Aside, ReadEvents, WritePipe, ReadPipe, EndBatch, PassOver, ScanDone, vars, treeVars,
         fsVars, history
<1>3. \A c \in 1..Len(heap) : heap'[c].path = heap[c].path /\ heap'[c].wd = heap[c].wd
  <2>1. CASE UNCHANGED heap
    BY <2>1
  <2>2. CASE ScanDone /\ Len(stack) = 1 /\ root # Nil /\ heap' = LinkChild(heap, viewer, stack[1])
    <3>1. pc = "scan"
      BY <2>2 DEF ScanDone
    <3>2. viewer \in live /\ stack[1] \in live /\ 1 \in 1..Len(stack)
      BY <1>1, <2>2, <3>1, CellTypes DEF Types, Attached
    <3>3. PICK n \in Nat : viewer <= n /\ Apart(n)
      BY <1>1, <2>2, <3>1 DEF PathInv, LinkInv, ViewerOff
    <3>4. stack[1] > n /\ \A c \in live : ~Leads(heap, c, stack[1])
      BY <1>1, <3>2, <3>3 DEF Apart, PathInv, LinkInv, StackFree
    <3>5. stack[1] # viewer
      BY <1>1, <3>2, <3>3, <3>4, CellTypes
    <3> QED
      BY <1>1, <2>2, <3>2, <3>4, <3>5, LinkChildFacts DEF PathInv
  <2> QED
    BY <2>1, <2>2 DEF Aside, ReadEvents, WritePipe, ReadPipe, EndBatch, PassOver, ScanDone, Die,
                      vars, treeVars
<1>4. \A c \in live : heap'[c].path = heap[c].path /\ heap'[c].wd = heap[c].wd
  BY <1>1, <1>3, CellTypes
<1>5. /\ WatcherPaths' = WatcherPaths /\ EnteredPaths' = EnteredPaths
      /\ NamedPaths' = NamedPaths /\ DirPaths' = DirPaths
  BY <1>2, <1>4 DEF WatcherPaths, EnteredPaths, NamedPaths, DirPaths, IsDir
<1>6. /\ EventsOnce'
      /\ AnnouncedBy(queue') \cup AnnouncedBy(batch') = AnnouncedBy(queue) \cup AnnouncedBy(batch)
  <2>1. CASE UNCHANGED <<queue, batch>>
    BY <1>1, <2>1 DEF EventsOnce
  <2>2. CASE ReadEvents
    <3>1. batch = <<>> /\ AnnouncedBy(batch) = {}
      BY <1>1, <2>2 DEF ReadEvents, BatchDone, AnnouncedBy
    <3>2. queue \in Seq(MadeEvents) /\ EachOnce(queue)
      BY <1>1 DEF OnlyMade, EventsOnce
    <3>3. Len(queue) \in Nat
      BY <3>2, LenProperties
    <3>4. PICK r \in 1..Len(queue) :
             /\ Len(batch') = r /\ Len(queue') = Len(queue) - r
             /\ \A i \in 1..r : batch'[i] = queue[i]
             /\ \A i \in 1..Len(queue) - r : queue'[i] = queue[r + i]
      BY <2>2, <3>2, ReadFacts
    <3>5. \A i \in 1..Len(batch') : i \in 1..Len(queue) /\ i <= r /\ batch'[i] = queue[i]
      BY <3>3, <3>4
    <3>6. \A i \in 1..Len(queue') :
            r + i \in 1..Len(queue) /\ r + i > r /\ queue'[i] = queue[r + i]
      BY <3>3, <3>4
    <3>7. \A i \in 1..Len(queue) :
            \/ i \in 1..Len(batch')
            \/ i - r \in 1..Len(queue') /\ queue'[i - r] = queue[i]
      BY <3>3, <3>4, <3>6
    <3>8. EachOnce(batch') /\ EachOnce(queue')
      <4>1. EachOnce(batch')
        BY <3>2, <3>5 DEF EachOnce
      <4>2. \A i, j \in 1..Len(queue') : r + i = r + j => i = j
        BY <3>3, <3>4
      <4>3. EachOnce(queue')
        BY <3>2, <3>6, <4>2 DEF EachOnce
      <4> QED
        BY <4>1, <4>3
    <3>9. AnnouncedBy(queue') \cap AnnouncedBy(batch') = {}
      <4> SUFFICES ASSUME NEW q \in Paths, NEW i \in 1..Len(queue'), NEW j \in 1..Len(batch'),
                          Announces(queue'[i], q), Announces(batch'[j], q)
                   PROVE  FALSE
        BY DEF AnnouncedBy
      <4>1. r + i = j
        BY <3>2, <3>5, <3>6 DEF EachOnce
      <4> QED
        BY <3>3, <3>4, <3>5, <3>6, <4>1
    <3>10. AnnouncedBy(queue') \cup AnnouncedBy(batch') = AnnouncedBy(queue)
      <4>1. AnnouncedBy(queue') \cup AnnouncedBy(batch') \subseteq AnnouncedBy(queue)
        BY <3>5, <3>6 DEF AnnouncedBy
      <4>2. AnnouncedBy(queue) \subseteq AnnouncedBy(queue') \cup AnnouncedBy(batch')
        BY <3>5, <3>7 DEF AnnouncedBy
      <4> QED
        BY <4>1, <4>2
    <3> QED
      BY <3>1, <3>8, <3>9, <3>10 DEF EventsOnce
  <2>3. CASE PassOver
    <3>1. batch # <<>> /\ batch' = Tail(batch) /\ queue' = queue /\ Head(batch) = Overflow
      BY <2>3 DEF PassOver, Handling, Rest, Ev
    <3>2. \A q \in Paths : ~Announces(Overflow, q)
      BY DEF Overflow, Event, Announces
    <3>3. EachOnce(batch') /\ AnnouncedBy(batch') = AnnouncedBy(batch)
      <4>1. AnnouncedBy(batch) \subseteq Paths
        BY DEF AnnouncedBy
      <4>2. /\ EachOnce(batch') /\ AnnouncedBy(batch') \subseteq AnnouncedBy(batch)
            /\ \A q \in AnnouncedBy(batch) : q \in AnnouncedBy(batch') \/ Announces(Head(batch), q)
        BY <1>1, <3>1, AnnouncedTail DEF OnlyMade, EventsOnce
      <4>3. AnnouncedBy(batch) \subseteq AnnouncedBy(batch')
        BY <3>1, <3>2, <4>1, <4>2
      <4> QED
        BY <4>2, <4>3
    <3> QED
      BY <1>1, <3>1, <3>3 DEF EventsOnce
  <2> QED
    BY <2>1, <2>2, <2>3 DEF Aside, WritePipe, ReadPipe, EndBatch, ScanDone, vars
<1>7. pc' # "scan" => frames = <<>>
  <2>1. CASE ScanDone
    BY <2>1 DEF ScanDone
  <2>2. CASE ~ScanDone
    <3>1. pc' # "scan" => pc # "scan"
      BY <2>2 DEF Aside, ReadEvents, WritePipe, ReadPipe, EndBatch, PassOver, Handling, vars
    <3> QED
      BY <1>1, <3>1 DEF FramesApart
  <2> QED
    BY <2>1, <2>2
<1>8. pc' = "scan" => UNCHANGED <<pc, stack, heap>>
  BY DEF Aside, ReadEvents, WritePipe, ReadPipe, EndBatch, PassOver, Handling, ScanDone, Die, vars,
         treeVars
<1> QED
  BY <1>2, <1>4, <1>5, <1>6, <1>7, <1>8

LEMMA AsideOne ==
  ASSUME OneInv, Working, Aside
  PROVE  AllSeparate' /\ EventsOnce' /\ InodesTell' /\ FramesApart' /\ OneWatcherPerPath'
<1>1. AllSeparate /\ EventsOnce /\ InodesTell /\ FramesApart /\ OneWatcherPerPath
  BY DEF OneInv
<1>2. /\ UNCHANGED <<dirs, live, frames, watched>>
      /\ \A c \in live : heap'[c].path = heap[c].path /\ heap'[c].wd = heap[c].wd
      /\ WatcherPaths' = WatcherPaths /\ EnteredPaths' = EnteredPaths
      /\ NamedPaths' = NamedPaths /\ DirPaths' = DirPaths
      /\ EventsOnce'
      /\ AnnouncedBy(queue') \cup AnnouncedBy(batch') = AnnouncedBy(queue) \cup AnnouncedBy(batch)
      /\ pc' # "scan" => frames = <<>>
  BY AsideIs
<1>3. AllSeparate'
  BY <1>1, <1>2 DEF AllSeparate
<1>4. InodesTell' /\ FramesApart' /\ OneWatcherPerPath'
  BY <1>1, <1>2 DEF InodesTell, FramesApart, OneWatcherPerPath
<1> QED
  BY <1>2, <1>3, <1>4

\* The directories in x are named when it has been entered and listed.
LEMMA ListedNames ==
  \A x \in Paths, q \in Paths :
    q # Root /\ ParentOf(q) = x /\ NameOf(q) \in Listed(x).todo <=> q \in DirsIn(DirPaths, x)
<1> TAKE x \in Paths, q \in Paths
<1>1. ASSUME q # Root, ParentOf(q) = x
      PROVE  q # x /\ (NameOf(q) \in Listed(x).todo <=> q \in DirPaths)
  <2>1. Append(x, NameOf(q)) = q /\ NameOf(q) \in Names
    BY <1>1, AppendParts, NameOfPath
  <2>2. q # x
    BY <1>1, ParentFacts
  <2> QED
    BY <2>1, <2>2 DEF Listed, Subdirs, DirPaths
<1> QED
  BY <1>1 DEF DirsIn

\* A scan begins at x, which the event at hand announced.
LEMMA HandleCreateIs ==
  ASSUME OneInv, Working', HandleCreate
  PROVE  \E x \in Paths :
           /\ x \in AnnouncedBy(batch)
           /\ UNCHANGED <<dirs, watched, queue, quiet, heap, live, stack>> /\ pc' = "scan"
           /\ x \in DirPaths /\ \E f \in Opened(x) : frames' = <<f>>
           /\ Len(frames') = 1 /\ frames'[1].path = x /\ frames'[1].shut \in {None, dirs[x]}
           /\ EnteredPaths = {} /\ NamedPaths = {}
           /\ EnteredPaths' = {x} /\ NamedPaths' \subseteq DirsIn(DirPaths, x)
           /\ frames'[1].shut = None => NamedPaths' = DirsIn(DirPaths, x)
           /\ AnnouncedBy(batch') = AnnouncedBy(batch) \ {x} /\ EachOnce(batch')
<1>1. /\ pc = "handle" /\ batch # <<>> /\ EvViewer # Nil /\ Ev.kind = "create"
      /\ UNCHANGED <<dirs, watched, queue, quiet, heap, live, stack>> /\ batch' = Tail(batch)
      /\ EvPath \in Paths /\ IsDir(EvPath) /\ frames' \in {<<f>> : f \in Opened(EvPath)}
      /\ pc' = "scan"
  BY DEF HandleCreate, Handling, Rest, Die, Working, fsVars, treeVars, history
<1>2. EventsOnce /\ InodesTell /\ FramesApart /\ Types /\ FsTypes /\ OnlyMade
  BY <1>1, TypesParts DEF OneInv, Working, MadeInv, PathInv, LinkInv
<1> DEFINE x == EvPath
<1>3. x # Root /\ ParentOf(x) = Ev.wd[1] /\ NameOf(x) = Ev.name
  <2>1. EvViewer \in live /\ heap[EvViewer].wd = Ev.wd /\ heap[EvViewer].path \in Paths
    BY <1>1, <1>2, SearchFinds, CellTypes DEF EvViewer
  <2>2. x # Root /\ ParentOf(x) = heap[EvViewer].path /\ NameOf(x) = Ev.name
    BY <1>1, <2>1, PathOfName, NameOfAppend DEF EvPath
  <2>3. Ev.wd # None
    <3>1. Ev \in MadeEvents
      BY <1>1, <1>2, HeadTailProperties DEF Ev, OnlyMade
    <3> QED
      BY <1>1, <3>1 DEF MadeEvents
  <2> QED
    BY <1>2, <2>1, <2>2, <2>3 DEF InodesTell
<1> HIDE DEF x
<1>4. x \in Paths /\ Announces(Head(batch), x) /\ \A q \in Paths : Announces(Head(batch), q) => q = x
  BY <1>1, <1>3, PathOfParts DEF Announces, Ev, x
<1>5. /\ EachOnce(batch') /\ x \in AnnouncedBy(batch)
      /\ AnnouncedBy(batch') = AnnouncedBy(batch) \ {x}
  <2>1. AnnouncedBy(batch) \subseteq Paths
    BY DEF AnnouncedBy
  <2> QED
    BY <1>1, <1>2, <1>4, <2>1, AnnouncedTail DEF OnlyMade, EventsOnce
<1>6. EnteredPaths = {} /\ NamedPaths = {}
  BY <1>1, <1>2 DEF FramesApart, EnteredPaths, NamedPaths
<1>7. PICK f \in Opened(x) : frames' = <<f>>
  BY <1>1 DEF x
<1>8. /\ Len(frames') = 1 /\ frames'[1] = f /\ f.path = x /\ f.shut \in {None, dirs[x]}
      /\ f.todo \subseteq Subdirs(x) /\ (f = Listed(x) \/ f.shut = dirs[x])
  BY <1>2, <1>4, <1>7, OpenedFacts
<1>9. x \in DirPaths /\ dirs[x] # None
  BY <1>1, <1>4 DEF DirPaths, IsDir, x
<1>10. EnteredPaths' = {x}
  BY <1>8 DEF EnteredPaths
<1>11. /\ NamedPaths' \subseteq DirsIn(DirPaths, x)
       /\ f.shut = None => NamedPaths' = DirsIn(DirPaths, x)
  <2>1. \A q \in Paths : q \in NamedPaths' <=> q # Root /\ ParentOf(q) = x /\ NameOf(q) \in f.todo
    BY <1>8 DEF NamedPaths
  <2>2. NamedPaths' \subseteq Paths /\ DirsIn(DirPaths, x) \subseteq Paths
    BY DEF NamedPaths, DirsIn, DirPaths
  <2>3. f.todo \subseteq Listed(x).todo /\ (f.shut = None => f.todo = Listed(x).todo)
    BY <1>8, <1>9 DEF Listed
  <2> QED
    BY <1>4, <2>1, <2>2, <2>3, ListedNames
<1> QED
  BY <1>1, <1>4, <1>5, <1>6, <1>7, <1>8, <1>9, <1>10, <1>11

LEMMA HandleCreateOne ==
  ASSUME OneInv, Working', HandleCreate
  PROVE  AllSeparate' /\ EventsOnce' /\ InodesTell' /\ FramesApart' /\ OneWatcherPerPath'
<1>1. PICK x \in Paths :
         /\ x \in AnnouncedBy(batch)
         /\ UNCHANGED <<dirs, watched, queue, heap, live>> /\ pc' = "scan"
         /\ Len(frames') = 1 /\ frames'[1].path = x /\ frames'[1].shut \in {None, dirs[x]}
         /\ EnteredPaths = {} /\ NamedPaths = {}
         /\ EnteredPaths' = {x} /\ NamedPaths' \subseteq DirsIn(DirPaths, x)
         /\ AnnouncedBy(batch') = AnnouncedBy(batch) \ {x} /\ EachOnce(batch')
  BY HandleCreateIs
<1>2. AllSeparate /\ EventsOnce /\ InodesTell /\ OneWatcherPerPath
  BY DEF HandleCreate, Handling, OneInv, Working
<1>3. AllSeparate'
  <2> DEFINE A == AnnouncedBy(queue) \cup AnnouncedBy(batch)
             B == AnnouncedBy(queue) \cup AnnouncedBy(batch')
  <2>1. Separate(WatcherPaths, EnteredPaths, NamedPaths, A, DirPaths)
    BY <1>2 DEF AllSeparate
  <2>2. x \in A /\ B \subseteq A \ {x}
    BY <1>1, <1>2 DEF EventsOnce
  <2> HIDE DEF A, B
  <2>3. Separate(WatcherPaths, EnteredPaths \cup {x}, NamedPaths', B, DirPaths)
    BY <1>1, <2>1, <2>2, SeparateEntered
  <2>4. EnteredPaths \cup {x} = EnteredPaths'
    BY <1>1
  <2>5. WatcherPaths' = WatcherPaths /\ DirPaths' = DirPaths
    BY <1>1 DEF WatcherPaths, DirPaths, IsDir
  <2> QED
    BY <1>1, <2>3, <2>4, <2>5 DEF AllSeparate, B
<1>4. EventsOnce'
  BY <1>1, <1>2 DEF EventsOnce
<1>5. InodesTell' /\ OneWatcherPerPath'
  BY <1>1, <1>2 DEF InodesTell, OneWatcherPerPath, WatcherPaths, DirPaths, IsDir
<1>6. FramesApart'
  BY <1>1 DEF FramesApart
<1> QED
  BY <1>3, <1>4, <1>5, <1>6

\* nftw() enters x, which was named.
LEMMA ScanEnterIs ==
  ASSUME OneInv, NEW n \in Names, ScanEnter(n), Working'
  PROVE  \E x \in Paths :
           /\ x \in NamedPaths
           /\ UNCHANGED <<dirs, watched, queue, batch, quiet, heap, live, stack, pc>>
           /\ Len(frames) \in Nat \ {0}
           /\ Len(frames') = Len(frames) + 1 /\ frames'[Len(frames) + 1].path = x
           /\ frames'[Len(frames) + 1].shut \in {None, dirs[x]}
           /\ \A k \in 1..Len(frames) :
                frames'[k].path = frames[k].path /\ frames'[k].shut = frames[k].shut
           /\ EnteredPaths' = EnteredPaths \cup {x}
           /\ NamedPaths \ {x} \subseteq NamedPaths'
           /\ NamedPaths' \subseteq (NamedPaths \ {x}) \cup DirsIn(DirPaths, x)
           /\ frames'[Len(frames) + 1].shut = None => DirsIn(DirPaths, x) \subseteq NamedPaths'
<1> DEFINE x == Append(Top.path, n)
           L == Len(frames)
<1>1. /\ pc = "scan" /\ frames # <<>> /\ n \in Top.todo
      /\ UNCHANGED <<dirs, watched, queue, batch, quiet>>
  BY DEF ScanEnter, fsVars, history
<1>2. AllSeparate /\ FramesApart /\ Types /\ FsTypes
  BY <1>1, TypesParts DEF OneInv, Working, MadeInv, PathInv, LinkInv
<1>3. /\ L \in Nat \ {0} /\ L \in 1..L /\ Top = frames[L] /\ Top.path \in Paths /\ x \in Paths
  BY <1>1, <1>2, TopFacts DEF Top
<1>4. x # Root /\ ParentOf(x) = Top.path /\ NameOf(x) = n
  BY <1>3, PathOfName, NameOfAppend
<1>5. /\ NameTaken(n) \in Seq(Frames) /\ Len(NameTaken(n)) = L
      /\ \A k \in 1..L : /\ NameTaken(n)[k].path = frames[k].path
                         /\ NameTaken(n)[k].shut = frames[k].shut
                         /\ NameTaken(n)[k].todo \subseteq frames[k].todo
                         /\ NameTaken(n)[k].todo = IF k = L THEN Top.todo \ {n} ELSE frames[k].todo
  BY <1>1, <1>2, NameTakenFacts
<1> HIDE DEF x
<1>6. x \in NamedPaths
  BY <1>1, <1>3, <1>4 DEF NamedPaths
<1>7. x \in DirPaths /\ dirs[x] # None
  BY <1>2, <1>6 DEF AllSeparate, Separate, DirPaths, IsDir
<1>8. PICK f \in Opened(x) : frames' = Append(NameTaken(n), f) /\ UNCHANGED <<pc, heap, live, stack>>
  BY <1>7 DEF ScanEnter, x, DirPaths, NameTaken, treeVars
<1>16. /\ f \in Frames /\ f.path = x /\ f.shut \in {None, dirs[x]}
       /\ f.todo \subseteq Listed(x).todo /\ (f.shut = None => f.todo = Listed(x).todo)
  <2>1. /\ f \in Frames /\ f.path = x /\ f.shut \in {None, dirs[x]}
        /\ f.todo \subseteq Subdirs(x) /\ (f = Listed(x) \/ f.shut = dirs[x])
    BY <1>2, <1>3, <1>8, OpenedFacts
  <2> QED
    BY <1>7, <2>1 DEF Listed
<1>9. /\ Len(frames') = L + 1 /\ frames'[L + 1] = f
      /\ \A k \in 1..L : frames'[k] = NameTaken(n)[k]
  BY <1>3, <1>5, <1>8, <1>16, AppendProperties
<1>10. \A k \in 1..L + 1 : k \in 1..L \/ k = L + 1
  BY <1>3
<1>11. 1..L \subseteq 1..L + 1 /\ L + 1 \in 1..L + 1
  BY <1>3
<1>12. EnteredPaths' = EnteredPaths \cup {x}
  <2>1. EnteredPaths' \subseteq EnteredPaths \cup {x}
    BY <1>5, <1>9, <1>10, <1>16 DEF EnteredPaths
  <2> QED
    BY <1>5, <1>9, <1>11, <1>16, <2>1 DEF EnteredPaths
<1>13. NamedPaths' \subseteq (NamedPaths \ {x}) \cup DirsIn(DirPaths, x)
  <2> SUFFICES ASSUME NEW q \in NamedPaths'
               PROVE  (q \in NamedPaths /\ q # x) \/ q \in DirsIn(DirPaths, x)
    OBVIOUS
  <2>1. q \in Paths /\ q # Root
    BY DEF NamedPaths
  <2>2. PICK k \in 1..L + 1 : ParentOf(q) = frames'[k].path /\ NameOf(q) \in frames'[k].todo
    BY <1>9 DEF NamedPaths
  <2>3. CASE k \in 1..L
    <3>1. ParentOf(q) = frames[k].path /\ NameOf(q) \in frames[k].todo
      BY <1>5, <1>9, <2>2, <2>3
    <3>2. q # x
      <4> SUFFICES ASSUME q = x PROVE FALSE
        OBVIOUS
      <4>1. k = L
        BY <1>2, <1>3, <1>4, <2>3, <3>1 DEF FramesApart
      <4> QED
        BY <1>4, <1>5, <1>9, <2>2, <2>3, <4>1
    <3> QED
      BY <2>1, <2>3, <3>1, <3>2 DEF NamedPaths
  <2>4. CASE k = L + 1
    BY <1>3, <1>9, <1>16, <2>1, <2>2, <2>4, ListedNames
  <2> QED
    BY <1>10, <2>3, <2>4
<1>14. NamedPaths \ {x} \subseteq NamedPaths'
  <2> SUFFICES ASSUME NEW q \in NamedPaths, q # x
               PROVE  q \in NamedPaths'
    OBVIOUS
  <2>1. q \in Paths /\ q # Root
    BY DEF NamedPaths
  <2>2. PICK k \in 1..L : ParentOf(q) = frames[k].path /\ NameOf(q) \in frames[k].todo
    BY DEF NamedPaths
  <2>3. NameOf(q) \in frames'[k].todo
    <3>1. CASE k = L
      <4>1. NameOf(q) # n
        BY <1>3, <1>4, <2>1, <2>2, <3>1, PathOfParts
      <4> QED
        BY <1>3, <1>5, <1>9, <2>2, <3>1, <4>1
    <3>2. CASE k # L
      BY <1>5, <1>9, <2>2, <3>2
    <3> QED
      BY <3>1, <3>2
  <2> QED
    BY <1>5, <1>9, <1>11, <2>1, <2>2, <2>3 DEF NamedPaths
<1>15. f.shut = None => DirsIn(DirPaths, x) \subseteq NamedPaths'
  <2> SUFFICES ASSUME f.shut = None, NEW q \in DirsIn(DirPaths, x)
               PROVE  q \in NamedPaths'
    OBVIOUS
  <2>1. q \in Paths
    BY DEF DirsIn, DirPaths
  <2>2. q # Root /\ ParentOf(q) = x /\ NameOf(q) \in Listed(x).todo
    BY <1>3, <2>1, ListedNames
  <2> QED
    BY <1>9, <1>11, <1>16, <2>1, <2>2 DEF NamedPaths
<1> QED
  BY <1>1, <1>3, <1>5, <1>6, <1>8, <1>9, <1>12, <1>13, <1>14, <1>15, <1>16

LEMMA ScanEnterOne ==
  ASSUME OneInv, NEW n \in Names, ScanEnter(n), Working'
  PROVE  AllSeparate' /\ EventsOnce' /\ InodesTell' /\ FramesApart' /\ OneWatcherPerPath'
<1>1. PICK x \in Paths :
         /\ x \in NamedPaths
         /\ UNCHANGED <<dirs, watched, queue, batch, heap, live, pc>>
         /\ Len(frames) \in Nat \ {0}
         /\ Len(frames') = Len(frames) + 1 /\ frames'[Len(frames) + 1].path = x
         /\ frames'[Len(frames) + 1].shut \in {None, dirs[x]}
         /\ \A k \in 1..Len(frames) :
              frames'[k].path = frames[k].path /\ frames'[k].shut = frames[k].shut
         /\ EnteredPaths' = EnteredPaths \cup {x}
         /\ NamedPaths' \subseteq (NamedPaths \ {x}) \cup DirsIn(DirPaths, x)
  BY ScanEnterIs
<1>2. /\ pc = "scan"
      /\ AllSeparate /\ EventsOnce /\ InodesTell /\ FramesApart /\ OneWatcherPerPath
  BY DEF ScanEnter, OneInv, Working
<1>3. AllSeparate'
  <2> DEFINE A == AnnouncedBy(queue) \cup AnnouncedBy(batch)
  <2>1. Separate(WatcherPaths, EnteredPaths, NamedPaths, A, DirPaths) /\ A \subseteq A \ {x}
    BY <1>1, <1>2 DEF AllSeparate, Separate
  <2> HIDE DEF A
  <2>2. Separate(WatcherPaths, EnteredPaths \cup {x}, NamedPaths', A, DirPaths)
    BY <1>1, <2>1, SeparateEntered
  <2>3. WatcherPaths' = WatcherPaths /\ DirPaths' = DirPaths
    BY <1>1 DEF WatcherPaths, DirPaths, IsDir
  <2> QED
    BY <1>1, <2>2, <2>3 DEF AllSeparate, A
<1>4. EventsOnce' /\ InodesTell' /\ OneWatcherPerPath'
  BY <1>1, <1>2 DEF EventsOnce, InodesTell, OneWatcherPerPath, WatcherPaths, DirPaths, IsDir
<1>5. FramesApart'
  <2> DEFINE L == Len(frames)
  <2>1. \A k \in 1..L : frames[k].path # x
    BY <1>1, <1>2 DEF AllSeparate, Separate, EnteredPaths
  <2>2. \A k \in 1..L + 1 : k \in 1..L \/ k = L + 1
    BY <1>1
  <2>3. \A i, j \in 1..L + 1 : frames'[i].path = frames'[j].path => i = j
    <3> TAKE i, j \in 1..L + 1
    <3> HAVE frames'[i].path = frames'[j].path
    <3>1. CASE i \in 1..L /\ j \in 1..L
      BY <1>1, <1>2, <3>1 DEF FramesApart
    <3>2. CASE i = L + 1 \/ j = L + 1
      BY <1>1, <2>1, <2>2, <3>2
    <3> QED
      BY <2>2, <3>1, <3>2
  <2>4. \A k \in 1..L + 1 : frames'[k].shut \in {None, dirs[frames'[k].path]}
    BY <1>1, <1>2, <2>2 DEF FramesApart
  <2> QED
    BY <1>1, <1>2, <2>3, <2>4 DEF FramesApart
<1> QED
  BY <1>3, <1>4, <1>5

\* nftw() leaves x, and x has its watcher.
LEMMA ScanLeaveIs ==
  ASSUME OneInv, AllShown, ScanLeave
  PROVE  \E x \in Paths, r \in Nat, w \in Nat, d \in Inodes :
           /\ x \in EnteredPaths
           /\ UNCHANGED <<dirs, queue, batch, quiet, pc>>
           /\ d \in {None, dirs[x]} /\ (frames[r + 1].shut = dirs[x] => d = None)
           /\ watched' = watched \cup ({d} \ {None})
           /\ live' = live \cup {w} /\ heap'[w].path = x /\ heap'[w].wd = d
           /\ \A c \in live : heap'[c].path = heap[c].path /\ heap'[c].wd = heap[c].wd
           /\ stack'[Len(stack')] = w
           /\ Len(frames) = r + 1 /\ Len(frames') = r /\ \A k \in 1..r : frames'[k] = frames[k]
           /\ frames[r + 1].path = x
           /\ WatcherPaths' = WatcherPaths \cup {x}
           /\ EnteredPaths' = EnteredPaths \ {x} /\ NamedPaths' = NamedPaths
<1> DEFINE x == Top.path
           w == Len(heap) + 1
<1>0. PICK d \in AddWatch(Top) :
         /\ pc = "scan" /\ frames # <<>> /\ Top.todo = {}
         /\ UNCHANGED <<dirs, queue, batch, quiet, pc>>
         /\ Insert(x, d, Len(frames) - 1)
         /\ watched' = watched \cup ({d} \ {None})
         /\ frames' = SubSeq(frames, 1, Len(frames) - 1)
  BY NoneHidden DEF ScanLeave, fsVars, history
<1>1. /\ pc = "scan" /\ frames # <<>> /\ Top.todo = {}
      /\ UNCHANGED <<dirs, queue, batch, quiet, pc>>
      /\ Insert(x, d, Len(frames) - 1)
      /\ watched' = watched \cup ({d} \ {None})
      /\ frames' = SubSeq(frames, 1, Len(frames) - 1)
  BY <1>0
<1>2. FramesApart /\ Types /\ FsTypes
  BY <1>1, TypesParts DEF OneInv, Working, MadeInv, PathInv, LinkInv
<1>3. PICK r \in Nat : /\ r = Len(frames) - 1 /\ r + 1 = Len(frames) /\ r \in 0..MaxDepth
                       /\ x \in Paths /\ Top = frames[r + 1] /\ r + 1 \in 1..Len(frames)
  BY <1>1, <1>2, TopFacts DEF Top
<1>4. d \in Inodes /\ d \in {None, dirs[x]} /\ (frames[r + 1].shut = dirs[x] => d = None)
  <2>1. Top \in Frames
    BY <1>1, <1>2, TopFacts
  <2>2. d \in Inodes /\ d \in {dirs[Top.path], None} /\ (Top.shut = dirs[Top.path] => d = None)
    BY <1>2, <2>1, AddWatchFacts
  <2> QED
    BY <1>3, <2>2
<1>5. x \in EnteredPaths
  BY <1>3 DEF EnteredPaths
<1>6. /\ w \in Nat /\ live \subseteq 1..Len(heap)
      /\ live' = live \cup {w} /\ heap'[w].path = x /\ heap'[w].wd = d
      /\ stack'[Len(stack')] = w
      /\ \A c \in 1..Len(heap) : heap'[c].path = heap[c].path /\ heap'[c].wd = heap[c].wd
  <2>1. Insert(x, d, r)
    BY <1>1, <1>3
  <2>2. PICK k \in 0..Len(stack) :
           Inserted(x, d, r, k) /\ heap'[w].path = x /\ heap'[w].wd = d
    BY <1>2, <1>3, <1>4, <2>1, InsertLeads
  <2>3. /\ Len(heap) \in Nat /\ w \in Nat /\ live \subseteq 1..Len(heap)
        /\ \A c \in 1..Len(heap) : heap[c] \in Watchers
    BY <1>2, CellTypes
  <2>4. \A y \in Watchers : \A v : LET z == [y EXCEPT !.prev = v] IN z.path = y.path /\ z.wd = y.wd
    BY DEF Watchers
  <2>5. \A c \in 1..Len(heap) : heap'[c] = heap[c] \/ heap'[c] = [heap[c] EXCEPT !.prev = w]
    BY <2>2 DEF Inserted
  <2>6. \A c \in 1..Len(heap) : heap'[c].path = heap[c].path /\ heap'[c].wd = heap[c].wd
    <3> HIDE DEF w
    <3> TAKE c \in 1..Len(heap)
    <3> DEFINE y == heap[c]
               z == [y EXCEPT !.prev = w]
    <3>1. y \in Watchers /\ (heap'[c] = y \/ heap'[c] = z)
      BY <2>3, <2>5
    <3>2. z.path = y.path /\ z.wd = y.wd
      BY <2>4, <3>1
    <3> HIDE DEF z
    <3> QED
      BY <3>1, <3>2
  <2> QED
    BY <2>2, <2>3, <2>6 DEF Inserted
<1>7. Len(frames') = r /\ \A k \in 1..r : frames'[k] = frames[k]
  <2>1. frames \in Seq(Frames)
    BY <1>2, TypesParts DEF Walking
  <2>2. \A k \in 1..r : frames[k] \in Frames
    BY <1>3, <2>1, ElementOfSeq
  <2> QED
    BY <1>1, <1>3, <2>1, <2>2, SubSeqProperties
<1>8. frames[r + 1].path = x
  BY <1>3
<1> HIDE DEF x, w
<1>9. \A c \in live : heap'[c].path = heap[c].path /\ heap'[c].wd = heap[c].wd
  BY <1>6
<1>10. WatcherPaths' = WatcherPaths \cup {x}
  <2>1. \A q : q \in WatcherPaths' <=> \E c \in live' : q = heap'[c].path
    BY DEF WatcherPaths
  <2>2. \A q : q \in WatcherPaths <=> \E c \in live : q = heap[c].path
    BY DEF WatcherPaths
  <2>3. w \in live' /\ \A c : c \in live' <=> c \in live \/ c = w
    BY <1>6
  <2>4. \A q : (\E c \in live' : q = heap'[c].path) => (\E c \in live : q = heap[c].path) \/ q = x
    BY <1>6, <1>9, <2>3
  <2>5. \A q : (\E c \in live : q = heap[c].path) \/ q = x => (\E c \in live' : q = heap'[c].path)
    BY <1>6, <1>9, <2>3
  <2>6. \A q : q \in WatcherPaths' <=> q \in WatcherPaths \cup {x}
    BY <2>1, <2>2, <2>4, <2>5
  <2> QED
    BY <2>6
<1>11. \A k \in 1..Len(frames) : k \in 1..r \/ k = r + 1
  BY <1>3
<1>12. 1..r \subseteq 1..Len(frames) /\ \A k \in 1..r : k # r + 1
  BY <1>3
<1>13. EnteredPaths' = EnteredPaths \ {x}
  <2>1. \A k \in 1..r : frames[k].path # x
    BY <1>2, <1>3, <1>8, <1>12 DEF FramesApart
  <2> QED
    BY <1>7, <1>8, <1>11, <1>12, <2>1 DEF EnteredPaths
<1>14. NamedPaths' = NamedPaths
  BY <1>1, <1>3, <1>7, <1>11, <1>12 DEF NamedPaths
<1>15. x \in Paths /\ r + 1 = Len(frames)
  BY <1>3 DEF x
<1> QED
  BY <1>1, <1>4, <1>5, <1>6, <1>7, <1>8, <1>9, <1>10, <1>13, <1>14, <1>15

LEMMA ScanLeaveOne ==
  ASSUME OneInv, AllShown, ScanLeave
  PROVE  AllSeparate' /\ EventsOnce' /\ InodesTell' /\ FramesApart' /\ OneWatcherPerPath'
<1>1. PICK x \in Paths, r \in Nat, w \in Nat, d \in Inodes :
         /\ x \in EnteredPaths
         /\ UNCHANGED <<dirs, queue, batch, pc>>
         /\ d \in {None, dirs[x]}
         /\ watched' = watched \cup ({d} \ {None})
         /\ live' = live \cup {w} /\ heap'[w].path = x /\ heap'[w].wd = d
         /\ \A c \in live : heap'[c].path = heap[c].path /\ heap'[c].wd = heap[c].wd
         /\ Len(frames) = r + 1 /\ Len(frames') = r /\ \A k \in 1..r : frames'[k] = frames[k]
         /\ WatcherPaths' = WatcherPaths \cup {x}
         /\ EnteredPaths' = EnteredPaths \ {x} /\ NamedPaths' = NamedPaths
  BY ScanLeaveIs
<1>2. /\ pc = "scan"
      /\ AllSeparate /\ EventsOnce /\ InodesTell /\ FramesApart /\ OneWatcherPerPath
  BY DEF ScanLeave, OneInv, Working
<1>3. x \notin WatcherPaths /\ x \in DirPaths /\ dirs[x][1] = x
  BY <1>1, <1>2 DEF AllSeparate, Separate, InodesTell
<1>4. DirPaths' = DirPaths
  BY <1>1 DEF DirPaths, IsDir
<1>5. AllSeparate'
  BY <1>1, <1>2, <1>4, SeparateLeft DEF AllSeparate
<1>6. EventsOnce'
  BY <1>1, <1>2 DEF EventsOnce
<1>7. InodesTell'
  <2>1. \A p \in DirPaths' : dirs'[p][1] = p
    BY <1>1, <1>2, <1>4 DEF InodesTell
  <2>2. \A c \in live' : heap'[c].wd # None => heap'[c].wd[1] = heap'[c].path
    BY <1>1, <1>2, <1>3 DEF InodesTell
  <2>3. \A e \in watched' : e[1] \in WatcherPaths'
    BY <1>1, <1>2, <1>3 DEF InodesTell
  <2> QED
    BY <2>1, <2>2, <2>3 DEF InodesTell
<1>8. FramesApart'
  <2>1. \A i, j \in 1..r : frames'[i].path = frames'[j].path => i = j
    BY <1>1, <1>2 DEF FramesApart
  <2> QED
    BY <1>1, <1>2, <2>1 DEF FramesApart
<1>9. OneWatcherPerPath'
  <2>1. \A c \in live : heap'[c].path # x
    BY <1>1, <1>3 DEF WatcherPaths
  <2>2. \A c, e \in live : heap'[c].path = heap'[e].path => c = e
    BY <1>1, <1>2 DEF OneWatcherPerPath
  <2> QED
    BY <1>1, <2>1, <2>2 DEF OneWatcherPerPath
<1> QED
  BY <1>5, <1>6, <1>7, <1>8, <1>9

\* Once the thread is removing watchers or has ended, none is made.
LEMMA EndedOne ==
  ASSUME OneInv, OnlyMkdir, [Next]_vars, ~Working'
  PROVE  OneWatcherPerPath'
<1>1. OneWatcherPerPath /\ Types /\ MadeInv
  BY DEF OneInv, MadeInv, PathInv, LinkInv
<1>2. pc' \in {"remove", "cleanup", "swept", "failed", "undefined"}
  <2>1. Types'
    BY <1>1, StepTypes
  <2> QED
    BY <2>1 DEF Types, TypeOK, Working
<1>3. /\ live' \subseteq live
      /\ \A c \in live' : heap'[c].path = heap[c].path
  <2>1. CASE UNCHANGED <<heap, live>>
    BY <2>1
  <2>2. CASE RemoveStep
    <3>1. CASE UNCHANGED <<heap, live>>
      BY <3>1
    <3>2. CASE Head(work).cell \in live /\ heap[Head(work).cell].prev \in live \cup {Nil} /\ Free(Head(work).cell)
      BY <1>1, <3>2, FreeFacts, CellTypes
    <3> QED
      BY <2>2, <3>1, <3>2, RemoveCases DEF RemoveCase
  <2>3. CASE ~RemoveStep
    <3>1. CASE User
      BY <2>1, <3>1, UserLeaves
    <3>2. CASE \E n \in Names : ScanEnter(n)
      <4>1. pc = "scan" /\ (UNCHANGED pc \/ UNCHANGED treeVars)
        BY <3>2 DEF ScanEnter
      <4> QED
        BY <1>2, <2>1, <4>1 DEF treeVars
    <3>3. ~ScanLeave
      BY <1>2 DEF ScanLeave
    <3>4. CASE ScanDone
      BY <1>2, <2>1, <3>4 DEF ScanDone, Die
    <3>5. CASE ReadEvents \/ WritePipe \/ HandleUnknown \/ PassOver \/ HandleCreate \/ HandleDelete
               \/ RemoveDone \/ EndBatch \/ CleanupDone \/ ReadPipe \/ CallCleanup \/ UNCHANGED vars
      BY <2>1, <3>5 DEF ReadEvents, WritePipe, HandleUnknown, PassOver, HandleCreate, HandleDelete,
                        RemoveDone, EndBatch, CleanupDone, ReadPipe, CallCleanup, vars, treeVars
    <3> QED
      BY <2>3, <3>1, <3>2, <3>3, <3>4, <3>5 DEF Next, Thread
  <2> QED
    BY <2>2, <2>3
<1> QED
  BY <1>1, <1>3 DEF OneWatcherPerPath

\* When the thread works on, so it did before: nothing brings it back.
LEMMA WorkedOn ==
  ASSUME OneInv, OnlyMkdir, [Next]_vars, Working'
  PROVE  /\ Working
         /\ ~RemoveStep /\ ~RemoveDone /\ ~HandleDelete /\ ~HandleUnknown
         /\ ~CleanupDone /\ ~CallCleanup
<1>1. OnlyMade /\ Types
  BY DEF OneInv, MadeInv, PathInv, LinkInv
<1>2. ~RemoveDone /\ ~HandleUnknown /\ ~CleanupDone /\ ~CallCleanup
  BY <1>1 DEF RemoveDone, HandleUnknown, CleanupDone, CallCleanup, Die, Working, OnlyMade
<1>3. ~RemoveStep
  BY <1>1, RemoveCases DEF RemoveCase, Working, OnlyMade
<1>4. ~HandleDelete
  BY DEF HandleDelete, Die, Working
<1>5. Working
  <2>1. CASE User \/ UNCHANGED vars \/ ReadPipe
    BY <2>1, UserLeaves DEF vars, ReadPipe, Working
  <2>2. CASE Thread
    BY <1>2, <1>3, <1>4, <2>2
       DEF Thread, ScanEnter, ScanLeave, ScanDone, ReadEvents, WritePipe, PassOver, HandleCreate,
           Handling, EndBatch, Working
  <2> QED
    BY <1>2, <2>1, <2>2 DEF Next
<1> QED
  BY <1>2, <1>3, <1>4, <1>5

LEMMA StepBatch ==
  ASSUME Types, BatchDone, [Next]_vars
  PROVE  BatchDone'
<1>1. root = Nil => pc \in {"scan", "failed"}
  BY DEF Types, Attached
<1>2. CASE User
  BY <1>2, UserLeaves DEF BatchDone
<1>3. CASE PassOver \/ HandleCreate \/ HandleDelete
  BY <1>1, <1>3 DEF PassOver, HandleCreate, HandleDelete, Handling, Die, BatchDone, treeVars
<1>4. CASE ReadEvents
  BY <1>1, <1>4 DEF ReadEvents, BatchDone
<1>5. CASE ScanDone
  BY <1>5 DEF ScanDone, Die, BatchDone
<1>6. CASE RemoveStep
  BY <1>6, RemoveCases DEF RemoveCase, BatchDone
<1>7. CASE \/ WritePipe \/ ReadPipe \/ RemoveDone \/ EndBatch \/ CleanupDone \/ CallCleanup
           \/ HandleUnknown \/ ScanLeave \/ (\E n \in Names : ScanEnter(n)) \/ UNCHANGED vars
  BY <1>7 DEF WritePipe, ReadPipe, RemoveDone, EndBatch, CleanupDone, CallCleanup, HandleUnknown,
              ScanLeave, ScanEnter, Die, vars, BatchDone
<1> QED
  BY <1>2, <1>3, <1>4, <1>5, <1>6, <1>7 DEF Next, Thread

LEMMA StepOne ==
  ASSUME OneInv, OnlyMkdir, [Next]_vars
  PROVE  OneInv'
<1>1. MadeInv'
  <2>1. PathInv'
    BY StepPaths DEF OneInv, MadeInv, OnlyMkdir
  <2>2. OnlyMade' /\ Placed'
    BY StepOnlyMade, StepPlaces DEF OneInv
  <2> QED
    BY <2>1, <2>2, MadeParts, PTL
<1>4. BatchDone'
  BY StepBatch DEF OneInv, MadeInv, PathInv, LinkInv
<1>2. CASE ~Working'
  BY <1>1, <1>2, <1>4, EndedOne, OneParts, PTL
<1>3. CASE Working'
  <2>1. AllSeparate' /\ EventsOnce' /\ InodesTell' /\ FramesApart' /\ OneWatcherPerPath'
    <3>1. CASE User
      BY <3>1, UserOne
    <3>2. CASE \E n \in Names : ScanEnter(n)
      BY <1>3, <3>2, ScanEnterOne
    <3>3. CASE ScanLeave
      BY <3>3, ScanLeaveOne DEF OnlyMkdir
    <3>4. CASE HandleCreate
      BY <1>3, <3>4, HandleCreateOne
    <3>5. CASE Aside
      BY <1>3, <3>5, WorkedOn, AsideOne
    <3> QED
      BY <1>3, <3>1, <3>2, <3>3, <3>4, <3>5, WorkedOn DEF Next, Thread, Aside
  <2> QED
    BY <1>1, <1>4, <2>1, OneParts, PTL
<1> QED
  BY <1>2, <1>3

LEMMA InitOne == Init => OneInv
<1> SUFFICES ASSUME Init PROVE OneInv
  OBVIOUS
<1>1. MadeInv /\ BatchDone
  <2>1. OnlyMade /\ Placed /\ BatchDone
    BY DEF Init, OnlyMade, Placed, BatchDone
  <2> QED
    BY <2>1, InitPaths DEF MadeInv
<1>2. /\ live = {} /\ heap = <<>> /\ queue = <<>> /\ batch = <<>> /\ watched = {} /\ pc = "scan"
      /\ Len(frames) = 1 /\ frames[1].path = Root /\ frames[1].todo \subseteq Listed(Root).todo
      /\ frames[1].shut \in {None, dirs[Root]}
  <2>1. PICK f \in Opened(Root) : frames = <<f>>
    BY DEF Init
  <2>2. /\ f.path = Root /\ f.todo \subseteq Subdirs(Root) /\ f.shut \in {None, dirs[Root]}
    BY <1>1, <2>1, RootIsPath, OpenedFacts, TypesParts DEF MadeInv, PathInv, LinkInv
  <2> QED
    BY <2>1, <2>2 DEF Init, Listed
<1>3. WatcherPaths = {} /\ EnteredPaths = {Root} /\ AnnouncedBy(queue) = {} /\ AnnouncedBy(batch) = {}
  BY <1>2 DEF WatcherPaths, EnteredPaths, AnnouncedBy
<1>4. NamedPaths \subseteq {q \in DirPaths : q # Root /\ ParentOf(q) = Root}
  <2> SUFFICES ASSUME NEW q \in NamedPaths
               PROVE  q \in DirPaths /\ q # Root /\ ParentOf(q) = Root
    OBVIOUS
  <2>1. q \in Paths /\ q # Root /\ ParentOf(q) = Root /\ NameOf(q) \in Listed(Root).todo
    BY <1>2 DEF NamedPaths
  <2> QED
    BY <2>1, RootIsPath, ListedNames DEF DirsIn
<1>5. PICK T \in InitialTrees : dirs = [p \in Paths |-> IF p \in T THEN InodeOf(p, 0) ELSE None]
  BY DEF Init
<1>6. \A p \in Paths : InodeOf(p, 0) # None /\ InodeOf(p, 0)[1] = p
  <2> TAKE p \in Paths
  <2>1. Len(<<p, 0>>) = 2 /\ Len(<<"none">>) = 1 /\ <<p, 0>>[1] = p
    OBVIOUS
  <2> QED
    BY <2>1 DEF InodeOf, None
<1>7. Root \in DirPaths /\ \A p \in DirPaths : dirs[p][1] = p
  BY <1>5, <1>6, RootIsPath, TreesAssumption DEF DirPaths, IsDir
<1>8. AllSeparate
  BY <1>3, <1>4, <1>7 DEF AllSeparate, Separate
<1>9. EventsOnce
  BY <1>2, <1>3 DEF EventsOnce, EachOnce
<1>10. InodesTell /\ FramesApart /\ OneWatcherPerPath
  BY <1>2, <1>7 DEF InodesTell, FramesApart, OneWatcherPerPath
<1> QED
  BY <1>1, <1>8, <1>9, <1>10 DEF OneInv

\* insert_watcher() has no look at the tables before it adds a watcher, and events come for
\* directories a scan may have met: still, no directory has two as long as directories are
\* only made, because what is made below a directory is either listed when that is entered,
\* before it is watched, or announced afterwards.
THEOREM OneWatcherEach ==
  ASSUME OnlyMkdir
  PROVE  Spec => []OneWatcherPerPath
<1>1. OneInv /\ [Next]_vars => OneInv'
  BY StepOne
<1>2. OneInv => OneWatcherPerPath
  BY DEF OneInv
<1> QED
  BY InitOne, <1>1, <1>2, PTL DEF Spec

-----------------------------------------------------------------------------
(* Followed, when no directory is hidden and directories are only made: unless a scan    *)
(* was disturbed or an event dropped, a directory in one that has a watch, or that       *)
(* nftw() is reading, has a watcher too, or is on its way to it.                         *)

AheadPaths == AnnouncedBy(queue) \cup AnnouncedBy(batch)

TreeClosed == \A p \in DirPaths : p # Root => ParentOf(p) \in DirPaths

\* The directories that were refused a watch, those that may not be read, and both: what
\* is made or found in them goes unseen.
RefusedPaths == {heap[c].path : c \in {e \in live : heap[e].wd = None}}
ShutPaths    == {frames[k].path : k \in {j \in 1..Len(frames) : frames[j].shut # None}}
Blind        == RefusedPaths \cup ShutPaths

WatchesAgree ==
  \A c \in live :
    heap[c].wd # None => heap[c].wd = dirs[heap[c].path] /\ heap[c].wd \in watched

AheadWatched == \A q \in AheadPaths : ParentOf(q) \in WatcherPaths

Covered ==
  /\ Root \in WatcherPaths \cup EnteredPaths
  /\ \A p \in DirPaths :
       p # Root /\ ParentOf(p) \in (WatcherPaths \cup EnteredPaths) \ Blind =>
         p \in WatcherPaths \cup EnteredPaths \cup NamedPaths \cup AheadPaths

\* The scan under way began at b.
BeganAt(b) ==
  IF frames # <<>> THEN b = frames[1].path ELSE Len(stack) = 1 /\ b = heap[stack[1]].path

\* No directory the scan has met waits for its event.
ScanApart ==
  pc = "scan" => \A q \in AheadPaths, b \in Paths : BeganAt(b) => ~IsPrefix(b, ParentOf(q))

FollowInv ==
  /\ OneInv
  /\ TreeClosed
  /\ Working => /\ WatchesAgree /\ AheadWatched
                /\ quiet => Covered /\ ScanApart

\* A path that begins like p and is not p goes on below p.
LEMMA PrefixOfParent ==
  \A p, q \in Paths :
    IsPrefix(p, q) /\ p # q =>
      q # Root /\ IsPrefix(p, ParentOf(q)) /\ Len(ParentOf(q)) \in Nat /\ Len(ParentOf(q)) < Len(q)
<1> TAKE p, q \in Paths
<1> HAVE IsPrefix(p, q) /\ p # q
<1>1. /\ p \in Seq(Names) /\ q \in Seq(Names) /\ Len(p) \in Nat /\ Len(q) \in Nat
      /\ Len(p) <= Len(q) /\ \A k \in 1..Len(p) : p[k] = q[k]
  BY PathIsSeq, PrefixFacts
<1>2. Len(p) # Len(q)
  BY <1>1, SeqEqual
<1>3. q # Root
  BY <1>1, <1>2, EmptySeq DEF Root
<1>4. /\ Len(ParentOf(q)) = Len(q) - 1 /\ ParentOf(q) \in Paths
      /\ \A k \in 1..Len(q) - 1 : ParentOf(q)[k] = q[k]
  BY <1>3, ParentFacts, NameOfPath
<1>5. Len(p) <= Len(ParentOf(q)) /\ \A k \in 1..Len(p) : p[k] = ParentOf(q)[k]
  BY <1>1, <1>2, <1>4
<1> QED
  BY <1>1, <1>2, <1>3, <1>4, <1>5, PrefixFacts

\* Of the paths in S, a shortest.
LEMMA ShortestPath ==
  ASSUME NEW S \in SUBSET Paths, S # {}
  PROVE  \E p \in S : \A q \in S : Len(p) <= Len(q)
<1> DEFINE L == {Len(p) : p \in S}
<1>1. L \in SUBSET Nat /\ L # {}
  <2>1. \A p \in S : Len(p) \in Nat
    BY PathIsSeq
  <2>2. L \subseteq Nat
    BY <2>1
  <2>3. L # {}
    OBVIOUS
  <2> QED
    BY <2>2, <2>3
<1>2. PICK k \in L : \A m \in L : k <= m
  BY <1>1, LeastOfNat
<1> QED
  BY <1>2

\* What holds of b, and of a directory if it holds of the one that is in, holds of all
\* directories that are below b.
LEMMA AllBelow ==
  ASSUME NEW D \in SUBSET Paths, \A p \in D : p # Root => ParentOf(p) \in D,
         NEW b \in Paths, NEW W, b \in W,
         \A p \in D : p # Root /\ IsPrefix(b, ParentOf(p)) /\ ParentOf(p) \in W => p \in W
  PROVE  \A p \in D : IsPrefix(b, p) => p \in W
<1> SUFFICES ASSUME NEW z \in D, IsPrefix(b, z), z \notin W
             PROVE  FALSE
  OBVIOUS
<1> DEFINE S == {p \in D : IsPrefix(b, p) /\ p \notin W}
<1>1. S \in SUBSET Paths /\ S # {}
  OBVIOUS
<1>2. PICK p \in S : \A q \in S : Len(p) <= Len(q)
  BY <1>1, ShortestPath
<1>3. p # Root /\ IsPrefix(b, ParentOf(p)) /\ Len(ParentOf(p)) < Len(p) /\ Len(ParentOf(p)) \in Nat
  BY <1>2, PrefixOfParent
<1>4. ParentOf(p) \in D /\ Len(p) \in Nat
  BY <1>2, <1>3, PathIsSeq
<1>5. ParentOf(p) \notin S
  BY <1>2, <1>3, <1>4
<1> QED
  BY <1>2, <1>3, <1>4, <1>5

\* With the paths S all on the way to them are in S.
LEMMA PrefixIn ==
  ASSUME NEW S \in SUBSET Paths, \A p \in S : p # Root => ParentOf(p) \in S
  PROVE  \A p \in Paths, q \in S : IsPrefix(p, q) => p \in S
<1> SUFFICES ASSUME NEW p \in Paths, NEW z \in S, IsPrefix(p, z), p \notin S
             PROVE  FALSE
  OBVIOUS
<1> DEFINE T == {q \in S : IsPrefix(p, q)}
<1>1. T \in SUBSET Paths /\ T # {}
  OBVIOUS
<1>2. PICK q \in T : \A r \in T : Len(q) <= Len(r)
  BY <1>1, ShortestPath
<1>3. q # Root /\ IsPrefix(p, ParentOf(q)) /\ Len(ParentOf(q)) < Len(q) /\ Len(ParentOf(q)) \in Nat
  BY <1>2, PrefixOfParent
<1>4. ParentOf(q) \in T /\ Len(q) \in Nat
  BY <1>2, <1>3, PathIsSeq
<1> QED
  BY <1>2, <1>3, <1>4

LEMMA FollowParts ==
  FollowInv <=> /\ OneInv /\ TreeClosed
                /\ Working => /\ WatchesAgree /\ AheadWatched
                              /\ quiet => Covered /\ ScanApart
BY DEF FollowInv

LEMMA UserFollow ==
  ASSUME FollowInv, OnlyMkdir, User
  PROVE  TreeClosed' /\ WatchesAgree' /\ AheadWatched' /\ (quiet' => Covered' /\ ScanApart')
<1>1. PICK x \in Paths :
         /\ UNCHANGED <<pc, heap, live, stack, batch, watched>>
         /\ MoreListed /\ SamePlaces
         /\ EnteredPaths' = EnteredPaths /\ NamedPaths \subseteq NamedPaths'
         /\ x # Root /\ x \notin DirPaths /\ ParentOf(x) \in DirPaths
         /\ \A p \in Paths : p # x => dirs'[p] = dirs[p]
         /\ DirPaths' = DirPaths \cup {x}
         /\ AnnouncedBy(queue) \subseteq AnnouncedBy(queue')
         /\ AnnouncedBy(queue') \subseteq AnnouncedBy(queue) \cup {x}
         /\ x \in AnnouncedBy(queue') => ParentOf(x) \in WatcherPaths
         /\ quiet' /\ dirs[ParentOf(x)] \in watched => x \in AnnouncedBy(queue')
         /\ quiet' => quiet /\ pc # "scan"
  BY UserIs DEF FollowInv
<1>2. /\ OneInv /\ TreeClosed /\ WatchesAgree /\ AheadWatched /\ AllSeparate /\ FramesApart
      /\ quiet => Covered
  BY UserIs DEF FollowInv, OneInv
<1>3. WatcherPaths' = WatcherPaths /\ Blind' = Blind
  <2>1. /\ Len(frames') = Len(frames)
        /\ \A k \in 1..Len(frames) :
             frames'[k].path = frames[k].path /\ frames'[k].shut = frames[k].shut
    BY <1>1 DEF MoreListed
  <2> QED
    BY <1>1, <2>1 DEF WatcherPaths, Blind, RefusedPaths, ShutPaths
<1>4. AheadPaths \subseteq AheadPaths' /\ AheadPaths' \subseteq AheadPaths \cup {x}
  BY <1>1 DEF AheadPaths
<1>5. /\ WatcherPaths \cup EnteredPaths \subseteq DirPaths /\ AheadPaths \subseteq DirPaths
      /\ DirPaths \subseteq Paths
  BY <1>2 DEF AllSeparate, Separate, AheadPaths, DirPaths
<1>6. TreeClosed'
  BY <1>1, <1>2 DEF TreeClosed
<1>7. WatchesAgree'
  <2>1. \A c \in live : heap[c].path \in WatcherPaths
    BY DEF WatcherPaths
  <2>2. \A c \in live : dirs'[heap[c].path] = dirs[heap[c].path]
    BY <1>1, <1>5, <2>1
  <2> QED
    BY <1>1, <1>2, <2>2 DEF WatchesAgree
<1>8. AheadWatched'
  <2> SUFFICES ASSUME NEW q \in AheadPaths'
               PROVE  ParentOf(q) \in WatcherPaths
    BY <1>3 DEF AheadWatched
  <2>1. CASE q \in AheadPaths
    BY <1>2, <2>1 DEF AheadWatched
  <2>2. CASE q \notin AheadPaths
    BY <1>1, <1>4, <2>2 DEF AheadPaths
  <2> QED
    BY <2>1, <2>2
<1>9. ASSUME quiet' PROVE Covered'
  <2>1. quiet /\ Covered /\ EnteredPaths = {}
    BY <1>1, <1>2, <1>9 DEF FramesApart, EnteredPaths
  <2>2. ParentOf(x) \in WatcherPaths \ Blind => x \in AheadPaths'
    <3> HAVE ParentOf(x) \in WatcherPaths \ Blind
    <3>1. PICK c \in live : heap[c].path = ParentOf(x)
      BY DEF WatcherPaths
    <3>2. heap[c].wd # None
      BY <3>1 DEF Blind, RefusedPaths
    <3>3. dirs[ParentOf(x)] \in watched
      BY <1>2, <3>1, <3>2 DEF WatchesAgree
    <3> QED
      BY <1>1, <1>9, <3>3 DEF AheadPaths
  <2> QED
    BY <1>1, <1>3, <1>4, <2>1, <2>2 DEF Covered
<1>10. quiet' => ScanApart'
  BY <1>1 DEF ScanApart
<1> QED
  BY <1>6, <1>7, <1>8, <1>9, <1>10

LEMMA AsideFollow ==
  ASSUME FollowInv, Working, Aside
  PROVE  TreeClosed' /\ WatchesAgree' /\ AheadWatched' /\ (quiet' => Covered' /\ ScanApart')
<1>1. /\ UNCHANGED <<dirs, live, frames, watched, quiet>>
      /\ \A c \in live : heap'[c].path = heap[c].path /\ heap'[c].wd = heap[c].wd
      /\ WatcherPaths' = WatcherPaths /\ EnteredPaths' = EnteredPaths
      /\ NamedPaths' = NamedPaths /\ DirPaths' = DirPaths
      /\ AnnouncedBy(queue') \cup AnnouncedBy(batch') = AnnouncedBy(queue) \cup AnnouncedBy(batch)
      /\ pc' = "scan" => UNCHANGED <<pc, stack, heap>>
  BY AsideIs DEF FollowInv
<1>2. TreeClosed /\ WatchesAgree /\ AheadWatched /\ (quiet => Covered /\ ScanApart)
  BY DEF FollowInv
<1>3. AheadPaths' = AheadPaths
  BY <1>1 DEF AheadPaths
<1>7. Blind' = Blind
  BY <1>1 DEF Blind, RefusedPaths, ShutPaths
<1>4. TreeClosed' /\ AheadWatched' /\ (quiet' => Covered')
  BY <1>1, <1>2, <1>3, <1>7 DEF TreeClosed, AheadWatched, Covered
<1>5. WatchesAgree'
  BY <1>1, <1>2 DEF WatchesAgree
<1>6. quiet' => ScanApart'
  BY <1>1, <1>2, <1>3 DEF ScanApart, BeganAt
<1> QED
  BY <1>4, <1>5, <1>6

LEMMA HandleCreateFollow ==
  ASSUME FollowInv, HandleCreate, Working'
  PROVE  TreeClosed' /\ WatchesAgree' /\ AheadWatched' /\ (quiet' => Covered' /\ ScanApart')
<1>1. PICK x \in Paths :
         /\ x \in AnnouncedBy(batch)
         /\ UNCHANGED <<dirs, watched, queue, quiet, heap, live>> /\ pc' = "scan"
         /\ Len(frames') = 1 /\ frames'[1].path = x
         /\ EnteredPaths = {} /\ NamedPaths = {}
         /\ EnteredPaths' = {x}
         /\ frames'[1].shut = None => NamedPaths' = DirsIn(DirPaths, x)
         /\ AnnouncedBy(batch') = AnnouncedBy(batch) \ {x}
  BY HandleCreateIs DEF FollowInv
<1>2. /\ TreeClosed /\ WatchesAgree /\ AheadWatched /\ (quiet => Covered) /\ AllSeparate /\ EventsOnce
      /\ frames = <<>>
  BY DEF HandleCreate, Handling, FollowInv, OneInv, Working, FramesApart
<1>3. AheadPaths' = AheadPaths \ {x} /\ x \in AheadPaths
  BY <1>1, <1>2 DEF AheadPaths, EventsOnce
<1>4. WatcherPaths' = WatcherPaths /\ DirPaths' = DirPaths
  BY <1>1 DEF WatcherPaths, DirPaths, IsDir
<1>5. TreeClosed' /\ WatchesAgree' /\ AheadWatched'
  BY <1>1, <1>2, <1>3, <1>4 DEF TreeClosed, WatchesAgree, AheadWatched
<1>6. ASSUME quiet' PROVE Covered'
  <2>1. Covered
    BY <1>1, <1>2, <1>6
  <2>3. /\ Blind \subseteq Blind'
        /\ x \notin Blind' => frames'[1].shut = None
    <3>1. Blind = RefusedPaths /\ RefusedPaths' = RefusedPaths
      BY <1>1, <1>2 DEF Blind, RefusedPaths, ShutPaths
    <3>2. frames'[1].shut # None => x \in ShutPaths'
      BY <1>1 DEF ShutPaths
    <3> QED
      BY <3>1, <3>2 DEF Blind
  <2>2. \A p \in DirPaths : p # Root /\ ParentOf(p) = x /\ x \notin Blind' => p \in NamedPaths'
    <3> SUFFICES ASSUME NEW p \in DirPaths, p # Root, ParentOf(p) = x, x \notin Blind'
                 PROVE  p # x
      BY <1>1, <2>3 DEF DirsIn
    <3>1. p \in Paths
      BY DEF DirPaths
    <3> QED
      BY <3>1, ParentFacts
  <2> QED
    BY <1>1, <1>3, <1>4, <2>1, <2>2, <2>3 DEF Covered
<1>7. ScanApart'
  <2>1. x \notin WatcherPaths /\ WatcherPaths \subseteq Paths
        /\ \A p \in WatcherPaths : p # Root => ParentOf(p) \in WatcherPaths
    BY <1>1, <1>2 DEF AllSeparate, Separate, DirPaths
  <2>2. \A q \in WatcherPaths : ~IsPrefix(x, q)
    BY <2>1, PrefixIn
  <2>3. \A q \in AheadPaths' : ~IsPrefix(x, ParentOf(q))
    BY <1>2, <1>3, <2>2 DEF AheadWatched
  <2>4. frames' # <<>>
    BY <1>1, EmptySeq
  <2> QED
    BY <1>1, <2>3, <2>4 DEF ScanApart, BeganAt
<1> QED
  BY <1>5, <1>6, <1>7

LEMMA ScanEnterFollow ==
  ASSUME FollowInv, NEW n \in Names, ScanEnter(n), Working'
  PROVE  TreeClosed' /\ WatchesAgree' /\ AheadWatched' /\ (quiet' => Covered' /\ ScanApart')
<1>1. PICK x \in Paths :
         /\ x \in NamedPaths
         /\ UNCHANGED <<dirs, watched, queue, batch, quiet, heap, live, stack, pc>>
         /\ Len(frames) \in Nat \ {0}
         /\ Len(frames') = Len(frames) + 1 /\ frames'[Len(frames) + 1].path = x
         /\ \A k \in 1..Len(frames) :
              frames'[k].path = frames[k].path /\ frames'[k].shut = frames[k].shut
         /\ EnteredPaths' = EnteredPaths \cup {x}
         /\ NamedPaths \ {x} \subseteq NamedPaths'
         /\ frames'[Len(frames) + 1].shut = None => DirsIn(DirPaths, x) \subseteq NamedPaths'
  BY ScanEnterIs DEF FollowInv
<1>2. /\ TreeClosed /\ WatchesAgree /\ AheadWatched /\ (quiet => Covered /\ ScanApart)
      /\ pc = "scan" /\ frames # <<>>
  BY DEF ScanEnter, FollowInv, Working
<1>3. WatcherPaths' = WatcherPaths /\ DirPaths' = DirPaths /\ AheadPaths' = AheadPaths
  BY <1>1 DEF WatcherPaths, DirPaths, IsDir, AheadPaths
<1>4. TreeClosed' /\ WatchesAgree' /\ AheadWatched'
  BY <1>1, <1>2, <1>3 DEF TreeClosed, WatchesAgree, AheadWatched
<1>5. ASSUME quiet' PROVE Covered'
  <2>1. Covered
    BY <1>1, <1>2, <1>5
  <2>3. /\ Blind \subseteq Blind'
        /\ x \notin Blind' => frames'[Len(frames) + 1].shut = None
    <3>1. RefusedPaths' = RefusedPaths
      BY <1>1 DEF RefusedPaths
    <3>2. 1..Len(frames) \subseteq 1..Len(frames') /\ Len(frames) + 1 \in 1..Len(frames')
      BY <1>1
    <3>3. ShutPaths \subseteq ShutPaths'
      BY <1>1, <3>2 DEF ShutPaths
    <3>4. frames'[Len(frames) + 1].shut # None => x \in ShutPaths'
      BY <1>1, <3>2 DEF ShutPaths
    <3> QED
      BY <3>1, <3>3, <3>4 DEF Blind
  <2>2. \A p \in DirPaths : p # Root /\ ParentOf(p) = x /\ x \notin Blind' => p \in NamedPaths'
    <3> SUFFICES ASSUME NEW p \in DirPaths, p # Root, ParentOf(p) = x, x \notin Blind'
                 PROVE  p # x
      BY <1>1, <2>3 DEF DirsIn
    <3>1. p \in Paths
      BY DEF DirPaths
    <3> QED
      BY <3>1, ParentFacts
  <2> QED
    BY <1>1, <1>3, <2>1, <2>2, <2>3 DEF Covered
<1>6. ASSUME quiet' PROVE ScanApart'
  <2>1. frames' # <<>> /\ 1 \in 1..Len(frames)
    BY <1>1, EmptySeq
  <2>2. frames'[1].path = frames[1].path
    BY <1>1, <2>1
  <2> QED
    BY <1>1, <1>2, <1>3, <1>6, <2>1, <2>2 DEF ScanApart, BeganAt
<1> QED
  BY <1>4, <1>5, <1>6

LEMMA ScanLeaveFollow ==
  ASSUME FollowInv, AllShown, ScanLeave
  PROVE  TreeClosed' /\ WatchesAgree' /\ AheadWatched' /\ (quiet' => Covered' /\ ScanApart')
<1>1. PICK x \in Paths, r \in Nat, w \in Nat, d \in Inodes :
         /\ x \in EnteredPaths
         /\ UNCHANGED <<dirs, queue, batch, quiet, pc>>
         /\ d \in {None, dirs[x]} /\ (frames[r + 1].shut = dirs[x] => d = None)
         /\ watched' = watched \cup ({d} \ {None})
         /\ live' = live \cup {w} /\ heap'[w].path = x /\ heap'[w].wd = d
         /\ \A c \in live : heap'[c].path = heap[c].path /\ heap'[c].wd = heap[c].wd
         /\ stack'[Len(stack')] = w
         /\ Len(frames) = r + 1 /\ Len(frames') = r /\ \A k \in 1..r : frames'[k] = frames[k]
         /\ frames[r + 1].path = x
         /\ WatcherPaths' = WatcherPaths \cup {x}
         /\ EnteredPaths' = EnteredPaths \ {x} /\ NamedPaths' = NamedPaths
  BY ScanLeaveIs DEF FollowInv
<1>2. /\ TreeClosed /\ WatchesAgree /\ AheadWatched /\ (quiet => Covered /\ ScanApart)
      /\ AllSeparate /\ FramesApart /\ pc = "scan" /\ frames # <<>>
  BY DEF ScanLeave, FollowInv, OneInv, Working
<1>3. DirPaths' = DirPaths /\ AheadPaths' = AheadPaths
  BY <1>1 DEF DirPaths, IsDir, AheadPaths
<1>4. x \in DirPaths /\ dirs[x] # None
  BY <1>1, <1>2 DEF AllSeparate, Separate, DirPaths, IsDir
<1>8. Blind \subseteq Blind'
  <2>1. RefusedPaths \subseteq RefusedPaths'
    BY <1>1 DEF RefusedPaths
  <2>2. d = None => x \in RefusedPaths'
    BY <1>1 DEF RefusedPaths
  <2>3. ShutPaths \subseteq ShutPaths' \cup RefusedPaths'
    <3> SUFFICES ASSUME NEW k \in 1..Len(frames), frames[k].shut # None
                 PROVE  frames[k].path \in ShutPaths' \cup RefusedPaths'
      BY DEF ShutPaths
    <3>1. CASE k \in 1..r
      BY <1>1, <3>1 DEF ShutPaths
    <3>2. CASE k = r + 1
      BY <1>1, <1>2, <2>2, <3>2 DEF FramesApart
    <3> QED
      BY <1>1, <3>1, <3>2
  <2> QED
    BY <2>1, <2>3 DEF Blind
<1>5. TreeClosed' /\ AheadWatched' /\ (quiet' => Covered')
  BY <1>1, <1>2, <1>3, <1>8 DEF TreeClosed, AheadWatched, Covered
<1>6. WatchesAgree'
  BY <1>1, <1>2, <1>4 DEF WatchesAgree
<1>7. ASSUME quiet' PROVE ScanApart'
  <2>1. \A q \in AheadPaths, b \in Paths : BeganAt(b) => ~IsPrefix(b, ParentOf(q))
    BY <1>1, <1>2, <1>7 DEF ScanApart
  <2>0. frames' \in Seq(Frames)
    <3>1. frames' = SubSeq(frames, 1, r) /\ frames \in Seq(Frames)
      BY <1>1, <1>2 DEF ScanLeave, FollowInv, OneInv, MadeInv, PathInv, LinkInv, Types, Walking
    <3> QED
      BY <1>1, <3>1
  <2>2. \A b \in Paths : BeganAt(b)' => BeganAt(b)
    <3> TAKE b \in Paths
    <3> HAVE BeganAt(b)'
    <3>1. CASE frames' # <<>>
      <4>1. r # 0
        BY <1>1, <2>0, <3>1, EmptySeq
      <4>2. frames'[1] = frames[1] /\ b = frames'[1].path
        BY <1>1, <3>1, <4>1 DEF BeganAt
      <4> QED
        BY <1>2, <4>2 DEF BeganAt
    <3>2. CASE frames' = <<>>
      <4>1. Len(stack') = 1 /\ b = heap'[stack'[1]].path /\ r = 0
        BY <1>1, <3>2, EmptySeq DEF BeganAt
      <4>2. b = x
        BY <1>1, <4>1
      <4>3. x = frames[1].path
        BY <1>1, <4>1
      <4> QED
        BY <1>2, <4>2, <4>3 DEF BeganAt
    <3> QED
      BY <3>1, <3>2
  <2> QED
    BY <1>3, <2>1, <2>2 DEF ScanApart
<1> QED
  BY <1>5, <1>6, <1>7

LEMMA DirsStay ==
  ASSUME Thread \/ ReadPipe \/ CallCleanup \/ UNCHANGED vars
  PROVE  UNCHANGED dirs
BY DEF Thread, ScanEnter, ScanLeave, ScanDone, ReadEvents, WritePipe, HandleUnknown, PassOver,
       HandleCreate, HandleDelete, RemoveStep, RemoveDone, EndBatch, CleanupDone, ReadPipe,
       CallCleanup, vars, fsVars

LEMMA StepFollow ==
  ASSUME FollowInv, OnlyMkdir, [Next]_vars
  PROVE  FollowInv'
<1>1. OneInv'
  BY StepOne DEF FollowInv
<1>2. CASE ~Working'
  <2>1. ~User
    BY <1>2, UserIs DEF FollowInv, Working
  <2>2. UNCHANGED dirs
    BY <2>1, DirsStay DEF Next
  <2>3. TreeClosed'
    BY <2>2 DEF TreeClosed, DirPaths, IsDir, FollowInv
  <2> QED
    BY <1>1, <1>2, <2>3, FollowParts, PTL
<1>3. CASE Working'
  <2>1. TreeClosed' /\ WatchesAgree' /\ AheadWatched' /\ (quiet' => Covered' /\ ScanApart')
    <3>1. CASE User
      BY <3>1, UserFollow
    <3>2. CASE \E n \in Names : ScanEnter(n)
      BY <1>3, <3>2, ScanEnterFollow
    <3>3. CASE ScanLeave
      BY <3>3, ScanLeaveFollow DEF OnlyMkdir
    <3>4. CASE HandleCreate
      BY <1>3, <3>4, HandleCreateFollow
    <3>5. CASE Aside
      BY <1>3, <3>5, WorkedOn, AsideFollow DEF FollowInv
    <3>6. /\ ~RemoveStep /\ ~RemoveDone /\ ~HandleDelete /\ ~HandleUnknown
          /\ ~CleanupDone /\ ~CallCleanup
      BY <1>3, WorkedOn DEF FollowInv
    <3> QED
      BY <3>1, <3>2, <3>3, <3>4, <3>5, <3>6 DEF Next, Thread, Aside
  <2> QED
    BY <1>1, <2>1, FollowParts, PTL
<1> QED
  BY <1>2, <1>3

LEMMA InitFollow == Init => FollowInv
<1> SUFFICES ASSUME Init PROVE FollowInv
  OBVIOUS
<1>1. OneInv
  BY InitOne
<1>2. /\ live = {} /\ queue = <<>> /\ batch = <<>> /\ pc = "scan"
      /\ Len(frames) = 1 /\ frames[1].path = Root
      /\ frames[1].shut = None => frames[1].todo = Listed(Root).todo
  <2>1. PICK f \in Opened(Root) : frames = <<f>>
    BY DEF Init
  <2>2. FsTypes
    BY <1>1, TypesParts DEF OneInv, MadeInv, PathInv, LinkInv
  <2>3. f.path = Root /\ (f = Listed(Root) \/ f.shut = dirs[Root]) /\ dirs[Root] # None
    BY <2>1, <2>2, RootIsPath, OpenedFacts DEF FsTypes
  <2> QED
    BY <2>1, <2>3 DEF Init
<1>3. WatcherPaths = {} /\ EnteredPaths = {Root} /\ AheadPaths = {}
  BY <1>2 DEF WatcherPaths, EnteredPaths, AheadPaths, AnnouncedBy
<1>4. PICK T \in InitialTrees : dirs = [p \in Paths |-> IF p \in T THEN InodeOf(p, 0) ELSE None]
  BY DEF Init
<1>5. \A p \in Paths : InodeOf(p, 0) # None
  <2> TAKE p \in Paths
  <2>1. Len(<<p, 0>>) = 2 /\ Len(<<"none">>) = 1
    OBVIOUS
  <2> QED
    BY <2>1 DEF InodeOf, None
<1>6. DirPaths = T
  BY <1>4, <1>5, TreesAssumption DEF DirPaths, IsDir
<1>7. TreeClosed
  BY <1>6, TreesAssumption DEF TreeClosed
<1>8. Covered
  <2>1. \A p \in DirPaths : p # Root /\ ParentOf(p) = Root /\ Root \notin Blind => p \in NamedPaths
    <3> SUFFICES ASSUME NEW p \in DirPaths, p # Root, ParentOf(p) = Root, Root \notin Blind
                 PROVE  p \in NamedPaths
      OBVIOUS
    <3>3. frames[1].shut = None
      BY <1>2 DEF Blind, ShutPaths
    <3>1. p \in Paths /\ p \in DirsIn(DirPaths, Root)
      BY DEF DirPaths, DirsIn
    <3>2. NameOf(p) \in frames[1].todo
      BY <1>2, <3>1, <3>3, ListedNames, RootIsPath
    <3> QED
      BY <1>2, <3>1, <3>2 DEF NamedPaths
  <2> QED
    BY <1>3, <2>1 DEF Covered
<1> QED
  BY <1>1, <1>2, <1>3, <1>7, <1>8 DEF FollowInv, WatchesAgree, AheadWatched, ScanApart

\* A path begins like the one it is in, and what that begins like.
LEMMA ParentBegins ==
  \A p, q \in Paths : q # Root /\ IsPrefix(p, ParentOf(q)) => IsPrefix(p, q)
<1> TAKE p, q \in Paths
<1> HAVE q # Root /\ IsPrefix(p, ParentOf(q))
<1>1. /\ ParentOf(q) \in Paths /\ Len(ParentOf(q)) = Len(q) - 1
      /\ \A k \in 1..Len(q) - 1 : ParentOf(q)[k] = q[k]
  BY ParentFacts, NameOfPath
<1>2. Len(p) \in Nat /\ Len(q) \in Nat
  BY PathIsSeq
<1>3. Len(p) <= Len(ParentOf(q)) /\ \A k \in 1..Len(p) : p[k] = ParentOf(q)[k]
  BY <1>1, PrefixFacts
<1> QED
  BY <1>1, <1>2, <1>3, PrefixFacts

\* A path among those of watchers is watched, or was refused a watch.
LEMMA HasWatcher ==
  ASSUME WatchesAgree, Types
  PROVE  \A p \in WatcherPaths : CutOff(p) \/ (Watches(p) /\ dirs[p] \in watched)
<1> TAKE p \in WatcherPaths
<1>1. PICK c \in live : heap[c].path = p
  BY DEF WatcherPaths
<1>2. p \in Paths
  BY <1>1, CellTypes DEF Watchers
<1>3. CASE heap[c].wd = None
  BY <1>1, <1>2, <1>3, BelowFacts DEF CutOff
<1>4. CASE heap[c].wd # None
  BY <1>1, <1>4 DEF WatchesAgree, Watches
<1> QED
  BY <1>3, <1>4

\* What is below a directory that is cut off is cut off.
LEMMA CutBelow ==
  ASSUME Types
  PROVE  \A p \in Paths : p # Root /\ CutOff(ParentOf(p)) => CutOff(p)
<1> TAKE p \in Paths
<1> HAVE p # Root /\ CutOff(ParentOf(p))
<1>1. PICK c \in live : heap[c].wd = None /\ IsPrefix(heap[c].path, ParentOf(p))
  BY DEF CutOff
<1>2. heap[c].path \in Paths
  BY <1>1, CellTypes DEF Watchers
<1> QED
  BY <1>1, <1>2, ParentBegins DEF CutOff

\* When nftw() has returned and what it met is not ahead, a directory in one that has a
\* watcher has one too, or is cut off.
LEMMA HasOrCut ==
  ASSUME Types, Covered, frames = <<>>
  PROVE  \A p \in DirPaths :
           p # Root /\ p \notin AheadPaths /\ (ParentOf(p) \in WatcherPaths \/ CutOff(ParentOf(p)))
             => p \in WatcherPaths \/ CutOff(p)
<1> TAKE p \in DirPaths
<1> HAVE p # Root /\ p \notin AheadPaths /\ (ParentOf(p) \in WatcherPaths \/ CutOff(ParentOf(p)))
<1>1. p \in Paths /\ ParentOf(p) \in Paths
  BY NameOfPath DEF DirPaths
<1>2. EnteredPaths = {} /\ NamedPaths = {} /\ ShutPaths = {}
  BY EmptySeq DEF EnteredPaths, NamedPaths, ShutPaths
<1>3. CASE CutOff(ParentOf(p))
  BY <1>1, <1>3, CutBelow
<1>4. CASE ParentOf(p) \in RefusedPaths
  <2>1. PICK c \in live : heap[c].wd = None /\ heap[c].path = ParentOf(p)
    BY <1>4 DEF RefusedPaths
  <2>2. CutOff(ParentOf(p))
    BY <1>1, <2>1, BelowFacts DEF CutOff
  <2> QED
    BY <1>1, <2>2, CutBelow
<1>5. CASE ParentOf(p) \in WatcherPaths \ RefusedPaths
  BY <1>2, <1>5 DEF Covered, Blind
<1> QED
  BY <1>3, <1>4, <1>5

LEMMA FollowScan == FollowInv => ScanComplete
<1> SUFFICES ASSUME FollowInv, pc = "scan", frames = <<>>, quiet, Len(stack) = 1,
                    NEW z \in Paths, Visible(z), IsPrefix(heap[stack[1]].path, z)
             PROVE  CutOff(z) \/ (Watches(z) /\ dirs[z] \in watched)
  BY DEF ScanComplete
<1> DEFINE b == heap[stack[1]].path
<1>1. WatchesAgree /\ Covered /\ ScanApart /\ TreeClosed /\ Types
  BY DEF FollowInv, Working, OneInv, MadeInv, PathInv, LinkInv
<1>2. stack[1] \in live /\ b \in WatcherPaths /\ b \in Paths
  <2>1. stack[1] \in live
    BY <1>1 DEF Types, TypeOK
  <2>2. stack[1] \in 1..Len(heap)
    BY <1>1, <2>1 DEF Types, TypeOK
  <2>3. heap[stack[1]] \in Watchers
    BY <1>1, <2>2 DEF Types, TypeOK
  <2> QED
    BY <2>1, <2>3 DEF WatcherPaths, Watchers
<1>4. \A q \in AheadPaths : ~IsPrefix(b, ParentOf(q))
  BY <1>1, <1>2 DEF ScanApart, BeganAt
<1> DEFINE W == {p \in Paths : p \in WatcherPaths \/ CutOff(p)}
<1>5. \A p \in DirPaths : p # Root /\ IsPrefix(b, ParentOf(p)) /\ ParentOf(p) \in W => p \in W
  <2>1. \A p \in DirPaths : p \in Paths /\ (IsPrefix(b, ParentOf(p)) => p \notin AheadPaths)
    BY <1>4 DEF DirPaths
  <2> QED
    BY <1>1, <2>1, HasOrCut
<1>9. b \in W
  BY <1>2
<1>6. z \in DirPaths /\ DirPaths \in SUBSET Paths /\ \A p \in DirPaths : p # Root => ParentOf(p) \in DirPaths
  BY <1>1 DEF DirPaths, Visible, TreeClosed
<1> HIDE DEF b, W
<1>7. \A p \in DirPaths : IsPrefix(b, p) => p \in W
  BY <1>2, <1>5, <1>6, <1>9, AllBelow
<1>8. IsPrefix(b, z)
  BY DEF b
<1> QED
  BY <1>1, <1>6, <1>7, <1>8, HasWatcher DEF W

LEMMA FollowSettled == FollowInv => Settled
<1> SUFFICES ASSUME FollowInv, pc = "idle", queue = <<>>, quiet
             PROVE  /\ \A p \in Paths : Visible(p) => Watches(p) \/ CutOff(p)
                    /\ \A c \in live : heap[c].wd \in {dirs[heap[c].path], None}
  BY DEF Settled, AllHandled
<1>1. WatchesAgree /\ Covered /\ TreeClosed /\ FramesApart /\ BatchDone /\ Types
  BY DEF FollowInv, Working, OneInv, MadeInv, PathInv, LinkInv
<1>2. frames = <<>> /\ batch = <<>>
  BY <1>1 DEF FramesApart, BatchDone
<1>3. EnteredPaths = {} /\ AheadPaths = {}
  BY <1>2, EmptySeq DEF EnteredPaths, AheadPaths, AnnouncedBy
<1> DEFINE W == {p \in Paths : p \in WatcherPaths \/ CutOff(p)}
<1>4. Root \in W
  BY <1>1, <1>3, RootIsPath DEF Covered
<1>5. \A p \in DirPaths : p # Root /\ IsPrefix(Root, ParentOf(p)) /\ ParentOf(p) \in W => p \in W
  <2>1. \A p \in DirPaths : p \in Paths
    BY DEF DirPaths
  <2> QED
    BY <1>1, <1>2, <1>3, <2>1, HasOrCut
<1>6. DirPaths \in SUBSET Paths /\ \A p \in DirPaths : p # Root => ParentOf(p) \in DirPaths
  BY <1>1 DEF DirPaths, TreeClosed
<1> HIDE DEF W
<1>7. \A p \in DirPaths : IsPrefix(Root, p) => p \in W
  BY <1>4, <1>5, <1>6, RootIsPath, AllBelow
<1>8. \A p \in Paths : IsPrefix(Root, p)
  <2> TAKE p \in Paths
  <2>1. Root \in Seq(Names) /\ p \in Seq(Names) /\ Len(Root) = 0 /\ Len(p) \in Nat
    BY PathIsSeq, RootIsPath DEF Root
  <2> QED
    BY <2>1, RootIsPath, PrefixFacts
<1>9. \A p \in Paths : Visible(p) => p \in WatcherPaths \/ CutOff(p)
  BY <1>7, <1>8 DEF Visible, DirPaths, W
<1> QED
  BY <1>1, <1>9, HasWatcher DEF WatchesAgree

\* A scan nobody disturbed leaves a watcher and a watch on every directory below the one it
\* began at, and with all events handled every directory has the watcher of its inode, if no
\* change came while a scan was under way and the kernel dropped no event: what init_watchers()
\* and the IN_CREATE branch of watchers_polling() are for, while directories are only made.
\* Directories that inotify_add_watch() refused, for whatever reason, and what is below them
\* are excepted, and they alone: a refusal costs no other directory its watch.
THEOREM WatchersFollow ==
  ASSUME OnlyMkdir
  PROVE  Spec => []Followed
<1>1. FollowInv /\ [Next]_vars => FollowInv'
  BY StepFollow
<1>2. FollowInv => Followed
  BY FollowScan, FollowSettled DEF Followed
<1> QED
  BY InitFollow, <1>1, <1>2, PTL DEF Spec

-----------------------------------------------------------------------------
(* EachAlone, and more: while no directory is hidden and directories are only made, the  *)
(* thread dies of nothing, however the changes race it.                                  *)

\* Each event of s, the overflow left out, is of a directory made in one that is in W.
Known(s, W) ==
  \A k \in 1..Len(s) : s[k] = Overflow \/ (s[k].wd \in W /\ \E q \in Paths : Announces(s[k], q))

Survives ==
  /\ Known(queue, watched) /\ Known(batch, watched)
  /\ \A d \in watched : \E c \in live : heap[c].wd = d
  /\ pc = "scan" /\ frames = <<>> => Len(stack) = 1
  /\ root # Nil => root \in live

AliveInv ==
  /\ FollowInv
  /\ Working => Survives
  /\ ~Working => pc # "failed" /\ "cleanup" \in UserOps /\ (pc = "undefined" => cause = "cleanup")

LEMMA KnownTail ==
  \A s \in Seq(MadeEvents) : \A W :
    s # <<>> /\ Known(s, W) =>
      /\ Known(Tail(s), W)
      /\ Head(s) = Overflow \/ (Head(s).wd \in W /\ \E q \in Paths : Announces(Head(s), q))
<1> TAKE s \in Seq(MadeEvents)
<1> TAKE W
<1> HAVE s # <<>> /\ Known(s, W)
<1>1. /\ Len(s) \in Nat \ {0} /\ Head(s) = s[1] /\ Tail(s) \in Seq(MadeEvents)
      /\ Len(Tail(s)) = Len(s) - 1 /\ \A k \in 1..Len(Tail(s)) : Tail(s)[k] = s[k + 1]
  BY EmptySeq, HeadTailProperties
<1>2. \A k \in 1..Len(Tail(s)) : k + 1 \in 1..Len(s)
  BY <1>1
<1>3. 1 \in 1..Len(s)
  BY <1>1
<1> QED
  BY <1>1, <1>2, <1>3 DEF Known

LEMMA KnownAppend ==
  \A s \in Seq(MadeEvents), e \in MadeEvents : \A W :
    Known(s, W) /\ (e = Overflow \/ (e.wd \in W /\ \E q \in Paths : Announces(e, q))) =>
      Known(Append(s, e), W)
<1> TAKE s \in Seq(MadeEvents), e \in MadeEvents
<1> TAKE W
<1> HAVE Known(s, W) /\ (e = Overflow \/ (e.wd \in W /\ \E q \in Paths : Announces(e, q)))
<1> DEFINE t == Append(s, e)
<1>1. /\ Len(s) \in Nat /\ Len(t) = Len(s) + 1 /\ t[Len(s) + 1] = e
      /\ \A k \in 1..Len(s) : t[k] = s[k]
  BY AppendProperties, LenProperties
<1>2. \A k \in 1..Len(s) + 1 : k \in 1..Len(s) \/ k = Len(s) + 1
  BY <1>1
<1> HIDE DEF t
<1>3. \A k \in 1..Len(t) : t[k] = Overflow \/ (t[k].wd \in W /\ \E q \in Paths : Announces(t[k], q))
  BY <1>1, <1>2 DEF Known
<1> QED
  BY <1>3 DEF Known, t

LEMMA KnownMore == \A s, V, W : Known(s, V) /\ V \subseteq W => Known(s, W)
BY DEF Known

LEMMA KnownNone == \A W : Known(<<>>, W)
<1>1. \A k : k \notin 1..Len(<<>>)
  BY EmptySeq
<1> QED
  BY <1>1 DEF Known

LEMMA UserSurvives ==
  ASSUME AliveInv, OnlyMkdir, User
  PROVE  Working' /\ Survives'
<1>1. /\ Working /\ UNCHANGED <<pc, root, heap, live, stack, batch, watched>>
      /\ frames' = <<>> => frames = <<>>
  BY UserIs DEF SamePlaces, AliveInv, FollowInv
<1>2. Survives /\ MadeInv /\ OnlyMade
  BY <1>1 DEF AliveInv, FollowInv, OneInv, MadeInv
<1>3. PICK x \in Paths : Mkdir(x)
  BY <1>2, UserOnlyMakes
<1>4. /\ x # Root /\ IsDir(ParentOf(x))
      /\ queue' = Queued(queue, dirs[ParentOf(x)], "create", NameOf(x))
  BY <1>3 DEF Mkdir, Change
<1>5. /\ ParentOf(x) \in Paths /\ NameOf(x) \in Names
      /\ dirs[ParentOf(x)] \in Inodes /\ dirs[ParentOf(x)][1] = ParentOf(x)
      /\ dirs[ParentOf(x)] # None
  <2>1. ParentOf(x) \in Paths /\ NameOf(x) \in Names
    BY <1>4, NameOfPath
  <2> QED
    BY <1>1, <1>2, <1>4, <2>1, TypesParts
       DEF IsDir, FsTypes, AliveInv, FollowInv, OneInv, MadeInv, PathInv, LinkInv, InodesTell, DirPaths
<1> DEFINE d == dirs[ParentOf(x)]
           e == Event(d, "create", NameOf(x))
<1>6. \/ queue' = queue
      \/ queue' = Append(queue, Overflow)
      \/ queue' = Append(queue, e) /\ d \in watched
  BY <1>4 DEF Queued
<1>7. Overflow \in MadeEvents
  BY NoneIsInode DEF Overflow, Event, MadeEvents
<1>8. e \in MadeEvents /\ Announces(e, x) /\ e.wd = d
  BY <1>4, <1>5 DEF Event, MadeEvents, Announces
<1> HIDE DEF e, d
<1>9. Known(queue', watched)
  BY <1>2, <1>6, <1>7, <1>8, KnownAppend DEF Survives, OnlyMade
<1> QED
  BY <1>1, <1>2, <1>9 DEF Survives, Working

\* Every directory nftw() has read the name of is still there.
LEMMA EnterWorks ==
  ASSUME OneInv, NEW n \in Names, ScanEnter(n)
  PROVE  Working'
<1> DEFINE x == Append(Top.path, n)
<1>1. /\ pc = "scan" /\ frames # <<>> /\ n \in Top.todo
  BY DEF ScanEnter
<1>2. AllSeparate /\ Types
  BY <1>1 DEF OneInv, Working, MadeInv, PathInv, LinkInv
<1>3. /\ Len(frames) \in 1..Len(frames) /\ Top = frames[Len(frames)] /\ Top.path \in Paths /\ x \in Paths
  BY <1>1, <1>2, TopFacts DEF Top
<1>4. x # Root /\ ParentOf(x) = Top.path /\ NameOf(x) = n
  BY <1>3, PathOfName, NameOfAppend
<1> HIDE DEF x
<1>5. x \in NamedPaths
  BY <1>1, <1>3, <1>4 DEF NamedPaths
<1>6. IsDir(x)
  BY <1>2, <1>5 DEF AllSeparate, Separate, DirPaths
<1> QED
  BY <1>1, <1>6 DEF ScanEnter, x, Working

LEMMA EnterSurvives ==
  ASSUME AliveInv, NEW n \in Names, ScanEnter(n)
  PROVE  Working' /\ Survives'
<1>1. Working'
  BY EnterWorks DEF AliveInv, FollowInv
<1>2. /\ UNCHANGED <<watched, queue, batch, heap, live, stack, pc>>
      /\ Len(frames) \in Nat \ {0} /\ Len(frames') = Len(frames) + 1
  BY <1>1, ScanEnterIs DEF AliveInv, FollowInv
<1>3. frames' # <<>>
  BY <1>2, EmptySeq
<1>4. UNCHANGED root /\ Survives
  BY DEF ScanEnter, AliveInv, Working
<1> QED
  BY <1>1, <1>2, <1>3, <1>4 DEF Survives

LEMMA LeaveSurvives ==
  ASSUME AliveInv, AllShown, ScanLeave
  PROVE  Working' /\ Survives'
<1>1. PICK x \in Paths, r \in Nat, w \in Nat, d \in Inodes :
         /\ UNCHANGED <<queue, batch, pc>>
         /\ watched' = watched \cup ({d} \ {None})
         /\ live' = live \cup {w} /\ heap'[w].wd = d
         /\ \A c \in live : heap'[c].path = heap[c].path /\ heap'[c].wd = heap[c].wd
         /\ Len(frames) = r + 1 /\ Len(frames') = r
  BY ScanLeaveIs DEF AliveInv, FollowInv
<1>2. /\ pc = "scan" /\ frames # <<>> /\ UNCHANGED root /\ Survives
      /\ \E e \in AddWatch(Top) : Insert(Top.path, e, Len(frames) - 1)
      /\ Types /\ FsTypes /\ LinkInv
  BY NoneHidden, TypesParts DEF ScanLeave, AliveInv, Working, FollowInv, OneInv, MadeInv, PathInv, LinkInv
<1>3. Known(queue', watched') /\ Known(batch', watched')
  BY <1>1, <1>2, KnownMore DEF Survives
<1>4. \A e \in watched' : \E c \in live' : heap'[c].wd = e
  BY <1>1, <1>2 DEF Survives
<1>5. ASSUME frames' = <<>>
      PROVE  Len(stack') = 1
  <2>1. r = 0 /\ Len(frames) - 1 = 0
    BY <1>1, <1>5, EmptySeq
  <2>2. Top \in Frames /\ Top.path \in Paths /\ 0 \in 0..MaxDepth
    BY <1>2, TopFacts, BoundsAssumption
  <2> DEFINE top == Top.path
  <2>5. PICK inode \in Inodes : Insert(top, inode, 0) /\ top \in Paths
    BY <1>2, <2>1, <2>2, AddWatchFacts
  <2> HIDE DEF top
  <2>3. PICK k \in 0..Len(stack) : Inserted(top, inode, 0, k)
    BY <1>2, <2>2, <2>5, InsertLeads
  <2>4. k = 0
    <3> SUFFICES ASSUME k # 0 PROVE FALSE
      OBVIOUS
    <3>1. Len(stack) \in Nat /\ \A m \in 1..Len(stack) : stack[m] \in 1..Len(heap)
      BY <1>2, CellTypes
    <3>2. k \in 1..Len(stack)
      BY <3>1
    <3>3. heap[stack[k]].level \in Nat
      BY <1>2, <3>1, <3>2, CellTypes
    <3>4. heap[stack[k]].level < 0
      BY <2>3, <3>1, <3>2 DEF Inserted
    <3> QED
      BY <3>3, <3>4
  <2> QED
    BY <2>3, <2>4 DEF Inserted
<1> QED
  BY <1>1, <1>2, <1>3, <1>4, <1>5 DEF Survives, Working

\* A known event is of a live watcher, and if a directory, of one that is there.
LEMMA EventKnown ==
  ASSUME AliveInv, Handling, Ev # Overflow
  PROVE  /\ Ev.wd \in watched /\ EvViewer \in live /\ EvViewer # Nil
         /\ Ev.kind = "create" /\ EvPath \in Paths /\ IsDir(EvPath)
<1>1. /\ pc = "handle" /\ batch # <<>> /\ Survives /\ OnlyMade /\ Types /\ InodesTell /\ AllSeparate
  BY DEF Handling, AliveInv, Working, FollowInv, OneInv, MadeInv, PathInv, LinkInv
<1>2. PICK q \in Paths : Ev.wd \in watched /\ Announces(Ev, q)
  BY <1>1, KnownTail DEF Survives, OnlyMade, Ev
<1>3. EvViewer # Nil
  <2>1. PICK c \in live : heap[c].wd = Ev.wd
    BY <1>1, <1>2 DEF Survives
  <2>2. /\ table = live /\ live \subseteq Nat \ {Nil} /\ IsFiniteSet(live)
    <3>1. table = live /\ live \subseteq 1..Len(heap) /\ Len(heap) \in Nat /\ IsFiniteSet(live)
      BY <1>1, CellTypes DEF Types, TypeOK
    <3> QED
      BY <3>1 DEF Nil
  <2> DEFINE S == {e \in table : heap[e].wd = Ev.wd}
  <2>3. c \in S /\ S \in SUBSET live /\ S # {}
    BY <2>1, <2>2
  <2>4. Found(S) \in S
    BY <1>1, <2>3, FoundIsOne
  <2> QED
    BY <2>2, <2>3, <2>4 DEF EvViewer, ByWd
<1>4. EvViewer \in live /\ heap[EvViewer].wd = Ev.wd
  BY <1>1, <1>3, SearchFinds DEF EvViewer
<1>8. Ev.kind = "create" /\ Ev.wd # None
  <2>1. Ev \in MadeEvents
    BY <1>1, HeadTailProperties DEF Ev, OnlyMade
  <2> QED
    BY <1>2, <2>1 DEF Announces, MadeEvents
<1>5. /\ q # Root /\ heap[EvViewer].path = ParentOf(q) /\ Ev.name = NameOf(q)
      /\ Ev.kind = "create"
  BY <1>1, <1>2, <1>4, <1>8 DEF InodesTell, Announces
<1>6. EvPath = q
  BY <1>5, AppendParts DEF EvPath
<1>7. q \in DirPaths
  <2>1. batch \in Seq(MadeEvents) /\ Head(batch) = batch[1] /\ 1 \in 1..Len(batch)
    BY <1>1, EmptySeq, HeadTailProperties DEF OnlyMade
  <2>2. q \in AnnouncedBy(batch)
    BY <1>2, <2>1 DEF AnnouncedBy, Ev
  <2> QED
    BY <1>1, <2>2 DEF AllSeparate, Separate
<1> QED
  BY <1>2, <1>3, <1>4, <1>5, <1>6, <1>7 DEF DirPaths

LEMMA CreateSurvives ==
  ASSUME AliveInv, HandleCreate
  PROVE  Working' /\ Survives'
<1>1. Handling /\ Ev # Overflow
  <2>1. Overflow.kind = "overflow"
    BY DEF Overflow, Event
  <2> QED
    BY <2>1 DEF HandleCreate
<1>2. IsDir(EvPath) /\ EvPath \in Paths
  BY <1>1, EventKnown
<1>3. /\ UNCHANGED <<watched, queue, heap, live, root>> /\ pc' = "scan"
      /\ frames' \in {<<f>> : f \in Opened(EvPath)} /\ batch' = Tail(batch) /\ batch # <<>>
      /\ Survives /\ OnlyMade
  BY <1>1, <1>2
     DEF HandleCreate, Handling, Rest, treeVars, AliveInv, Working, FollowInv, OneInv, MadeInv
<1>4. frames' # <<>>
  BY <1>3
<1>5. Known(batch', watched)
  BY <1>3, KnownTail DEF OnlyMade, Survives
<1> QED
  BY <1>3, <1>4, <1>5 DEF Survives, Working

LEMMA DoneSurvives ==
  ASSUME AliveInv, ScanDone
  PROVE  Working' /\ Survives'
<1>1. Survives /\ Len(stack) = 1 /\ Types /\ PathInv
  BY DEF ScanDone, Survives, AliveInv, Working, FollowInv, OneInv, MadeInv, PathInv, LinkInv
<1>2. /\ UNCHANGED <<watched, queue, batch, live>>
      /\ pc' \in {"idle", "handle"}
      /\ root' = IF root = Nil THEN stack[1] ELSE root
  BY <1>1 DEF ScanDone
<1>3. stack[1] \in live
  BY <1>1, CellTypes
<1>4. \A c \in live : heap'[c].wd = heap[c].wd
  BY AsideIs DEF Aside, ScanDone, AliveInv, Working, FollowInv
<1> QED
  BY <1>1, <1>2, <1>3, <1>4 DEF Survives, Working

LEMMA EndSurvives ==
  ASSUME AliveInv, EndBatch
  PROVE  Working' /\ Survives'
<1>1. /\ Survives /\ Types /\ NoneLeadsToFreed
      /\ pc = "handle" /\ UNCHANGED <<watched, queue, batch, live, heap, root>>
  BY DEF EndBatch, AliveInv, Working, FollowInv, OneInv, MadeInv, PathInv, LinkInv, Chained,
         treeVars
<1>2. root \in live
  BY <1>1 DEF Types, Attached, Survives
<1>3. Walkable
  BY <1>1, <1>2 DEF Walkable, NoneLeadsToFreed
<1> QED
  BY <1>1, <1>3 DEF EndBatch, Survives, Working

LEMMA QueuesSurvive ==
  ASSUME AliveInv, Working, ReadEvents \/ WritePipe \/ ReadPipe \/ PassOver \/ UNCHANGED vars
  PROVE  Working' /\ Survives'
<1>1. Survives /\ OnlyMade
  BY DEF AliveInv, FollowInv, OneInv, MadeInv
<1>2. UNCHANGED <<watched, live, heap, root, frames, stack>>
  BY DEF ReadEvents, WritePipe, ReadPipe, PassOver, treeVars, vars
<1>3. /\ pc' \in {"write", "handle"} \/ UNCHANGED pc
      /\ pc' = "scan" => UNCHANGED pc
  BY DEF ReadEvents, WritePipe, ReadPipe, PassOver, vars
<1>4. Known(queue', watched) /\ Known(batch', watched)
  <2>1. CASE ReadEvents
    <3>1. queue \in Seq(MadeEvents) /\ Len(queue) \in Nat /\ Known(queue, watched)
      BY <1>1, LenProperties DEF OnlyMade, Survives
    <3>2. PICK r \in 1..Len(queue) :
             /\ Len(batch') = r /\ Len(queue') = Len(queue) - r
             /\ \A i \in 1..r : batch'[i] = queue[i]
             /\ \A i \in 1..Len(queue) - r : queue'[i] = queue[r + i]
      BY <2>1, <3>1, ReadFacts
    <3>3. /\ \A i \in 1..Len(batch') : i \in 1..Len(queue) /\ batch'[i] = queue[i]
          /\ \A i \in 1..Len(queue') : r + i \in 1..Len(queue) /\ queue'[i] = queue[r + i]
      BY <3>1, <3>2
    <3> QED
      BY <3>1, <3>3 DEF Known
  <2>2. CASE PassOver
    BY <1>1, <2>2, KnownTail DEF PassOver, Handling, Rest, Survives, OnlyMade
  <2>3. CASE WritePipe \/ ReadPipe \/ UNCHANGED vars
    BY <1>1, <2>3 DEF WritePipe, ReadPipe, vars, Survives
  <2> QED
    BY <2>1, <2>2, <2>3
<1> QED
  BY <1>1, <1>2, <1>3, <1>4 DEF Survives, Working

\* The thread is working, or cleanup_watchers() has been called.
LEMMA StepAlive ==
  ASSUME AliveInv, OnlyMkdir, [Next]_vars
  PROVE  AliveInv'
<1>1. FollowInv'
  BY StepFollow DEF AliveInv
<1>2. AllShown
  BY DEF OnlyMkdir
<1>3. Types /\ OnlyMade
  BY DEF AliveInv, FollowInv, OneInv, MadeInv, PathInv, LinkInv
<1>4. CASE Working
  <2>1. (Working' /\ Survives') \/ (pc' = "cleanup" /\ "cleanup" \in UserOps)
    <3>1. CASE User
      BY <3>1, UserSurvives
    <3>2. CASE \E n \in Names : ScanEnter(n)
      BY <3>2, EnterSurvives
    <3>3. CASE ScanLeave
      BY <1>2, <3>3, LeaveSurvives
    <3>4. CASE ScanDone
      BY <3>4, DoneSurvives
    <3>5. CASE HandleCreate
      BY <3>5, CreateSurvives
    <3>6. CASE EndBatch
      BY <3>6, EndSurvives
    <3>7. CASE ReadEvents \/ WritePipe \/ ReadPipe \/ PassOver \/ UNCHANGED vars
      BY <1>4, <3>7, QueuesSurvive
    <3>8. ~HandleUnknown /\ ~HandleDelete
      <4>1. Handling /\ Ev # Overflow => EvViewer # Nil /\ Ev.kind = "create"
        BY EventKnown
      <4>2. Overflow.kind = "overflow"
        BY DEF Overflow, Event
      <4> QED
        BY <4>1, <4>2 DEF HandleUnknown, HandleDelete
    <3>9. ~RemoveStep /\ ~RemoveDone /\ ~CleanupDone
      <4>1. ~RemoveStep
        BY <1>4, RemoveCases, <1>3 DEF OnlyMade, Working
      <4> QED
        BY <1>4, <4>1 DEF RemoveDone, CleanupDone, Working
    <3>10. ASSUME CallCleanup
           PROVE  pc' = "cleanup" /\ "cleanup" \in UserOps
      BY <3>10 DEF CallCleanup
    <3> QED
      BY <3>1, <3>2, <3>3, <3>4, <3>5, <3>6, <3>7, <3>8, <3>9, <3>10 DEF Next, Thread
  <2> QED
    BY <1>1, <2>1 DEF AliveInv, Working
<1>5. CASE ~Working
  <2>1. /\ pc \in {"cleanup", "swept", "undefined"} /\ "cleanup" \in UserOps
        /\ pc = "undefined" => cause = "cleanup"
    BY <1>3, <1>5 DEF AliveInv, Working, Types, TypeOK, OnlyMade
  <2>2. ~User
    BY <2>1, UserIs DEF AliveInv, FollowInv, Working
  <2>3. /\ pc' \in {"cleanup", "swept", "undefined"}
        /\ pc' = "undefined" => cause' = "cleanup"
    <3>1. CASE RemoveStep
      BY <2>1, <3>1, RemoveCases DEF RemoveCase
    <3>2. CASE CleanupDone \/ ReadPipe \/ UNCHANGED vars
      BY <2>1, <3>2 DEF CleanupDone, ReadPipe, vars
    <3>3. /\ ~(\E n \in Names : ScanEnter(n)) /\ ~ScanLeave /\ ~ScanDone /\ ~ReadEvents
          /\ ~WritePipe /\ ~HandleUnknown /\ ~PassOver /\ ~HandleCreate /\ ~HandleDelete
          /\ ~RemoveDone /\ ~EndBatch /\ ~CallCleanup
      BY <2>1 DEF ScanEnter, ScanLeave, ScanDone, ReadEvents, WritePipe, HandleUnknown, PassOver,
                  HandleCreate, HandleDelete, Handling, RemoveDone, EndBatch, CallCleanup
    <3> QED
      BY <2>2, <3>1, <3>2, <3>3 DEF Next, Thread
  <2> QED
    BY <1>1, <2>1, <2>3 DEF AliveInv, Working
<1> QED
  BY <1>4, <1>5

LEMMA InitAlive == Init => AliveInv
<1> SUFFICES ASSUME Init PROVE AliveInv
  OBVIOUS
<1>1. /\ queue = <<>> /\ batch = <<>> /\ watched = {} /\ root = Nil /\ pc = "scan"
      /\ frames \in {<<f>> : f \in Opened(Root)}
  BY DEF Init
<1>2. frames # <<>>
  BY <1>1
<1> QED
  BY <1>1, <1>2, InitFollow, KnownNone DEF AliveInv, Survives, Working

\* Directories that are only made harm nothing, however fast they come: no assertion of the
\* thread fails and its nftw() does not, events dropped or watches refused or not; nothing is
\* left unwatched but for a scan disturbed, an event dropped or a watch refused to it or above
\* it; and but for cleanup_watchers() nothing stops the thread or leads it into freed memory.
THEOREM MakingIsSafe ==
  ASSUME OnlyMkdir
  PROVE  Spec => [](EachAlone /\ pc # "failed" /\ ("cleanup" \notin UserOps => Working))
<1>1. AliveInv /\ [Next]_vars => AliveInv'
  BY StepAlive
<1>2. AliveInv => EachAlone /\ pc # "failed" /\ ("cleanup" \notin UserOps => Working)
  <2> SUFFICES ASSUME AliveInv
               PROVE  EachAlone /\ pc # "failed" /\ ("cleanup" \notin UserOps => Working)
    OBVIOUS
  <2>1. pc # "failed" /\ ("cleanup" \notin UserOps => Working)
    BY DEF AliveInv, Working
  <2>2. MissHasCause
    <3> SUFFICES ASSUME AllHandled, quiet, NEW p \in Paths, Visible(p), ~CutOff(p)
                 PROVE  dirs[p] \in watched
      BY DEF MissHasCause
    <3>1. Settled /\ WatchesAgree
      BY FollowSettled DEF AllHandled, AliveInv, FollowInv, Working
    <3>2. PICK c \in live : heap[c].path = p /\ heap[c].wd = dirs[p]
      BY <3>1 DEF Settled, Watches
    <3>3. heap[c].wd # None
      BY <3>2 DEF Visible, IsDir
    <3> QED
      BY <3>1, <3>2, <3>3 DEF WatchesAgree
  <2>3. FreedBeside
    BY DEF FreedBeside, AliveInv, Working
  <2> QED
    BY <2>1, <2>2, <2>3 DEF EachAlone, DiesBehindOnly
<1> QED
  BY InitAlive, <1>1, <1>2, PTL DEF Spec

-----------------------------------------------------------------------------
(* CleanupSafe, whatever is hidden: as long as nothing is changed there is one scan,     *)
(* which meets every directory once, and a watcher hangs on newer ones only.  With a     *)
(* watch for all of them their descriptors come in the order of the watchers.            *)

\* What nftw() has still to enter lies beside all it has entered or left.
ScannedOnce ==
  /\ root = Nil
  /\ \A k \in 1..Len(frames) : Len(frames[k].path) = k - 1 /\ frames[k].path \in DirPaths
  /\ \A q \in NamedPaths :
       /\ q \in DirPaths
       /\ \A k \in 1..Len(frames) : ~IsPrefix(q, frames[k].path)
       /\ \A c \in 1..Len(heap) : ~IsPrefix(q, heap[c].path)
  /\ \A k \in 1..Len(frames), c \in 1..Len(heap) : heap[c].path # frames[k].path
  /\ Len(heap) # 0 => stack # <<>> /\ stack[Len(stack)] = Len(heap)

\* Watchers are of different inodes, and a watcher hangs on newer ones only.
Grown ==
  /\ \A p \in DirPaths : dirs[p][1] = p
  /\ \A c \in 1..Len(heap) : heap[c].wd # None => heap[c].wd[1] = heap[c].path
  /\ \A c, e \in 1..Len(heap) : heap[c].path = heap[e].path => c = e
  /\ \A c \in 1..Len(heap) : heap[c].prev # Nil => c < heap[c].prev /\ heap[c].prev <= Len(heap)

\* The first m watchers are freed, and the others are to be, in their order.
SweptUpTo(m) ==
  /\ m <= Len(heap)
  /\ live = m + 1..Len(heap)
  /\ Len(work) = Len(heap) - m
  /\ \A k \in 1..Len(work) : work[k] = Task("free", m + k)

Unchanged ==
  /\ queue = <<>> /\ batch = <<>>
  /\ pc \in {"scan", "idle", "failed", "cleanup", "swept", "undefined"}
  /\ Grown
  /\ pc \in {"scan", "idle"} => live = 1..Len(heap)
  /\ pc = "scan" => ScannedOnce
  /\ pc \in {"idle", "cleanup"} => root = Len(heap)
  /\ pc = "cleanup" /\ root < HtbSize /\ Refused = {} => \E m \in Nat : SweptUpTo(m)

SweepInv == Types /\ (made = 0 => Unchanged)

LEMMA WdsApart ==
  ASSUME Types, Grown, Refused = {}
  PROVE  /\ \A c \in 1..Len(heap) : heap[c].wd # None
         /\ \A c, e \in 1..Len(heap) : heap[c].wd = heap[e].wd => c = e
<1>1. DOMAIN heap = 1..Len(heap)
  BY CellTypes
<1>2. \A c \in 1..Len(heap) : heap[c].wd # None
  BY <1>1 DEF Refused
<1> QED
  BY <1>2 DEF Grown

\* The kernel numbers the inodes as they come, so that the watch descriptor of a watcher
\* is its index.
LEMMA WdIsIndex ==
  ASSUME Types, Grown, Refused = {}
  PROVE  \A c \in 1..Len(heap) : WdNumber(heap[c].wd) = c
<1> TAKE c \in 1..Len(heap)
<1> DEFINE d == heap[c].wd
           S == {heap[e].wd : e \in 1..c}
           f == [e \in 1..c |-> heap[e].wd]
<1>1. /\ Len(heap) \in Nat /\ DOMAIN heap = 1..Len(heap) /\ c \in Nat
      /\ \A e \in 1..c : e \in 1..Len(heap)
  BY CellTypes
<1>2. Least({k \in DOMAIN heap : heap[k].wd = d}) = c
  <2>1. {k \in DOMAIN heap : heap[k].wd = d} = {c}
    BY <1>1, WdsApart
  <2>2. Least({c}) = c
    BY <1>1 DEF Least
  <2> QED
    BY <2>1, <2>2
<1>3. f \in Bijection(1..c, S)
  <2>1. f \in [1..c -> S]
    OBVIOUS
  <2>2. \A i, j \in 1..c : f[i] = f[j] => i = j
    BY <1>1, WdsApart
  <2>3. \A s \in S : \E i \in 1..c : f[i] = s
    OBVIOUS
  <2> HIDE DEF f, S
  <2>4. DOMAIN f = 1..c
    BY <2>1
  <2> QED
    BY <2>1, <2>2, <2>3, <2>4 DEF Bijection, Injection, Surjection, IsInjective
<1>4. Cardinality(S) = c
  <2>1. ExistsBijection(1..c, S)
    BY <1>3 DEF ExistsBijection
  <2> HIDE DEF S
  <2> QED
    BY <1>1, <2>1, FS_CountingElements
<1>5. S \ {None} = S
  BY <1>1, WdsApart
<1> HIDE DEF S
<1>6. S = {heap[e].wd : e \in 1..c}
  BY DEF S
<1> QED
  BY <1>2, <1>4, <1>5, <1>6 DEF WdNumber

LEMMA SmallModulus == \A m, n \in Nat : m < n => m % n = m
OBVIOUS

\* As long as the watch descriptors do not wrap, hashtb_wd is traversed in their order.
LEMMA SweptInOrder ==
  ASSUME Types, Grown, Refused = {}, live = 1..Len(heap), Len(heap) < HtbSize
  PROVE  /\ DOMAIN SweepOrder(Buckets) = 1..Len(heap)
         /\ \A k \in 1..Len(heap) : SweepOrder(Buckets)[k] = k
<1> DEFINE L == Len(heap)
           bucket == Buckets
<1>1. L \in Nat /\ table = 1..L /\ HtbSize \in Nat
  BY CellTypes, TreesAssumption DEF Types, TypeOK
<1>2. \A c \in 1..L : bucket[c] = c
  <2> TAKE c \in 1..L
  <2>1. bucket[c] = WdNumber(heap[c].wd) % HtbSize
    BY WdsApart DEF Buckets
  <2>2. c % HtbSize = c
    BY <1>1, SmallModulus
  <2> QED
    BY <2>1, <2>2, WdIsIndex
<1> HIDE DEF bucket
<1>3. \A c, e \in 1..L : SweptBefore(bucket, e, c) <=> e < c
  BY <1>1, <1>2 DEF SweptBefore
<1>4. \A c \in 1..L : Cardinality({e \in table : SweptBefore(bucket, e, c)}) = c - 1
  <2> TAKE c \in 1..L
  <2>1. {e \in table : SweptBefore(bucket, e, c)} = 1..c - 1
    BY <1>1, <1>3
  <2>2. 1 \in Int /\ c - 1 \in Int /\ c - 1 >= 0
    BY <1>1
  <2>3. Cardinality(1..c - 1) = IF 1 > c - 1 THEN 0 ELSE c - 1 - 1 + 1
    BY <2>2, FS_Interval
  <2>4. (IF 1 > c - 1 THEN 0 ELSE c - 1 - 1 + 1) = c - 1
    BY <2>2
  <2> QED
    BY <2>1, <2>3, <2>4
<1>5. Cardinality(table) = L
  <2>1. 1 \in Int /\ L \in Int
    BY <1>1
  <2>2. Cardinality(1..L) = IF 1 > L THEN 0 ELSE L - 1 + 1
    BY <2>1, FS_Interval
  <2> QED
    BY <1>1, <2>2
<1>6. \A k \in 1..L :
        Found({c \in table : Cardinality({e \in table : SweptBefore(bucket, e, c)}) = k - 1}) = k
  <2> TAKE k \in 1..L
  <2> DEFINE S == {c \in table : Cardinality({e \in table : SweptBefore(bucket, e, c)}) = k - 1}
  <2>1. S = {k}
    BY <1>1, <1>4
  <2>2. S \in SUBSET live
    BY <1>1, <2>1
  <2> HIDE DEF S
  <2>3. Found(S) \in S
    BY <2>1, <2>2, FoundIsOne
  <2>4. Found(S) = k
    BY <2>1, <2>3
  <2> QED
    BY <2>4 DEF S
<1>7. SweepOrder(bucket) = [k \in 1..L |->
        Found({c \in table : Cardinality({e \in table : SweptBefore(bucket, e, c)}) = k - 1})]
  BY <1>5 DEF SweepOrder
<1>8. DOMAIN SweepOrder(bucket) = 1..L /\ \A k \in 1..L : SweepOrder(bucket)[k] = k
  BY <1>6, <1>7
<1> QED
  BY <1>8 DEF bucket

LEMMA CleanupSweeps ==
  ASSUME Types, Unchanged, CallCleanup
  PROVE  Unchanged'
<1>1. /\ pc = "idle" /\ pc' = "cleanup" /\ UNCHANGED <<dirs, queue, batch, heap, live, root>>
  BY DEF CallCleanup, fsVars, treeVars
<1>2. /\ Grown /\ live = 1..Len(heap) /\ root = Len(heap) /\ Len(heap) \in Nat
  BY <1>1, CellTypes DEF Unchanged
<1>3. Grown'
  BY <1>1, <1>2 DEF Grown, DirPaths, IsDir
<1>4. ASSUME root < HtbSize, Refused = {} PROVE SweptUpTo(0)'
  <2> DEFINE order == SweepOrder(Buckets)
  <2>2. DOMAIN order = 1..Len(heap) /\ \A k \in 1..Len(heap) : order[k] = k
    BY <1>2, <1>4, SweptInOrder
  <2>3. work' = [k \in DOMAIN order |-> Task("free", order[k])]
    BY DEF CallCleanup
  <2> HIDE DEF order
  <2>4. work' = [k \in 1..Len(heap) |-> Task("free", k)]
    BY <2>2, <2>3
  <2>5. Len(work') = Len(heap) /\ \A k \in 1..Len(heap) : work'[k] = Task("free", k)
    BY <1>2, <2>4
  <2> QED
    BY <1>1, <1>2, <2>5 DEF SweptUpTo
<1>5. Refused' = Refused
  BY <1>1 DEF Refused
<1> QED
  BY <1>1, <1>2, <1>3, <1>4, <1>5 DEF Unchanged

LEMMA UnlinkedSweeps ==
  ASSUME Types, Unchanged, RemoveStep
  PROVE  Unchanged'
<1> DEFINE t == Head(work)
<1>1. /\ pc = "cleanup" /\ work # <<>> /\ RemoveCase(t)
      /\ UNCHANGED <<root, queue, batch, dirs>>
  BY RemoveCases DEF Unchanged
<1>2. Grown /\ root = Len(heap) /\ Len(heap) \in Nat /\ work \in Seq(Tasks)
  BY <1>1, CellTypes DEF Unchanged, Types
<1>3. /\ Len(heap') = Len(heap)
      /\ \A c \in 1..Len(heap) : /\ heap'[c].path = heap[c].path /\ heap'[c].wd = heap[c].wd
                                 /\ heap'[c].prev = heap[c].prev
  <2>1. CASE UNCHANGED heap
    BY <2>1
  <2>2. CASE t.cell \in live /\ heap[t.cell].prev \in live \cup {Nil} /\ Free(t.cell)
    BY <2>2, FreeFacts
  <2> HIDE DEF t
  <2> QED
    BY <1>1, <2>1, <2>2 DEF RemoveCase
<1>8. Types'
  BY StepTypes DEF Next, Thread
<1>4. Grown'
  BY <1>1, <1>2, <1>3 DEF Grown, DirPaths, IsDir
<1>5. pc' \in {"cleanup", "undefined"}
  BY <1>1 DEF RemoveCase
<1>7. Refused' = Refused
  <2>1. DOMAIN heap = 1..Len(heap) /\ DOMAIN heap' = 1..Len(heap)
    <3>1. Types'
      BY <1>8
    <3> QED
      BY <1>3, <3>1, CellTypes DEF Types, TypeOK
  <2> QED
    BY <1>3, <2>1 DEF Refused
<1>6. ASSUME pc' = "cleanup", root < HtbSize, Refused = {}
      PROVE  \E m \in Nat : SweptUpTo(m)'
  <2>1. PICK m \in Nat : SweptUpTo(m)
    BY <1>1, <1>6 DEF Unchanged
  <2>2. Len(work) # 0 /\ Len(work) = Len(heap) - m /\ m + 1 \in 1..Len(heap)
    BY <1>1, <1>2, <2>1, EmptySeq DEF SweptUpTo
  <2>3. t = Task("free", m + 1)
    <3>1. t = work[1] /\ 1 \in 1..Len(work)
      BY <1>1, <1>2, <2>2, HeadTailProperties
    <3> QED
      BY <2>1, <3>1 DEF SweptUpTo
  <2>4. t.op = "free" /\ t.cell = m + 1
    BY <2>3 DEF Task
  <2> HIDE DEF t
  <2>5. work' = Tail(work) /\ live' = live \ {m + 1}
    BY <1>1, <1>6, <2>2, <2>4 DEF RemoveCase, Free, Nil
  <2>6. /\ Len(Tail(work)) = Len(work) - 1
        /\ \A k \in 1..Len(Tail(work)) : Tail(work)[k] = work[k + 1]
    BY <1>1, <1>2, HeadTailProperties
  <2>7. Len(work') = Len(heap') - (m + 1) /\ m + 1 <= Len(heap')
    BY <1>2, <1>3, <2>2, <2>5, <2>6
  <2>8. live' = m + 1 + 1..Len(heap')
    BY <1>2, <1>3, <2>1, <2>5 DEF SweptUpTo
  <2>9. \A k \in 1..Len(work') : work'[k] = Task("free", m + 1 + k)
    <3> TAKE k \in 1..Len(work')
    <3>1. work'[k] = work[k + 1] /\ k + 1 \in 1..Len(work)
      BY <1>2, <2>2, <2>5, <2>6
    <3>2. work[k + 1] = Task("free", m + (k + 1))
      BY <2>1, <3>1 DEF SweptUpTo
    <3>3. m + (k + 1) = m + 1 + k
      OBVIOUS
    <3> QED
      BY <3>1, <3>2, <3>3
  <2>10. SweptUpTo(m + 1)' /\ m + 1 \in Nat
    BY <2>7, <2>8, <2>9 DEF SweptUpTo
  <2> QED
    BY <2>10
<1> QED
  BY <1>1, <1>2, <1>3, <1>4, <1>5, <1>6, <1>7 DEF Unchanged

\* Of two paths that begin like a third, the shorter begins the longer.
LEMMA PrefixesNest ==
  \A p, q, x \in Paths :
    IsPrefix(p, x) /\ IsPrefix(q, x) /\ Len(p) <= Len(q) => IsPrefix(p, q)
<1> TAKE p, q, x \in Paths
<1> HAVE IsPrefix(p, x) /\ IsPrefix(q, x) /\ Len(p) <= Len(q)
<1>1. Len(p) \in Nat /\ Len(q) \in Nat
  BY PathIsSeq
<1>2. \A k \in 1..Len(p) : p[k] = x[k] /\ q[k] = x[k]
  BY <1>1, PrefixFacts
<1> QED
  BY <1>2, PrefixFacts

\* What nftw() has still to enter after it has entered x.
LEMMA EnterNames ==
  ASSUME Types, ScannedOnce, NEW n \in Names, ScanEnter(n)
  PROVE  \E x \in NamedPaths :
           /\ Len(frames) \in Nat \ {0} /\ Len(x) = Len(frames)
           /\ x # Root /\ ParentOf(x) = frames[Len(frames)].path
           /\ UNCHANGED <<dirs, queue, batch, heap, live, stack, pc, root>>
           /\ Len(frames') = Len(frames) + 1 /\ frames'[Len(frames) + 1].path = x
           /\ \A k \in 1..Len(frames) : frames'[k].path = frames[k].path
           /\ NamedPaths' \subseteq (NamedPaths \ {x}) \cup DirsIn(DirPaths, x)
<1> DEFINE x == Append(Top.path, n)
           L == Len(frames)
<1>1. /\ pc = "scan" /\ frames # <<>> /\ n \in Top.todo
      /\ UNCHANGED <<dirs, queue, batch, root>>
  BY DEF ScanEnter, fsVars
<1>2. /\ L \in Nat \ {0} /\ L \in 1..L /\ Top = frames[L] /\ Top.path \in Paths /\ x \in Paths
  BY <1>1, TopFacts DEF Top
<1>3. x # Root /\ ParentOf(x) = Top.path /\ NameOf(x) = n
  BY <1>2, PathOfName, NameOfAppend
<1>4. /\ NameTaken(n) \in Seq(Frames) /\ Len(NameTaken(n)) = L
      /\ \A k \in 1..L : /\ NameTaken(n)[k].path = frames[k].path
                         /\ NameTaken(n)[k].todo \subseteq frames[k].todo
                         /\ NameTaken(n)[k].todo = IF k = L THEN Top.todo \ {n} ELSE frames[k].todo
  BY <1>1, NameTakenFacts
<1> HIDE DEF x
<1>5. x \in NamedPaths
  BY <1>1, <1>2, <1>3 DEF NamedPaths
<1>6. x \in DirPaths
  BY <1>5 DEF ScannedOnce
<1>7. PICK f \in Opened(x) : frames' = Append(NameTaken(n), f) /\ UNCHANGED <<pc, heap, live, stack>>
  BY <1>6 DEF ScanEnter, x, NameTaken, treeVars, DirPaths
<1>12. f \in Frames /\ f.path = x /\ f.todo \subseteq Listed(x).todo
  <2>1. f \in Frames /\ f.path = x /\ f.todo \subseteq Subdirs(x)
    BY <1>2, <1>7, OpenedFacts, TypesParts
  <2> QED
    BY <2>1 DEF Listed
<1>8. /\ Len(frames') = L + 1 /\ frames'[L + 1] = f
      /\ \A k \in 1..L : frames'[k] = NameTaken(n)[k]
  BY <1>2, <1>4, <1>7, <1>12, AppendProperties
<1>9. \A k \in 1..L + 1 : k \in 1..L \/ k = L + 1
  BY <1>2
<1>10. NamedPaths' \subseteq (NamedPaths \ {x}) \cup DirsIn(DirPaths, x)
  <2> SUFFICES ASSUME NEW q \in NamedPaths'
               PROVE  (q \in NamedPaths /\ q # x) \/ q \in DirsIn(DirPaths, x)
    OBVIOUS
  <2>1. q \in Paths /\ q # Root
    BY DEF NamedPaths
  <2>2. PICK k \in 1..L + 1 : ParentOf(q) = frames'[k].path /\ NameOf(q) \in frames'[k].todo
    BY <1>8 DEF NamedPaths
  <2>3. CASE k \in 1..L
    <3>1. ParentOf(q) = frames[k].path /\ NameOf(q) \in frames[k].todo
      BY <1>4, <1>8, <2>2, <2>3
    <3>2. q # x
      <4> SUFFICES ASSUME q = x PROVE FALSE
        OBVIOUS
      <4>1. Len(frames[k].path) = k - 1 /\ Len(frames[L].path) = L - 1
        BY <1>2, <2>3 DEF ScannedOnce
      <4>2. k = L
        BY <1>2, <1>3, <2>3, <3>1, <4>1
      <4> QED
        BY <1>3, <1>4, <1>8, <2>2, <2>3, <4>2
    <3> QED
      BY <2>1, <2>3, <3>1, <3>2 DEF NamedPaths
  <2>4. CASE k = L + 1
    BY <1>2, <1>8, <1>12, <2>1, <2>2, <2>4, ListedNames
  <2> QED
    BY <1>9, <2>3, <2>4
<1>11. Len(x) = L
  <2>1. Len(frames[L].path) = L - 1
    BY <1>2 DEF ScannedOnce
  <2> QED
    BY <1>2, <1>3, <2>1, ParentFacts
<1> QED
  BY <1>1, <1>2, <1>3, <1>4, <1>5, <1>7, <1>8, <1>10, <1>11, <1>12

LEMMA PrefixOfPrefix ==
  \A p, q, x \in Paths : IsPrefix(p, q) /\ IsPrefix(q, x) => IsPrefix(p, x)
<1> TAKE p, q, x \in Paths
<1> HAVE IsPrefix(p, q) /\ IsPrefix(q, x)
<1>1. Len(p) \in Nat /\ Len(q) \in Nat /\ Len(x) \in Nat
  BY PathIsSeq
<1>2. Len(p) <= Len(q) /\ Len(q) <= Len(x)
  BY PrefixFacts
<1>3. \A k \in 1..Len(p) : p[k] = q[k] /\ q[k] = x[k]
  BY <1>1, <1>2, PrefixFacts
<1>4. Len(p) <= Len(x) /\ \A k \in 1..Len(p) : p[k] = x[k]
  BY <1>1, <1>2, <1>3
<1> QED
  BY <1>4, PrefixFacts

LEMMA EnterSweeps ==
  ASSUME Types, Unchanged, NEW n \in Names, ScanEnter(n)
  PROVE  Unchanged'
<1>1. ScannedOnce /\ Grown /\ pc = "scan"
  BY DEF Unchanged, ScanEnter
<1>2. PICK x \in NamedPaths :
         /\ Len(frames) \in Nat \ {0} /\ Len(x) = Len(frames)
         /\ x # Root /\ ParentOf(x) = frames[Len(frames)].path
         /\ UNCHANGED <<dirs, queue, batch, heap, live, stack, pc, root>>
         /\ Len(frames') = Len(frames) + 1 /\ frames'[Len(frames) + 1].path = x
         /\ \A k \in 1..Len(frames) : frames'[k].path = frames[k].path
         /\ NamedPaths' \subseteq (NamedPaths \ {x}) \cup DirsIn(DirPaths, x)
  BY <1>1, EnterNames
<1> DEFINE L == Len(frames)
<1>3. /\ x \in Paths /\ IsPrefix(x, x) /\ x \in DirPaths /\ NamedPaths \subseteq Paths
      /\ \A c \in 1..Len(heap) : heap[c].path \in Paths
      /\ \A k \in 1..L : frames[k].path \in Paths
  <2>1. x \in Paths /\ x \in DirPaths /\ NamedPaths \subseteq Paths
    BY <1>1 DEF NamedPaths, ScannedOnce
  <2>2. \A k \in 1..L : frames[k] \in Frames
    BY DEF Types, Walking
  <2> QED
    BY <2>1, <2>2, BelowFacts, CellTypes DEF Frames
<1>4. \A k \in 1..L + 1 : k \in 1..L \/ k = L + 1
  BY <1>2
<1>5. \A k \in 1..L + 1 : Len(frames'[k].path) = k - 1 /\ frames'[k].path \in DirPaths
  <2> TAKE k \in 1..L + 1
  <2>1. CASE k \in 1..L
    BY <1>1, <1>2, <2>1 DEF ScannedOnce
  <2>2. CASE k = L + 1
    BY <1>2, <1>3, <2>2
  <2> QED
    BY <1>4, <2>1, <2>2
<1>6. \A k \in 1..L + 1, c \in 1..Len(heap) : heap[c].path # frames'[k].path
  <2> TAKE k \in 1..L + 1, c \in 1..Len(heap)
  <2>1. CASE k \in 1..L
    BY <1>1, <1>2, <2>1 DEF ScannedOnce
  <2>2. CASE k = L + 1
    BY <1>1, <1>2, <1>3, <2>2 DEF ScannedOnce
  <2> QED
    BY <1>4, <2>1, <2>2
<1>7. \A q \in NamedPaths' :
        /\ q \in DirPaths
        /\ \A k \in 1..L + 1 : ~IsPrefix(q, frames'[k].path)
        /\ \A c \in 1..Len(heap) : ~IsPrefix(q, heap[c].path)
  <2> TAKE q \in NamedPaths'
  <2>1. CASE q \in NamedPaths /\ q # x
    <3>1. ~IsPrefix(q, x)
      <4>1. \A k \in 1..L : ~IsPrefix(q, frames[k].path)
        BY <1>1, <2>1 DEF ScannedOnce
      <4>2. L \in 1..L
        BY <1>2
      <4> QED
        BY <1>2, <1>3, <2>1, <4>1, <4>2, PrefixOfParent
    <3>2. \A k \in 1..L + 1 : ~IsPrefix(q, frames'[k].path)
      BY <1>1, <1>2, <1>4, <2>1, <3>1 DEF ScannedOnce
    <3> QED
      BY <1>1, <2>1, <3>2 DEF ScannedOnce
  <2>2. CASE q \in DirsIn(DirPaths, x)
    <3>1. q \in Paths /\ q \in DirPaths /\ q # Root /\ ParentOf(q) = x
      BY <2>2 DEF DirsIn, DirPaths
    <3>2. Len(q) = L + 1
      BY <1>2, <3>1, ParentFacts
    <3>3. \A k \in 1..L + 1 : ~IsPrefix(q, frames'[k].path)
      <4> TAKE k \in 1..L + 1
      <4>1. Len(frames'[k].path) < Len(q) /\ Len(q) \in Nat /\ Len(frames'[k].path) \in Nat
        BY <1>2, <1>5, <3>2
      <4>2. frames'[k].path \in Paths
        BY <1>2, <1>3, <1>4
      <4> QED
        BY <3>1, <4>1, <4>2, PrefixFacts
    <3>4. IsPrefix(x, q)
      BY <1>3, <3>1, ParentBegins
    <3>5. \A c \in 1..Len(heap) : ~IsPrefix(q, heap[c].path)
      BY <1>1, <1>3, <3>1, <3>4, PrefixOfPrefix DEF ScannedOnce
    <3> QED
      BY <3>1, <3>3, <3>5
  <2> QED
    BY <1>2, <2>1, <2>2
<1>9. ScannedOnce'
  <2>1. UNCHANGED <<heap, stack, root>> /\ Len(frames') = L + 1
        /\ DirPaths' = DirPaths
    BY <1>2 DEF DirPaths, IsDir
  <2>2. /\ root = Nil
        /\ \A k \in 1..Len(frames') : Len(frames'[k].path) = k - 1 /\ frames'[k].path \in DirPaths'
        /\ \A k \in 1..Len(frames'), c \in 1..Len(heap) : heap[c].path # frames'[k].path
    BY <1>1, <1>5, <1>6, <2>1 DEF ScannedOnce
  <2>3. \A q \in NamedPaths' :
           /\ q \in DirPaths'
           /\ \A k \in 1..Len(frames') : ~IsPrefix(q, frames'[k].path)
           /\ \A c \in 1..Len(heap) : ~IsPrefix(q, heap[c].path)
    BY <1>7, <2>1
  <2> QED
    BY <1>1, <2>1, <2>2, <2>3 DEF ScannedOnce
<1>10. Grown'
  BY <1>1, <1>2 DEF Grown, DirPaths, IsDir
<1> QED
  BY <1>1, <1>2, <1>9, <1>10 DEF Unchanged

LEMMA LeaveSweeps ==
  ASSUME Types, Unchanged, ScanLeave
  PROVE  Unchanged'
<1> DEFINE x == Top.path
           r == Len(frames) - 1
           w == Len(heap) + 1
<1>1. /\ ScannedOnce /\ Grown /\ pc = "scan" /\ frames # <<>> /\ live = 1..Len(heap)
      /\ UNCHANGED <<dirs, queue, batch, root, pc>> /\ frames' = SubSeq(frames, 1, r)
      /\ queue = <<>> /\ batch = <<>>
  BY DEF Unchanged, ScanLeave, fsVars
<1>2. /\ r \in Nat /\ Len(frames) = r + 1 /\ x = frames[r + 1].path /\ x \in Paths
      /\ r + 1 \in 1..Len(frames) /\ r \in 0..MaxDepth
  BY <1>1, TopFacts DEF Top
<1>3. /\ Len(frames') = r /\ \A k \in 1..r : frames'[k] = frames[k] /\ k \in 1..Len(frames)
  <2>1. frames \in Seq(Frames)
    BY DEF Types, Walking
  <2> QED
    BY <1>1, <1>2, <2>1
<1> HIDE DEF x, r
<1>4. Len(x) = r /\ x \in DirPaths
  <2>1. /\ Len(frames[r + 1].path) = (r + 1) - 1
        /\ frames[r + 1].path \in DirPaths
    BY <1>1, <1>2 DEF ScannedOnce
  <2>2. (r + 1) - 1 = r
    BY <1>2
  <2> QED
    BY <1>2, <2>1, <2>2
<1>5. NamedPaths' \subseteq NamedPaths
  BY <1>2, <1>3 DEF NamedPaths
<1>6. /\ root = Nil
      /\ \A k \in 1..r : Len(frames'[k].path) = k - 1 /\ frames'[k].path \in DirPaths
      /\ \A q \in NamedPaths' :
           /\ q \in DirPaths /\ ~IsPrefix(q, x)
           /\ \A k \in 1..r : ~IsPrefix(q, frames'[k].path)
           /\ \A c \in 1..Len(heap) : ~IsPrefix(q, heap[c].path)
      /\ \A k \in 1..r : frames'[k].path # x
      /\ \A k \in 1..r, c \in 1..Len(heap) : heap[c].path # frames'[k].path
      /\ \A c \in 1..Len(heap) : heap[c].path # x
  <2>1. \A k \in 1..r : frames'[k].path # x
    <3> TAKE k \in 1..r
    <3>1. Len(frames'[k].path) = k - 1
      BY <1>1, <1>3 DEF ScannedOnce
    <3> QED
      BY <1>2, <1>4, <3>1
  <2> QED
    BY <1>1, <1>2, <1>3, <1>5, <2>1 DEF ScannedOnce
<1>7. /\ Grown' /\ live' = 1..Len(heap')
      /\ \A c \in 1..Len(heap') : (c \in 1..Len(heap) /\ heap'[c].path = heap[c].path)
                                  \/ heap'[c].path = x
      /\ Len(heap') # 0 => stack' # <<>> /\ stack'[Len(stack')] = Len(heap')
  <2>1. CASE Filtered(x)
    <3>1. UNCHANGED <<heap, live, stack>>
      BY <2>1 DEF ScanLeave, x, treeVars
    <3> QED
      BY <1>1, <3>1 DEF Grown, DirPaths, IsDir, ScannedOnce
  <2>2. CASE ~Filtered(x)
    <3>0. Top \in Frames /\ FsTypes /\ Top.path = x
      BY <1>1, TopFacts, TypesParts DEF x
    <3>1. PICK d \in Inodes : Insert(x, d, r) /\ d \in {dirs[x], None}
      BY <2>2, <3>0, AddWatchFacts DEF ScanLeave, r
    <3>2. d # None => d[1] = x
      BY <1>1, <1>2, <1>4, <3>1 DEF Grown, DirPaths
    <3>3. PICK k \in 0..Len(stack) :
             /\ Inserted(x, d, r, k)
             /\ heap'[w].path = x /\ heap'[w].wd = d /\ heap'[w].prev = Nil
      BY <1>2, <3>1, InsertLeads
    <3>4. /\ Len(heap) \in Nat /\ Len(heap') = w /\ live' = live \cup {w}
          /\ Len(stack') = k + 1 /\ stack'[k + 1] = w /\ k \in Nat
      BY <3>3, CellTypes DEF Inserted
    <3>5. \A c \in 1..Len(heap) :
            /\ heap'[c].path = heap[c].path /\ heap'[c].wd = heap[c].wd
            /\ heap'[c].prev = heap[c].prev \/ heap'[c].prev = w
      <4> TAKE c \in 1..Len(heap)
      <4>1. heap'[c] = heap[c] \/ heap'[c] = [heap[c] EXCEPT !.prev = w]
        BY <3>3 DEF Inserted
      <4>2. heap[c] \in Watchers
        BY CellTypes
      <4> QED
        BY <4>1, <4>2 DEF Watchers
    <3>6. \A c \in 1..w : c \in 1..Len(heap) \/ c = w
      BY <3>4
    <3>7. Grown'
      <4>1. \A p \in DirPaths' : dirs'[p][1] = p
        BY <1>1 DEF Grown, DirPaths, IsDir
      <4>2. \A c \in 1..w : heap'[c].wd # None => heap'[c].wd[1] = heap'[c].path
        BY <1>1, <3>1, <3>2, <3>3, <3>5, <3>6 DEF Grown
      <4>3. \A c, e \in 1..w : heap'[c].path = heap'[e].path => c = e
        <5> TAKE c, e \in 1..w
        <5> HAVE heap'[c].path = heap'[e].path
        <5>1. CASE c \in 1..Len(heap) /\ e \in 1..Len(heap)
          BY <1>1, <3>5, <5>1 DEF Grown
        <5>2. CASE c = w /\ e = w
          BY <5>2
        <5>3. CASE c = w /\ e \in 1..Len(heap)
          BY <1>6, <3>3, <3>5, <5>3
        <5>4. CASE c \in 1..Len(heap) /\ e = w
          BY <1>6, <3>3, <3>5, <5>4
        <5> QED
          BY <3>6, <5>1, <5>2, <5>3, <5>4
      <4>4. \A c \in 1..w : heap'[c].prev # Nil => c < heap'[c].prev /\ heap'[c].prev <= w
        <5> TAKE c \in 1..w
        <5>1. CASE c \in 1..Len(heap)
          <6>1. heap[c].prev # Nil => c < heap[c].prev /\ heap[c].prev <= Len(heap)
            BY <1>1, <5>1 DEF Grown
          <6>2. c < w /\ heap[c].prev \in Nat /\ Len(heap) <= w
            BY <3>4, <5>1, CellTypes
          <6> QED
            BY <3>4, <3>5, <5>1, <6>1, <6>2
        <5>2. CASE c = w
          BY <3>3, <5>2
        <5> QED
          BY <3>6, <5>1, <5>2
      <4> QED
        BY <3>4, <4>1, <4>2, <4>3, <4>4 DEF Grown
    <3>8. live' = 1..Len(heap')
      BY <1>1, <3>4
    <3>9. stack' # <<>> /\ stack'[Len(stack')] = Len(heap')
      BY <3>4, EmptySeq
    <3>10. \A c \in 1..Len(heap') : (c \in 1..Len(heap) /\ heap'[c].path = heap[c].path)
                                    \/ heap'[c].path = x
      BY <3>3, <3>4, <3>5, <3>6
    <3> QED
      BY <3>7, <3>8, <3>9, <3>10
  <2> QED
    BY <2>1, <2>2
<1>8. ScannedOnce'
  <2>1. root' = Nil /\ Len(frames') = r /\ DirPaths' = DirPaths
    BY <1>1, <1>3, <1>6 DEF DirPaths, IsDir
  <2>2. /\ \A k \in 1..Len(frames') : Len(frames'[k].path) = k - 1 /\ frames'[k].path \in DirPaths'
        /\ \A k \in 1..Len(frames'), c \in 1..Len(heap') : heap'[c].path # frames'[k].path
    BY <1>6, <1>7, <2>1
  <2>3. \A q \in NamedPaths' :
           /\ q \in DirPaths'
           /\ \A k \in 1..Len(frames') : ~IsPrefix(q, frames'[k].path)
           /\ \A c \in 1..Len(heap') : ~IsPrefix(q, heap'[c].path)
    BY <1>6, <1>7, <2>1
  <2> QED
    BY <1>7, <2>1, <2>2, <2>3 DEF ScannedOnce
<1> QED
  BY <1>1, <1>7, <1>8 DEF Unchanged

LEMMA DoneSweeps ==
  ASSUME Types, Unchanged, ScanDone
  PROVE  Unchanged'
<1>1. /\ ScannedOnce /\ Grown /\ pc = "scan" /\ live = 1..Len(heap) /\ frames = <<>>
      /\ queue = <<>> /\ batch = <<>> /\ root = Nil
  BY DEF Unchanged, ScanDone, ScannedOnce
<1>2. UNCHANGED <<dirs, queue, batch, heap, live>>
  BY <1>1 DEF ScanDone, Die, fsVars
<1>3. \/ pc' = "failed"
      \/ pc' = "idle" /\ Len(stack) = 1 /\ root' = stack[1]
  BY <1>1 DEF ScanDone, Die
<1>4. Len(stack) = 1 => stack[1] = Len(heap)
  <2> HAVE Len(stack) = 1
  <2>1. stack[1] \in live /\ Len(heap) \in Nat
    BY CellTypes
  <2> QED
    BY <1>1, <2>1 DEF ScannedOnce
<1>5. Grown'
  BY <1>1, <1>2 DEF Grown, DirPaths, IsDir
<1> QED
  BY <1>1, <1>2, <1>3, <1>4, <1>5 DEF Unchanged

LEMMA StepSweeps ==
  ASSUME SweepInv, [Next]_vars
  PROVE  SweepInv'
<1>1. Types'
  BY StepTypes DEF SweepInv
<1>2. Types /\ (made = 0 => Unchanged) /\ made \in Nat
  BY BoundsAssumption DEF SweepInv, Types, TypeOK
<1>3. ASSUME made' = 0 PROVE Unchanged'
  <2>1. CASE User
    <3>1. made' = made + 1
      BY <2>1 DEF User, Mkdir, Rmdir, Rename, MoveOut, MkdirOutside, Change
    <3> QED
      BY <1>2, <1>3, <3>1
  <2>2. CASE ~User
    <3>1. UNCHANGED made
      BY <2>2, ThreadLeavesFs DEF Next, vars
    <3>2. Unchanged
      BY <1>2, <1>3, <3>1
    <3>3. CASE \E n \in Names : ScanEnter(n)
      BY <1>2, <3>2, <3>3, EnterSweeps
    <3>4. CASE ScanLeave
      BY <1>2, <3>2, <3>4, LeaveSweeps
    <3>5. CASE ScanDone
      BY <1>2, <3>2, <3>5, DoneSweeps
    <3>6. CASE RemoveStep
      BY <1>2, <3>2, <3>6, UnlinkedSweeps
    <3>7. CASE CallCleanup
      BY <1>2, <3>2, <3>7, CleanupSweeps
    <3>8. CASE CleanupDone \/ ReadPipe \/ UNCHANGED vars
      <4>1. /\ UNCHANGED <<dirs, queue, batch, heap, live, root, frames, stack, work>>
            /\ pc' = "swept" \/ UNCHANGED pc
        BY <3>8 DEF CleanupDone, ReadPipe, vars, fsVars, treeVars
      <4>2. Grown'
        BY <3>2, <4>1 DEF Unchanged, Grown, DirPaths, IsDir
      <4>3. ScannedOnce' <=> ScannedOnce
        <5>1. NamedPaths' = NamedPaths /\ DirPaths' = DirPaths
          BY <4>1 DEF NamedPaths, DirPaths, IsDir
        <5> QED
          BY <4>1, <5>1 DEF ScannedOnce
      <4>5. Refused' = Refused
        BY <4>1 DEF Refused
      <4>4. \A m \in Nat : SweptUpTo(m)' <=> SweptUpTo(m)
        BY <4>1 DEF SweptUpTo
      <4> QED
        BY <3>2, <4>1, <4>2, <4>3, <4>4, <4>5 DEF Unchanged
    <3>9. /\ ~ReadEvents /\ ~WritePipe /\ ~HandleUnknown /\ ~PassOver /\ ~HandleCreate
          /\ ~HandleDelete /\ ~RemoveDone /\ ~EndBatch
      BY <3>2 DEF Unchanged, ReadEvents, WritePipe, HandleUnknown, PassOver, HandleCreate,
                  HandleDelete, Handling, RemoveDone, EndBatch
    <3> QED
      BY <2>2, <3>3, <3>4, <3>5, <3>6, <3>7, <3>8, <3>9 DEF Next, Thread
  <2> QED
    BY <2>1, <2>2
<1> QED
  BY <1>1, <1>3 DEF SweepInv

LEMMA InitSweeps == Init => SweepInv
<1> SUFFICES ASSUME Init PROVE SweepInv
  OBVIOUS
<1>1. Types
  BY InitTypes
<1>2. /\ queue = <<>> /\ batch = <<>> /\ heap = <<>> /\ live = {} /\ pc = "scan" /\ root = Nil
  BY DEF Init
<1>3. /\ Len(heap) = 0 /\ \A c : c \notin 1..Len(heap)
      /\ Len(frames) = 1 /\ frames[1].path = Root /\ frames[1].todo \subseteq Listed(Root).todo
  <2>1. PICK f \in Opened(Root) : frames = <<f>>
    BY DEF Init
  <2>2. f.path = Root /\ f.todo \subseteq Subdirs(Root)
    BY <1>1, <2>1, RootIsPath, OpenedFacts, TypesParts
  <2> QED
    BY <1>2, <2>1, <2>2 DEF Listed
<1>4. PICK T \in InitialTrees : dirs = [p \in Paths |-> IF p \in T THEN InodeOf(p, 0) ELSE None]
  BY DEF Init
<1>5. \A p \in Paths : InodeOf(p, 0) # None /\ InodeOf(p, 0)[1] = p
  <2> TAKE p \in Paths
  <2>1. Len(<<p, 0>>) = 2 /\ Len(<<"none">>) = 1 /\ <<p, 0>>[1] = p
    OBVIOUS
  <2> QED
    BY <2>1 DEF InodeOf, None
<1>6. Root \in DirPaths /\ \A p \in DirPaths : dirs[p][1] = p
  BY <1>4, <1>5, RootIsPath, TreesAssumption DEF DirPaths, IsDir
<1>7. Grown
  BY <1>3, <1>6 DEF Grown
<1>8. \A q \in NamedPaths : q \in DirPaths /\ q \in Paths /\ Len(q) = 1
  <2> TAKE q \in NamedPaths
  <2>1. q \in Paths /\ q # Root /\ ParentOf(q) = Root /\ NameOf(q) \in Listed(Root).todo
    BY <1>3 DEF NamedPaths
  <2>2. q \in DirPaths
    BY <2>1, ListedNames, RootIsPath DEF DirsIn
  <2>3. Len(Root) = 0
    BY DEF Root
  <2>4. Len(q) \in Nat \ {0} /\ Len(ParentOf(q)) = Len(q) - 1
    BY <2>1, ParentFacts
  <2>5. Len(q) = 1
    BY <2>1, <2>3, <2>4
  <2> QED
    BY <2>2, <2>5 DEF DirPaths
<1>9. \A q \in NamedPaths : ~IsPrefix(q, Root)
  <2>1. Len(Root) = 0
    BY DEF Root
  <2> QED
    BY <1>8, <2>1, RootIsPath, PrefixFacts
<1>10. ScannedOnce
  <2>1. \A k \in 1..Len(frames) : k = 1 /\ frames[k].path = Root /\ Len(frames[k].path) = k - 1
    <3>1. Len(Root) = 0
      BY DEF Root
    <3> QED
      BY <1>3, <3>1
  <2> QED
    BY <1>2, <1>3, <1>6, <1>8, <1>9, <2>1 DEF ScannedOnce
<1> QED
  BY <1>1, <1>2, <1>3, <1>7, <1>10 DEF SweepInv, Unchanged

\* cleanup_watchers() frees the watchers in the order they were made in and remove_watcher()
\* reads the watcher before the one it frees: on a tree as init_watchers() has found it that
\* one is always newer, hence not freed yet, if every directory has got its watch and the
\* buckets of hashtb_wd are more than the watchers.
THEOREM CleanupFreesInOrder == Spec => []CleanupSafe
<1>1. SweepInv /\ [Next]_vars => SweepInv'
  BY StepSweeps
<1>2. SweepInv => CleanupSafe
  <2> SUFFICES ASSUME SweepInv, pc = "cleanup", made = 0, root < HtbSize, Refused = {}, work # <<>>
               PROVE  ~ReadsFreed(Head(work))
    BY DEF CleanupSafe
  <2>1. Types /\ Grown /\ work \in Seq(Tasks) /\ Len(heap) \in Nat
    BY CellTypes DEF SweepInv, Unchanged, Types
  <2>2. PICK m \in Nat : SweptUpTo(m)
    BY DEF SweepInv, Unchanged
  <2>3. Len(work) # 0 /\ Head(work) = work[1] /\ 1 \in 1..Len(work)
    BY <2>1, EmptySeq, HeadTailProperties
  <2>4. Head(work) = Task("free", m + 1) /\ m + 1 \in 1..Len(heap) /\ live = m + 1..Len(heap)
    BY <2>1, <2>2, <2>3 DEF SweptUpTo
  <2>5. heap[m + 1].prev \in Nat
    BY <2>1, <2>4, CellTypes
  <2>6. heap[m + 1].prev = Nil \/ heap[m + 1].prev \in live
    BY <2>1, <2>4, <2>5 DEF Grown
  <2>7. Head(work).op = "free" /\ Head(work).cell = m + 1 /\ m + 1 \in live
    BY <2>1, <2>4 DEF Task
  <2> QED
    BY <2>6, <2>7 DEF ReadsFreed
<1> QED
  BY InitSweeps, <1>1, <1>2, PTL DEF Spec

=============================================================================
