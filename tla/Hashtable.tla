----------------------------- MODULE Hashtable -----------------------------
(***************************************************************************)
(* hashtable.c: buckets of chained nodes, the chain pointer being a member *)
(* of the node itself, as flist.c and wrap-inotify.c use it.  Whoever      *)
(* takes a node out frees it, and a function called by                     *)
(* traverse_hashtable() may do so with the node it is called on.           *)
(*                                                                         *)
(* A node that is not allocated has the chain pointer Freed; nothing may   *)
(* be done with that value.  The hash of a node never changes.             *)
(***************************************************************************)
EXTENDS Integers, Sequences, FiniteSets

CONSTANTS
  Nodes,   \* nodes, allocated or not
  size,    \* htb->size
  KeyOf,   \* KeyOf[n]: hashing(n)
  Nil,     \* NULL
  Freed    \* the chain pointer of a node that is not allocated

Keys == 0..(size - 1)

ASSUME HashtableAssumption ==
  /\ IsFiniteSet(Nodes)
  /\ size \in Nat \ {0}
  /\ KeyOf \in [Nodes -> Keys]
  /\ Nil \notin Nodes /\ Freed \notin Nodes /\ Nil # Freed

VARIABLES
  bucket,  \* htb->bucket: the first node of each chain
  chain,   \* the chain pointer of each node
  count,   \* htb->count
  found,   \* what the latest hashtable_search() returned
  pc,      \* "idle", or "visit" in traverse_hashtable()
  i, cur   \* its variables

tableVars == <<bucket, chain, count>>
vars == <<bucket, chain, count, found, pc, i, cur>>

\* s are the nodes met from pointer p on.
Follows(s, p) ==
  /\ \A j \in 1..Len(s) : s[j] = IF j = 1 THEN p ELSE chain[s[j - 1]]
  /\ (IF s = <<>> THEN p ELSE chain[s[Len(s)]]) \notin Nodes

\* The nodes met from pointer p on, in order; no chain is longer than Nodes.
Lists == UNION {[1..n -> Nodes] : n \in 0..Cardinality(Nodes)}
From(p) == CHOOSE s \in Lists : Follows(s, p)

Chain(k) == From(bucket[k])
In(s) == {s[j] : j \in 1..Len(s)}
Allocated == {n \in Nodes : chain[n] # Freed}

Insert(n) ==
  /\ pc = "idle"
  /\ n \notin Allocated
  /\ chain' = [chain EXCEPT ![n] = bucket[KeyOf[n]]]
  /\ bucket' = [bucket EXCEPT ![KeyOf[n]] = n]
  /\ count' = count + 1
  /\ UNCHANGED <<found, pc, i, cur>>

\* Mutant: the rest of the chain is lost.
UnlinkRest(n) ==
  LET before == {m \in Nodes : chain[m] = n}
  IN /\ chain' = [m \in Nodes |-> CASE m = n -> Freed
                                    [] m \in before -> Nil
                                    [] OTHER -> chain[m]]
     /\ bucket' = [bucket EXCEPT ![KeyOf[n]] = IF before = {} THEN Nil ELSE @]

\* The loop of hashtable_remove() stops at n, with prev before it, or at the end
\* of the chain; then free().
Unlink(n) ==
  LET s == Chain(KeyOf[n])
      at == CHOOSE j \in 1..Len(s) : s[j] = n
      next == chain[n]
  IN IF at > 1
     THEN /\ chain' = [chain EXCEPT ![s[at - 1]] = next, ![n] = Freed]
          /\ UNCHANGED bucket
     ELSE /\ chain' = [chain EXCEPT ![n] = Freed]
          /\ bucket' = [bucket EXCEPT ![KeyOf[n]] = next]

\* assert(cur == target), after the loop, is the first part of WellChained.
RemoveTarget(n) ==
  /\ Unlink(n)
  /\ count' = count - 1

Remove(n) ==
  /\ pc = "idle"
  /\ n \in Allocated
  /\ RemoveTarget(n)
  /\ UNCHANGED <<found, pc, i, cur>>

Search(k, hits) ==
  /\ pc = "idle"
  /\ LET s == Chain(k)
         at == {j \in 1..Len(s) : s[j] \in hits}
     IN found' = IF at = {} THEN Nil ELSE s[CHOOSE j \in at : \A l \in at : j <= l]
  /\ UNCHANGED <<tableVars, pc, i, cur>>

TraverseStart ==
  /\ pc = "idle"
  /\ pc' = "visit"
  /\ i' = 0
  /\ cur' = bucket[0]
  /\ UNCHANGED <<tableVars, found>>

\* Mutant: cur is stepped on after fn(cur) may have freed it.
NextAfterCall == chain'[cur]

\* next is read before fn(cur).
NextOf == chain[cur]

Visit(keep) ==
  /\ pc = "visit"
  /\ cur \in Nodes
  /\ IF keep THEN UNCHANGED tableVars ELSE RemoveTarget(cur)
  /\ cur' = NextOf
  /\ UNCHANGED <<found, pc, i>>

NextBucket ==
  /\ pc = "visit"
  /\ cur = Nil
  /\ i < size - 1
  /\ i' = i + 1
  /\ cur' = bucket[i + 1]
  /\ UNCHANGED <<tableVars, found, pc>>

TraverseEnd ==
  /\ pc = "visit"
  /\ cur = Nil
  /\ i = size - 1
  /\ pc' = "idle"
  /\ i' = 0
  /\ UNCHANGED <<tableVars, found, cur>>

Init ==
  /\ bucket = [k \in Keys |-> Nil]
  /\ chain = [n \in Nodes |-> Freed]
  /\ count = 0
  /\ found = Nil
  /\ pc = "idle" /\ i = 0 /\ cur = Nil

Next ==
  \/ \E n \in Nodes : Insert(n) \/ Remove(n)
  \/ \E k \in Keys, hits \in SUBSET Nodes : Search(k, hits)
  \/ TraverseStart
  \/ \E keep \in BOOLEAN : Visit(keep)
  \/ NextBucket
  \/ TraverseEnd

Spec == Init /\ [][Next]_vars

\* A traversal ends, if the functions it calls return.
FairSpec == Spec /\ WF_vars(NextBucket \/ TraverseEnd \/ \E keep \in BOOLEAN : Visit(keep))

-----------------------------------------------------------------------------

\* The types, and pointers that may be followed: none leads to a freed node.
TypeOK ==
  /\ bucket \in [Keys -> Allocated \cup {Nil}]
  /\ chain \in [Nodes -> Nodes \cup {Nil, Freed}]
  /\ \A n \in Allocated : chain[n] \in Allocated \cup {Nil}
  /\ count \in 0..Cardinality(Nodes)
  /\ found \in Nodes \cup {Nil}
  /\ pc \in {"idle", "visit"}
  /\ i \in Keys
  /\ cur \in Allocated \cup {Nil}

\* No pointer leads to a freed node; the chains are disjoint lists of all the nodes
\* there are, each under its key, and count is their number.
WellChained ==
  /\ TypeOK
  /\ \A n \in Allocated : n \in In(Chain(KeyOf[n]))
  /\ \A k \in Keys : \A n \in In(Chain(k)) : KeyOf[n] = k
  /\ count = Cardinality(Allocated)

\* The traversal has yet to visit the nodes from cur on and those of later buckets.
Unvisited ==
  IF pc = "idle" THEN {}
  ELSE In(From(cur)) \cup UNION {In(Chain(k)) : k \in {x \in Keys : x > i}}

Table == INSTANCE NodeTable WITH
           entries <- [k \in Keys |-> Chain(k)],
           todo <- Unvisited,
           traversing <- pc = "visit"

\* The table is a table of nodes: searches find the newest hit, and a traversal
\* visits each node once though the function called takes nodes out.
IsNodeTable == Table!Spec

\* Every traversal ends.
TraversalEnds == pc = "visit" ~> pc = "idle"
=============================================================================
