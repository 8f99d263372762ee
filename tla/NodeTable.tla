----------------------------- MODULE NodeTable -----------------------------
(***************************************************************************)
(* What a hash table promises its users: under each key a list of nodes,   *)
(* newest first; a search that finds the newest node that hits; and a      *)
(* traversal that hands each node there is to a function once, though the  *)
(* function may take that node out.                                        *)
(***************************************************************************)
EXTENDS Integers, Sequences

CONSTANTS Nodes, Keys, KeyOf, Nil

VARIABLES
  entries,   \* the nodes under each key
  found,     \* the latest search's result
  todo,      \* the nodes the traversal has still to visit
  traversing \* is a traversal under way?

vars == <<entries, found, todo, traversing>>

Members(k) == {entries[k][j] : j \in 1..Len(entries[k])}
All == UNION {Members(k) : k \in Keys}

Place(s, n) == CHOOSE j \in 1..Len(s) : s[j] = n
Without(s, n) == [j \in 1..Len(s) - 1 |-> IF j < Place(s, n) THEN s[j] ELSE s[j + 1]]
Taken(n) == [entries EXCEPT ![KeyOf[n]] = Without(@, n)]

Insert(n) ==
  /\ ~traversing
  /\ n \notin All
  /\ entries' = [entries EXCEPT ![KeyOf[n]] = <<n>> \o @]
  /\ UNCHANGED <<found, todo, traversing>>

Remove(n) ==
  /\ ~traversing
  /\ n \in All
  /\ entries' = Taken(n)
  /\ UNCHANGED <<found, todo, traversing>>

Search(k, hits) ==
  /\ ~traversing
  /\ \/ /\ Members(k) \cap hits = {}
        /\ found' = Nil
     \/ \E j \in 1..Len(entries[k]) :
          /\ entries[k][j] \in hits
          /\ \A l \in 1..j - 1 : entries[k][l] \notin hits
          /\ found' = entries[k][j]
  /\ UNCHANGED <<entries, todo, traversing>>

Begin ==
  /\ ~traversing
  /\ traversing' = TRUE
  /\ todo' = All
  /\ UNCHANGED <<entries, found>>

Visit(n, keep) ==
  /\ traversing
  /\ n \in todo
  /\ todo' = todo \ {n}
  /\ entries' = IF keep THEN entries ELSE Taken(n)
  /\ UNCHANGED <<found, traversing>>

End ==
  /\ traversing
  /\ todo = {}
  /\ traversing' = FALSE
  /\ UNCHANGED <<entries, found, todo>>

Init ==
  /\ entries = [k \in Keys |-> <<>>]
  /\ found = Nil
  /\ todo = {}
  /\ traversing = FALSE

Next ==
  \/ \E n \in Nodes : Insert(n) \/ Remove(n)
  \/ \E k \in Keys, hits \in SUBSET Nodes : Search(k, hits)
  \/ Begin
  \/ \E n \in Nodes, keep \in BOOLEAN : Visit(n, keep)
  \/ End

Spec == Init /\ [][Next]_vars
=============================================================================
