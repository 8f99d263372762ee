----------------------------- MODULE MCWatchers -----------------------------
(***************************************************************************)
(* Instances of Watchers: two names, paths of two of them.                 *)
(***************************************************************************)
EXTENDS Watchers, TLC

CONSTANTS a, b

\* Every tree of the paths.
AllTrees ==
  {T \in SUBSET Paths : Root \in T /\ \A p \in T \ {Root} : ParentOf(p) \in T}

\* Those of at most four directories.
SmallTrees == {T \in AllTrees : Cardinality(T) <= 4}

\* No definition tells one name from another.
Swap == Permutations(Names)
=============================================================================
