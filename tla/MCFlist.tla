------------------------------ MODULE MCFlist ------------------------------
(***************************************************************************)
(* Instances of Flist: a directory with a file in it, the same beside a    *)
(* third file, and two siblings the name of one of which is the beginning  *)
(* of the other's.                                                         *)
(***************************************************************************)
EXTENDS Flist, TLC

CONSTANTS d, f, g

Nested   == [p \in Paths |-> IF p = f THEN d ELSE Base]
Siblings == [p \in Paths |-> Base]

\* "f" spelt "d" when its line is cut. A cut "d/f" may spell "d" as well, and bring f's
\* digest under that name: the instance with a subdirectory sets cut names aside.
CutSibling == [p \in Paths |-> IF p = f THEN {d} ELSE {}]
NoCut      == [p \in Paths |-> {}]

\* No definition tells one content from another.
Swap == Permutations(Contents)
=============================================================================
