---------------------------- MODULE MCHashtable ----------------------------
(***************************************************************************)
(* Instance of Hashtable: two buckets, one of them for three nodes.        *)
(***************************************************************************)
EXTENDS Hashtable

CONSTANTS n1, n2, n3, n4

Hashed == [n \in Nodes |-> IF n = n4 THEN 1 ELSE 0]
=============================================================================
