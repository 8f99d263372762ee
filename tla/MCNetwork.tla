----------------------------- MODULE MCNetwork -----------------------------
(***************************************************************************)
(* Instances of Network: two clients and a server with two slots.          *)
(***************************************************************************)
EXTENDS Network

CONSTANTS c1, c2

AnySign == {-1, 0, 1}
=============================================================================
