------------------------------ MODULE MCPairings ------------------------------
(* A small platform: two entries, two exits, one user with two clients, one  *)
(* of which has its own id as token.                                         *)
EXTENDS Pairings, TLC

CONSTANTS x1, x2, u1, hex, own

MCRank == (x1 :> 1) @@ (x2 :> 2)
MCOwner == (hex :> u1) @@ (own :> u1)
==============================================================================
