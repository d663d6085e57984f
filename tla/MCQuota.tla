------------------------------- MODULE MCQuota -------------------------------
(* Two users for model checking Quota.  One of them has a client: the other  *)
(* only takes part in the closing of periods, with its own sign-up month.    *)
EXTENDS Quota

CONSTANTS u1, u2, c1

MCOwner == [c \in Clients |-> u1]
==============================================================================
