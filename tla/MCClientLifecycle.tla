------------------------- MODULE MCClientLifecycle -------------------------
(* Four owners of one cluster in one process: a remote connector and the   *)
(* one that LMCache rebuilds beside it, a storage plugin and an L2 plugin. *)
EXTENDS ClientLifecycle

CONSTANTS r1, r2, s1, m1

FourOwners == {r1, r2, s1, m1}
FourKinds == [o \in FourOwners |-> CASE o = s1 -> "storage" [] o = m1 -> "l2"
                                     [] OTHER -> "remote"]
SameCluster == [o \in FourOwners |-> "A"]
L2Only == {"l2"}
=============================================================================
