---------------------------- MODULE MCL2Plugin ----------------------------
(* Two tasks on two executor threads and one chunk thread.                 *)
EXTENDS L2Plugin

(* A store of two chunks, the second of them shorter, and two short tasks. *)
LongStoresAndReads == {[kind |-> "store", n |-> 3], [kind |-> "load", n |-> 1],
                       [kind |-> "lookup", n |-> 1]}
=============================================================================
