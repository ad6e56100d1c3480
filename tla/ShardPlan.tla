----------------------------- MODULE ShardPlan -----------------------------
(***************************************************************************)
(* The adaptive segment planner: the pure arithmetic that decides how a    *)
(* payload of a given number of bytes is laid out over Aerospike records.  *)
(*                                                                         *)
(* A limits record [target, max, min, single] stands for the four byte     *)
(* limits of ResolvedLimits that the planner reads.  A plan is             *)
(* [nseg, seg_b]; nseg = 1 is the single-record layout (payload inline in  *)
(* the meta record), nseg > 1 the meta + segments layout.                  *)
(***************************************************************************)
EXTENDS Integers

LimitsType == [target : Nat, max : Nat, min : Nat, single : Nat]

PlanType == [nseg : Nat, seg_b : Nat]

(* What plan() raises AerospikeConfigError for; no layout has 0 records.   *)
ConfigError == [nseg |-> 0, seg_b |-> 0]

(* Python's -(-a // b): division rounded up.                               *)
CeilDiv(a, b) == -((-a) \div b)

Least(a, b) == IF a <= b THEN a ELSE b

(* Fault: segment sizes rounded down, which loses the payload's tail.      *)
BalancedFloor(bytes, target) ==
    LET n == CeilDiv(bytes, target)
    IN  [nseg |-> n, seg_b |-> bytes \div n]

(* The balanced layout before the limits are enforced.                     *)
Balanced(bytes, target) ==
    LET n == CeilDiv(bytes, target)
    IN  [nseg |-> n, seg_b |-> CeilDiv(bytes, n)]

plan(bytes, lim) ==
    LET shard == Balanced(bytes, lim.target)
    IN  IF bytes = 0 THEN [nseg |-> 1, seg_b |-> 0]
        ELSE IF lim.target > lim.max THEN ConfigError
        ELSE IF bytes <= lim.single /\ bytes <= lim.max
             THEN [nseg |-> 1, seg_b |-> bytes]
        ELSE IF shard.seg_b > lim.max THEN ConfigError
        ELSE IF shard.seg_b < lim.min /\ bytes <= lim.max
             THEN [nseg |-> 1, seg_b |-> bytes]
        ELSE shard

(* The length slice_lengths() gives segment i: the loop's closed form, the *)
(* last segment taking what remains.                                       *)
slice_length(bytes, shard, i) ==
    IF i = shard.nseg - 1 THEN bytes - (shard.nseg - 1) * shard.seg_b
                          ELSE shard.seg_b

(* The bytes put() sends as segment i, view[i*seg_b : (i+1)*seg_b], with   *)
(* the clamping of a Python slice; the range is [lo, hi).                  *)
SliceLo(bytes, shard, i) == Least(i * shard.seg_b, bytes)
SliceHi(bytes, shard, i) == Least(i * shard.seg_b + shard.seg_b, bytes)
=============================================================================
