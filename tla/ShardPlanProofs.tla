-------------------------- MODULE ShardPlanProofs --------------------------
(***************************************************************************)
(* What the planner guarantees for every payload size and all limits.      *)
(***************************************************************************)
EXTENDS ShardPlan, TLAPS

(* CeilDiv, the code's -(-a // b), is division rounded up.                 *)
LEMMA CeilDivBounds ==
  ASSUME NEW a \in Nat \ {0}, NEW b \in Nat \ {0}
  PROVE  /\ CeilDiv(a, b) \in Nat \ {0}
         /\ (CeilDiv(a, b) - 1) * b < a
         /\ a <= CeilDiv(a, b) * b
<1>1. /\ (-a) \div b \in Int
      /\ (-a) = b * ((-a) \div b) + ((-a) % b)
      /\ 0 <= (-a) % b
      /\ (-a) % b < b
  BY SMT
<1> QED
  BY <1>1, SMT DEF CeilDiv

(* A product with a natural factor is monotone in the other factor.        *)
LEMMA MulMono ==
  ASSUME NEW n \in Nat, NEW a \in Nat, NEW b \in Nat, a <= b
  PROVE  /\ n * a \in Nat
         /\ n * a <= n * b
  BY SMT

(* The balanced layout of the planner: segments of at most the target      *)
(* size, whose last one is neither empty nor missing.                      *)
LEMMA BalancedShape ==
  ASSUME NEW bytes \in Nat \ {0}, NEW target \in Nat \ {0}
  PROVE  LET s == Balanced(bytes, target)
         IN  /\ s.nseg \in Nat \ {0}
             /\ s.seg_b \in Nat \ {0}
             /\ s.seg_b <= target
             /\ (s.nseg - 1) * s.seg_b < bytes
             /\ bytes <= s.nseg * s.seg_b
<1> DEFINE n == CeilDiv(bytes, target)
           b == CeilDiv(bytes, n)
<1>1. /\ n \in Nat \ {0}
      /\ (n - 1) * target < bytes
      /\ bytes <= n * target
  BY CeilDivBounds
<1>2. /\ b \in Nat \ {0}
      /\ (b - 1) * n < bytes
      /\ bytes <= b * n
  BY <1>1, CeilDivBounds
<1> HIDE DEF n, b
<1>3. b <= target
  <2>1. SUFFICES ASSUME target <= b - 1 PROVE FALSE
    BY <1>2, SMT
  <2>2. n * target <= n * (b - 1)
    BY <1>1, <1>2, <2>1, MulMono
  <2>3. n * (b - 1) = (b - 1) * n
    BY <1>1, <1>2, SMT
  <2> QED
    BY <1>1, <1>2, <2>2, <2>3, SMT
<1>4. (n - 1) * b <= (n - 1) * target
  BY <1>1, <1>2, <1>3, MulMono
<1>5. (n - 1) * b < bytes
  BY <1>1, <1>2, <1>4, SMT
<1>6. Balanced(bytes, target) = [nseg |-> n, seg_b |-> b]
  BY DEF Balanced, n, b
<1> QED
  BY <1>1, <1>2, <1>3, <1>5, <1>6, SMT

(* The shape of every layout plan() returns without raising.               *)
WellShaped(bytes, shard, lim) ==
    /\ shard \in PlanType
    /\ shard.nseg >= 1
    /\ shard.nseg = 1 => shard.seg_b = bytes
    /\ shard.nseg > 1 => /\ shard.seg_b >= 1
                         /\ shard.seg_b <= lim.max
                         /\ (shard.nseg - 1) * shard.seg_b < bytes
                         /\ bytes <= shard.nseg * shard.seg_b
    /\ bytes > 0 => shard.seg_b <= lim.max

(* Whatever the limits and the payload, plan() either raises               *)
(* AerospikeConfigError or returns a layout with at least one record, no   *)
(* segment above max_segment_bytes, and exactly enough segments for the    *)
(* payload.                                                                *)
THEOREM PlanShape ==
  ASSUME NEW bytes \in Nat, NEW lim \in LimitsType, lim.target > 0,
         plan(bytes, lim) # ConfigError
  PROVE  WellShaped(bytes, plan(bytes, lim), lim)
<1> DEFINE s == Balanced(bytes, lim.target)
<1> lim.target \in Nat \ {0} /\ lim.max \in Nat /\ lim.min \in Nat /\ lim.single \in Nat
  BY SMT DEF LimitsType
<1>1. CASE bytes = 0
  <2>1. plan(bytes, lim) = [nseg |-> 1, seg_b |-> 0]
    BY <1>1 DEF plan
  <2> QED
    BY <1>1, <2>1, SMT DEF WellShaped, PlanType
<1>2. CASE bytes # 0
  <2>1. /\ s.nseg \in Nat \ {0}
        /\ s.seg_b \in Nat \ {0}
        /\ s.seg_b <= lim.target
        /\ (s.nseg - 1) * s.seg_b < bytes
        /\ bytes <= s.nseg * s.seg_b
        /\ s = [nseg |-> s.nseg, seg_b |-> s.seg_b]
    BY <1>2, BalancedShape DEF Balanced
  <2>2. lim.target <= lim.max
    BY <1>2, SMT DEF plan
  <2>3. CASE bytes <= lim.single /\ bytes <= lim.max
    BY <1>2, <2>2, <2>3, SMT DEF WellShaped, PlanType, plan
  <2>4. CASE /\ ~(bytes <= lim.single /\ bytes <= lim.max)
             /\ s.seg_b < lim.min /\ bytes <= lim.max
    <3>1. plan(bytes, lim) = [nseg |-> 1, seg_b |-> bytes]
      BY <1>2, <2>2, <2>4 DEF plan
    <3> QED
      BY <1>2, <2>4, <3>1, SMT DEF WellShaped, PlanType
  <2>5. CASE /\ ~(bytes <= lim.single /\ bytes <= lim.max)
             /\ ~(s.seg_b < lim.min /\ bytes <= lim.max)
    <3>1. plan(bytes, lim) = s /\ s.seg_b <= lim.max
      BY <1>2, <2>1, <2>2, <2>5, SMT DEF plan
    <3>2. s.nseg = 1 => s.seg_b <= bytes
      <4>1. SUFFICES ASSUME s.nseg = 1, s.seg_b > bytes PROVE FALSE
        BY <2>1, SMT
      <4> QED
        BY <1>2, <4>1, CeilDivBounds, SMT DEF Balanced
    <3> HIDE DEF s
    <3> QED
      BY <1>2, <2>1, <3>1, <3>2, SMT DEF WellShaped, PlanType
  <2> QED
    BY <2>3, <2>4, <2>5
<1> QED
  BY <1>1, <1>2

(* The slices put() cuts with view[i*seg_b : (i+1)*seg_b] tile the payload *)
(* in order: the first starts at byte 0, each ends where the next begins,  *)
(* the last ends at the payload's end, none is empty, and their lengths    *)
(* are those slice_lengths() computes by its own loop.                     *)
THEOREM SlicesTile ==
  ASSUME NEW bytes \in Nat, NEW lim \in LimitsType, lim.target > 0,
         plan(bytes, lim).nseg > 1,
         NEW i \in 0 .. (plan(bytes, lim).nseg - 1)
  PROVE  LET p == plan(bytes, lim)
         IN  /\ SliceLo(bytes, p, 0) = 0
             /\ SliceLo(bytes, p, i) \in Nat /\ SliceHi(bytes, p, i) \in Nat
             /\ SliceLo(bytes, p, i) < SliceHi(bytes, p, i)
             /\ i < p.nseg - 1 => SliceHi(bytes, p, i) = SliceLo(bytes, p, i + 1)
             /\ i = p.nseg - 1 => SliceHi(bytes, p, i) = bytes
             /\ SliceHi(bytes, p, i) - SliceLo(bytes, p, i) = slice_length(bytes, p, i)
<1> DEFINE p == plan(bytes, lim)
<1>1. p # ConfigError
  BY SMT DEF ConfigError
<1>2. /\ p.nseg \in Nat /\ p.seg_b \in Nat
      /\ p.nseg > 1 /\ p.seg_b >= 1
      /\ (p.nseg - 1) * p.seg_b < bytes
      /\ bytes <= p.nseg * p.seg_b
  BY <1>1, PlanShape DEF WellShaped, PlanType
<1> DEFINE n == p.nseg
           b == p.seg_b
<1> i \in 0 .. (n - 1)
  OBVIOUS
<1> SUFFICES /\ Least(0 * b, bytes) = 0
             /\ Least(i * b, bytes) \in Nat /\ Least(i * b + b, bytes) \in Nat
             /\ Least(i * b, bytes) < Least(i * b + b, bytes)
             /\ i < n - 1 => Least(i * b + b, bytes) = Least((i + 1) * b, bytes)
             /\ i = n - 1 => Least(i * b + b, bytes) = bytes
             /\ Least(i * b + b, bytes) - Least(i * b, bytes)
                  = IF i = n - 1 THEN bytes - (n - 1) * b ELSE b
  BY DEF SliceLo, SliceHi, slice_length
<1>3. n \in Nat /\ b \in Nat /\ n > 1 /\ b >= 1 /\ (n - 1) * b < bytes /\ bytes <= n * b
  BY <1>2
<1> HIDE DEF n, b, p
<1>4. i * b \in Nat /\ i * b <= (n - 1) * b
  <2>1. b * i <= b * (n - 1) /\ b * i \in Nat
    BY <1>3, MulMono
  <2> QED
    BY <1>3, <2>1, SMT
<1>5. (i + 1) * b = i * b + b /\ 0 * b = 0 /\ n * b = (n - 1) * b + b
  BY <1>3, SMT
<1>6. i < n - 1 => i * b + b <= (n - 1) * b
  <2>1. SUFFICES ASSUME i < n - 1 PROVE i * b + b <= (n - 1) * b
    OBVIOUS
  <2>2. b * (i + 1) <= b * (n - 1)
    BY <1>3, <2>1, MulMono
  <2> QED
    BY <1>3, <1>5, <2>2, SMT
<1> QED
  BY <1>3, <1>4, <1>5, <1>6, SMT DEF Least
=============================================================================
