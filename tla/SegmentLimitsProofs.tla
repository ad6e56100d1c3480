------------------------ MODULE SegmentLimitsProofs ------------------------
(***************************************************************************)
(* That every record a connector plans fits the server it was constructed  *)
(* against, for every configuration, info response and payload size.       *)
(*                                                                         *)
(* RecordsFit and SlicesReassemble relate a plan to the probe's cap, which *)
(* the plan does not mention.  What carries them is that the resolved      *)
(* limits stay below the cap while the connector lives (LimitsBelowCap),   *)
(* and that its last plan is the planner's answer for those very limits    *)
(* (PlanIsCurrent), although the server may be reconfigured meanwhile.     *)
(***************************************************************************)
EXTENDS SegmentLimits, ShardPlanProofs

(* The limits of a constructed connector leave the margin free below the   *)
(* cap it probed, and its target is positive, so plan() cannot divide by 0.*)
LimitsBelowCap ==
    phase = "up" => /\ Margin < cap
                    /\ lim.target > 0
                    /\ lim.max + Margin <= cap

(* The last plan was made with the limits in force, and there is none      *)
(* before a connector is constructed.                                      *)
PlanIsCurrent == shard # NoPlan => phase = "up" /\ shard = plan(size, lim)

PlanningInv == TypeOK /\ LimitsBelowCap /\ PlanIsCurrent

-----------------------------------------------------------------------------
(* resolve_segment_limits clamps: for a cap above the margin, a legal      *)
(* configuration resolves to limits below the cap, with a positive target. *)
LEMMA ResolvedLimits ==
  ASSUME NEW c \in ConfigType, NEW maxrec \in Nat, Margin \in Nat, Margin < maxrec
  PROVE  LET r == resolve_segment_limits(c, maxrec)
         IN  /\ r \in LimitsType
             /\ r.target > 0
             /\ r.max + Margin <= maxrec
<1> DEFINE effective == maxrec - Margin
           target == Least(c.target, effective)
           max == Least(Or(c.max, effective), effective)
           single == Least(Or(c.single, target), effective)
<1>1. /\ effective \in Nat \ {0}
      /\ c.target \in Nat \ {0} /\ c.max \in Nat /\ c.min \in Nat /\ c.single \in Nat
  BY SMT DEF ConfigType
<1> HIDE DEF effective
<1>2. target \in Nat \ {0}
  BY <1>1, SMT DEF Least
<1> HIDE DEF target
<1>3. max \in Nat /\ max <= effective
  BY <1>1, SMT DEF Least, Or
<1>4. single \in Nat
  BY <1>1, <1>2, SMT DEF Least, Or
<1>5. resolve_segment_limits(c, maxrec)
        = [target |-> target, max |-> max, min |-> c.min, single |-> single]
  BY DEF resolve_segment_limits, effective, target
<1> HIDE DEF max, single
<1>6. max + Margin <= maxrec
  BY <1>1, <1>3, SMT DEF effective
<1> QED
  BY <1>1, <1>2, <1>3, <1>4, <1>5, <1>6, SMT DEF LimitsType

(* A probe that discover_limits accepts reports a cap above the margin.    *)
LEMMA ProbedCap ==
  ASSUME NEW info \in ResponseType, ~DiscoveryFails(info)
  PROVE  RecordCap(info) \in Nat /\ Margin < RecordCap(info)
<1>1. info.maxrec \in Int /\ info.wblock \in Int
  BY DEF ResponseType
<1>2. RecordCap(info) \in Nat
  BY <1>1, SMT DEF RecordCap
<1>3. ~(RecordCap(info) < MinRecord)
  BY DEF DiscoveryFails
<1> QED
  BY <1>2, <1>3, MarginAssumption, SMT

(* plan() answers with a plan or with ConfigError, which is one in type.   *)
LEMMA PlanTyped ==
  ASSUME NEW bytes \in Nat, NEW l \in LimitsType, l.target > 0
  PROVE  plan(bytes, l) \in PlanType
<1>1. ConfigError \in PlanType
  BY SMT DEF ConfigError, PlanType
<1> QED
  BY <1>1, PlanShape DEF WellShaped

-----------------------------------------------------------------------------
(* Initially nothing is probed, resolved or planned.                       *)
LEMMA PlanningInit == Init => PlanningInv
  BY SMT DEF Init, PlanningInv, TypeOK, LimitsBelowCap, PlanIsCurrent, NoLimits, NoPlan,
             LimitsType, PlanType

(* Every step of the connector, and every reconfiguration of the server    *)
(* under it, preserves the planning invariant.                             *)
LEMMA PlanningNext == PlanningInv /\ [Next]_vars => PlanningInv'
<1> SUFFICES ASSUME PlanningInv, [Next]_vars PROVE PlanningInv'
  OBVIOUS
<1>0. TypeOK /\ LimitsBelowCap /\ PlanIsCurrent
  BY DEF PlanningInv
<1>1. CASE Construct
  <2>1. cfg \in ConfigType /\ server \in ResponseType
    BY <1>0, ConfigsAssumption, ResponsesAssumption DEF TypeOK
  <2>2. RecordCap(server) \in Nat /\ Margin < RecordCap(server)
    BY <1>1, <2>1, ProbedCap DEF Construct
  <2>3. /\ lim' \in LimitsType
        /\ lim'.target > 0
        /\ lim'.max + Margin <= cap'
    BY <1>1, <2>1, <2>2, ResolvedLimits, MarginAssumption DEF Construct
  <2>4. TypeOK'
    BY <1>0, <1>1, <2>2, <2>3 DEF TypeOK, Construct
  <2>5. LimitsBelowCap'
    BY <1>1, <2>2, <2>3 DEF LimitsBelowCap, Construct
  <2>6. PlanIsCurrent'
    BY <1>0, <1>1 DEF PlanIsCurrent, Construct
  <2> QED
    BY <2>4, <2>5, <2>6 DEF PlanningInv
<1>2. CASE ConstructionFails
  BY <1>0, <1>2 DEF ConstructionFails, PlanningInv, TypeOK, LimitsBelowCap, PlanIsCurrent
<1>3. CASE Recreate
  <2>1. NoLimits \in LimitsType /\ NoPlan \in PlanType
    BY SMT DEF NoLimits, NoPlan, LimitsType, PlanType
  <2> QED
    BY <1>0, <1>3, <2>1 DEF Recreate, PlanningInv, TypeOK, LimitsBelowCap, PlanIsCurrent
<1>4. CASE \E bytes \in PayloadSizes : PlanPut(bytes)
  <2> PICK bytes \in PayloadSizes : PlanPut(bytes)
    BY <1>4
  <2>1. bytes \in Nat /\ lim \in LimitsType /\ lim.target > 0
    BY <1>0, SizesAssumption DEF PlanPut, TypeOK, LimitsBelowCap
  <2>2. plan(bytes, lim) \in PlanType
    BY <2>1, PlanTyped
  <2> QED
    BY <1>0, <2>1, <2>2 DEF PlanPut, PlanningInv, TypeOK, LimitsBelowCap, PlanIsCurrent
<1>5. CASE \E info \in Responses : ReconfigureServer(info)
  BY <1>0, <1>5 DEF ReconfigureServer, PlanningInv, TypeOK, LimitsBelowCap, PlanIsCurrent
<1>6. CASE UNCHANGED vars
  BY <1>0, <1>6 DEF vars, PlanningInv, TypeOK, LimitsBelowCap, PlanIsCurrent
<1> QED
  BY <1>1, <1>2, <1>3, <1>4, <1>5, <1>6 DEF Next

(* The planning state is well typed: whatever the probe reports and the    *)
(* operator configures, the limits are natural numbers and every plan is   *)
(* a layout (discover_and_resolve, plan).                                  *)
THEOREM PlanningTypeCorrect == Spec => []TypeOK
<1>1. PlanningInv => TypeOK
  BY DEF PlanningInv
<1> QED
  BY <1>1, PlanningInit, PlanningNext, PTL DEF Spec

(* Every record a planned put writes leaves the safety margin free below   *)
(* the cap of the connector's probe, for every configuration and payload   *)
(* size (resolve_segment_limits, plan).                                    *)
THEOREM PlannedRecordsFit == Spec => []RecordsFit
<1>1. PlanningInv => RecordsFit
  <2> SUFFICES ASSUME PlanningInv, Planned PROVE shard.seg_b + Margin <= cap
    BY DEF RecordsFit
  <2>1. /\ size \in Nat /\ cap \in Nat /\ lim \in LimitsType
        /\ lim.target > 0 /\ Margin < cap /\ lim.max + Margin <= cap
        /\ shard = plan(size, lim) /\ plan(size, lim) # ConfigError
    BY DEF PlanningInv, TypeOK, LimitsBelowCap, PlanIsCurrent, Planned, NoPlan, ConfigError
  <2>2. WellShaped(size, shard, lim)
    BY <2>1, PlanShape
  <2>3. shard.seg_b \in Nat /\ lim.max \in Nat
    BY <2>1, <2>2 DEF WellShaped, PlanType, LimitsType
  <2>4. CASE size = 0
    <3>1. shard.seg_b = 0
      BY <2>1, <2>4 DEF plan
    <3> QED
      BY <2>1, <3>1, MarginAssumption, SMT
  <2>5. CASE size # 0
    <3>1. shard.seg_b <= lim.max
      BY <2>1, <2>2, <2>5, SMT DEF WellShaped
    <3> QED
      BY <2>1, <2>3, <3>1, MarginAssumption, SMT
  <2> QED
    BY <2>4, <2>5
<1> QED
  BY <1>1, PlanningInit, PlanningNext, PTL DEF Spec

(* The segments put() cuts are the payload, in order and without a gap,    *)
(* for the plans a running connector really makes (put, slice_lengths).    *)
THEOREM PlannedSlicesReassemble == Spec => []SlicesReassemble
<1>1. PlanningInv => SlicesReassemble
  <2> SUFFICES ASSUME PlanningInv, Planned, shard.nseg > 1,
                      NEW i \in 0 .. shard.nseg - 1
               PROVE  /\ SliceLo(size, shard, i) < SliceHi(size, shard, i)
                      /\ SliceLo(size, shard, i) =
                           (IF i = 0 THEN 0 ELSE SliceHi(size, shard, i - 1))
                      /\ i = shard.nseg - 1 => SliceHi(size, shard, i) = size
                      /\ SliceHi(size, shard, i) - SliceLo(size, shard, i)
                           = slice_length(size, shard, i)
    BY DEF SlicesReassemble
  <2>1. /\ size \in Nat /\ lim \in LimitsType /\ lim.target > 0
        /\ shard \in PlanType /\ shard = plan(size, lim)
    BY DEF PlanningInv, TypeOK, LimitsBelowCap, PlanIsCurrent, Planned, NoPlan, ConfigError
  <2>2. shard.nseg \in Nat
    BY <2>1 DEF PlanType
  <2>3. /\ SliceLo(size, shard, 0) = 0
        /\ SliceLo(size, shard, i) < SliceHi(size, shard, i)
        /\ i = shard.nseg - 1 => SliceHi(size, shard, i) = size
        /\ SliceHi(size, shard, i) - SliceLo(size, shard, i) = slice_length(size, shard, i)
    BY <2>1, SlicesTile
  <2>4. ASSUME i # 0 PROVE SliceLo(size, shard, i) = SliceHi(size, shard, i - 1)
    <3>1. i - 1 \in 0 .. shard.nseg - 1 /\ i - 1 < shard.nseg - 1 /\ (i - 1) + 1 = i
      BY <2>2, <2>4, SMT
    <3>2. SliceHi(size, shard, i - 1) = SliceLo(size, shard, (i - 1) + 1)
      BY <2>1, <3>1, SlicesTile
    <3> QED
      BY <3>1, <3>2
  <2> QED
    BY <2>3, <2>4
<1> QED
  BY <1>1, PlanningInit, PlanningNext, PTL DEF Spec
=============================================================================
