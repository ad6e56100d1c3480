--------------------------- MODULE SegmentLimits ---------------------------
(***************************************************************************)
(* Construction-time limit discovery of a connector and the planning it    *)
(* serves: the namespace is probed once (discover_limits), the operator's  *)
(* configuration is clamped to what the probe found                        *)
(* (resolve_segment_limits), and every later put is planned with those     *)
(* limits, whatever happens to the server meanwhile.                       *)
(*                                                                         *)
(* A numeric field of the info response is an integer; Missing and Garbage *)
(* stand for a field that is absent and for one int() cannot parse.  In a  *)
(* configuration 0 stands for an option left unset (None): the parser      *)
(* rejects every other value that is not positive.                         *)
(***************************************************************************)
EXTENDS ShardPlan

CONSTANTS Configs,      \* operator configurations [target, max, min, single, ttl]
          Responses,    \* info responses [maxrec, wblock, nsup]
          PayloadSizes, \* lengths of the payloads offered to put
          Margin,       \* SAFETY_MARGIN_BYTES
          MinRecord,    \* _MIN_RECORD_BYTES
          MaxRecord     \* _MAX_RECORD_BYTES

Missing == -1
Garbage == -2

ConfigType == [target : Nat \ {0}, max : Nat, min : Nat \ {0}, single : Nat, ttl : Int]
ResponseType == [maxrec : Int, wblock : Int, nsup : Int]

ASSUME MarginAssumption == Margin \in Nat /\ MinRecord \in Nat /\ MaxRecord \in Nat
                           /\ Margin < MinRecord
ASSUME ConfigsAssumption == Configs \subseteq ConfigType
ASSUME ResponsesAssumption == Responses \subseteq ResponseType
ASSUME SizesAssumption == PayloadSizes \subseteq Nat

VARIABLES phase,   \* "start", "up" or "failed"
          cfg,     \* this connector's configuration
          server,  \* what the namespace reports at the moment
          cap,     \* server_max_record_bytes of the last probe
          lim,     \* the resolved limits
          size,    \* length of the payload planned last
          shard    \* the plan it got

vars == <<phase, cfg, server, cap, lim, size, shard>>

NoLimits == [target |-> 0, max |-> 0, min |-> 0, single |-> 0]
NoPlan   == [nseg |-> 0, seg_b |-> 0]

-----------------------------------------------------------------------------
(* The record cap the info response states: max-record-size when it is a   *)
(* positive number, else write-block-size; 0 when neither is usable.       *)
RecordCap(info) == IF info.maxrec > 0 THEN info.maxrec
                   ELSE IF info.wblock > 0 THEN info.wblock
                   ELSE 0

(* Fault: a cap below the smallest legal one, or none at all, is accepted. *)
DiscoveryFailsLax(info) ==
    \/ info.maxrec = Garbage
    \/ info.maxrec <= 0 /\ info.wblock = Garbage
    \/ RecordCap(info) > MaxRecord
    \/ info.nsup = Garbage

(* discover_limits raises.                                                 *)
DiscoveryFails(info) ==
    \/ info.maxrec = Garbage
    \/ info.maxrec <= 0 /\ info.wblock = Garbage
    \/ RecordCap(info) < MinRecord
    \/ RecordCap(info) > MaxRecord
    \/ info.nsup = Garbage

(* An nsup-period the response leaves out counts as 0.                     *)
NsupPeriod(info) == IF info.nsup = Missing THEN 0 ELSE info.nsup

(* resolve_segment_limits raises AerospikeTTLConfigError.                  *)
TtlForbidden(c, info) == c.ttl > 0 /\ NsupPeriod(info) <= 0

(* Python's "x or default" for an option.                                  *)
Or(x, default) == IF x = 0 THEN default ELSE x

(* Fault: the target is not clamped to what the server allows.             *)
resolve_unclamped(c, maxrec) ==
    LET effective == maxrec - Margin
    IN  [target |-> c.target, max |-> Or(c.max, effective), min |-> c.min,
         single |-> Least(Or(c.single, c.target), effective)]

resolve_segment_limits(c, maxrec) ==
    LET effective == maxrec - Margin
        target    == Least(c.target, effective)
    IN  [target |-> target,
         max    |-> Least(Or(c.max, effective), effective),
         min    |-> c.min,
         single |-> Least(Or(c.single, target), effective)]

-----------------------------------------------------------------------------
Init == /\ phase = "start"
        /\ cfg \in Configs
        /\ server \in Responses
        /\ cap = 0
        /\ lim = NoLimits
        /\ size = 0
        /\ shard = NoPlan

(* discover_and_resolve succeeds: the connector is constructed.            *)
Construct ==
    /\ phase = "start"
    /\ ~DiscoveryFails(server)
    /\ ~TtlForbidden(cfg, server)
    /\ phase' = "up"
    /\ cap' = RecordCap(server)
    /\ lim' = resolve_segment_limits(cfg, RecordCap(server))
    /\ UNCHANGED <<cfg, server, size, shard>>

(* The probe fails (no node answers, an empty response) or one of the      *)
(* checks raises: construction is abandoned.                               *)
ConstructionFails ==
    /\ phase = "start"
    /\ phase' = "failed"
    /\ UNCHANGED <<cfg, server, cap, lim, size, shard>>

(* LMCache's RemoteBackend constructs the connector again: after a failed  *)
(* construction, or when the process restarts.                             *)
Recreate ==
    /\ phase \in {"failed", "up"}
    /\ phase' = "start"
    /\ cap' = 0 /\ lim' = NoLimits /\ size' = 0 /\ shard' = NoPlan
    /\ UNCHANGED <<cfg, server>>

(* put() plans a payload with the limits resolved at construction.         *)
PlanPut(bytes) ==
    /\ phase = "up"
    /\ size' = bytes
    /\ shard' = plan(bytes, lim)
    /\ UNCHANGED <<phase, cfg, server, cap, lim>>

(* An operator changes the namespace; running connectors do not notice.    *)
ReconfigureServer(info) ==
    /\ server' = info
    /\ UNCHANGED <<phase, cfg, cap, lim, size, shard>>

Next == \/ Construct
        \/ ConstructionFails
        \/ Recreate
        \/ \E bytes \in PayloadSizes : PlanPut(bytes)
        \/ \E info \in Responses : ReconfigureServer(info)

Spec == Init /\ [][Next]_vars

-----------------------------------------------------------------------------
(* Type correctness of the connector's planning state.                     *)
TypeOK == /\ phase \in {"start", "up", "failed"}
          /\ cfg \in Configs /\ server \in Responses
          /\ cap \in Nat /\ lim \in LimitsType
          /\ size \in Nat /\ shard \in PlanType

Planned == phase = "up" /\ shard # ConfigError

(* Every record a planned put writes - a segment, or the meta record with  *)
(* the payload inline - leaves the safety margin free below the record cap *)
(* the probe found, so the server cannot answer RecordTooBig.              *)
RecordsFit == Planned => shard.seg_b + Margin <= cap

(* The segments that put() cuts from a planned payload are exactly the     *)
(* payload: in order, without a gap or an overlap, none of them empty, and *)
(* of the lengths that slice_lengths() announces.                          *)
SlicesReassemble ==
    Planned /\ shard.nseg > 1 =>
        \A i \in 0 .. shard.nseg - 1 :
            /\ SliceLo(size, shard, i) < SliceHi(size, shard, i)
            /\ SliceLo(size, shard, i) =
                 (IF i = 0 THEN 0 ELSE SliceHi(size, shard, i - 1))
            /\ i = shard.nseg - 1 => SliceHi(size, shard, i) = size
            /\ SliceHi(size, shard, i) - SliceLo(size, shard, i)
                 = slice_length(size, shard, i)
=============================================================================
