------------------------ MODULE AerospikeEngineProofs -----------------------
(***************************************************************************)
(* What AerospikeEngine guarantees, for all constants:                     *)
(*                                                                         *)
(*  1. type correctness and buffer accounting (IInv);                      *)
(*  2. which steps can change which records and workers (StepForms);       *)
(*  3. when an existing entry is complete (KeptInv);                       *)
(*  4. whose bytes are stored, asked for, read and returned (FromInv);     *)
(*  5. what makes a readable entry unreadable;                             *)
(*  6. that the engine implements ChunkCache.                              *)
(***************************************************************************)
EXTENDS AerospikeEngine, ShardPlanProofs

-----------------------------------------------------------------------------
(***************************************************************************)
(* The inductive invariant of the types is split into what concerns the    *)
(* server's records and requests (StoreOK) and what concerns the workers   *)
(* (LocalOK), because an action changes them through few operators: Serve  *)
(* and HoldBack on one side, Return and Start on the other.                *)
(***************************************************************************)


(* A ready meta record describes a payload, and holds it when it says so.  *)
MetaOK(m) == m.ready => /\ m.nseg >= 1
                        /\ m.md \in Payloads
                        /\ m.nseg = 1 => m.b \in Payloads

Requests == MetaRequests \cup SegRequests

StoreOK ==
    /\ meta \in [Keys -> MetaRecord \cup {Absent}]
    /\ seg \in [Keys -> [Indices -> Segment \cup {Absent}]]
    /\ late \subseteq Requests
    /\ \A k \in Keys : meta[k] # Absent => MetaOK(meta[k])

(* What a worker's arguments and buffer are at each point of an operation. *)
WorkerOK(w) ==
    /\ pc[w] # "idle" => job[w].key \in Keys
    /\ pc[w] \in {"putseg", "putmeta"} =>
          /\ job[w].data \in Payloads
          /\ plan(Size[job[w].data], Limits[w]) # ConfigError
          /\ job[w].nseg = plan(Size[job[w].data], Limits[w]).nseg
    /\ pc[w] = "putseg" => job[w].nseg > 1 /\ todo[w] \subseteq 0 .. job[w].nseg - 1
    /\ pc[w] \in {"getseg", "getcopy"} =>
          /\ bins[w] # Absent /\ MetaOK(bins[w]) /\ bins[w].ready
          /\ bins[w].nseg = job[w].nseg /\ job[w].nseg >= 2
          /\ buf[w].refs = 1
          /\ buf[w].next < job[w].nseg
    /\ Idle(w) /\ buf[w].whose = "fresh" => buf[w].refs = IF ret[w] = "hit" THEN 1 ELSE 0

LocalOK ==
    /\ pc \in [Workers -> PcType]
    /\ job \in [Workers -> JobType]
    /\ todo \in [Workers -> SUBSET Indices]
    /\ bins \in [Workers -> MetaRecord \cup {Absent}]
    /\ got \in [Workers -> [Indices -> Fragment \cup {Absent}]]
    /\ buf \in [Workers -> BufType]
    /\ ret \in [Workers -> Results]
    /\ \A w \in Workers : WorkerOK(w)

OfferedOK == offered \in [Keys -> SUBSET Payloads]

IInv == StoreOK /\ LocalOK /\ OfferedOK

-----------------------------------------------------------------------------
(* The plan of a payload for a worker that put goes on with.               *)
LEMMA PlanOK ==
  ASSUME NEW w \in Workers, NEW d \in Payloads, plan(Size[d], Limits[w]) # ConfigError
  PROVE  /\ plan(Size[d], Limits[w]) \in PlanType
         /\ plan(Size[d], Limits[w]).nseg \in 1 .. MaxSegs
         /\ Size[d] \in Nat /\ Limits[w] \in LimitsType /\ Limits[w].target > 0
<1>1. Size[d] \in Nat /\ Limits[w] \in LimitsType /\ Limits[w].target > 0
  BY SizeAssumption, LimitsAssumption
<1>2. WellShaped(Size[d], plan(Size[d], Limits[w]), Limits[w])
  BY <1>1, PlanShape
<1>3. plan(Size[d], Limits[w]) \in PlanType /\ plan(Size[d], Limits[w]).nseg >= 1
  BY <1>2 DEF WellShaped
<1>4. plan(Size[d], Limits[w]).nseg \in Nat /\ plan(Size[d], Limits[w]).nseg <= MaxSegs
  BY <1>3, MaxSegsAssumption DEF PlanType
<1>5. MaxSegs \in Nat
  BY MaxSegsAssumption
<1> QED
  BY <1>1, <1>3, <1>4, <1>5

(* The TTLs the engine writes with are integers.                           *)
LEMMA TtlOK == /\ DefaultTtl \in Int /\ PinTtl \in Int
               /\ \A p \in BOOLEAN : _ttl_value(p) \in Int
<1>1. DefaultTtl \in Int /\ PinTtlOption \in Int /\ Never \in Int
  BY SwitchesAssumption, SMT DEF Never
<1> QED
  BY <1>1, SMT DEF PinTtl, _ttl_value

(* Serving a well-typed request leaves well-typed records.                 *)
LEMMA ServeOK ==
  ASSUME StoreOK, NEW r \in Requests, Serve(r)
  PROVE  /\ meta' \in [Keys -> MetaRecord \cup {Absent}]
         /\ seg' \in [Keys -> [Indices -> Segment \cup {Absent}]]
         /\ \A k \in Keys : meta'[k] # Absent => MetaOK(meta'[k])
<1>0. MaxSegs \in Nat /\ Never \in Int
  BY MaxSegsAssumption DEF Never
<1>1. Blank \in MetaRecord /\ MetaOK(Blank)
  BY <1>0, SMT DEF Blank, MetaRecord, MetaOK
<1>2. CASE /\ r \in MetaRequests
           /\ meta' = [meta EXCEPT ![r.key] = NewMeta(@, r)]
           /\ seg' = seg
  <2> DEFINE old == meta[r.key]
             base == IF old = Absent THEN Blank ELSE old
             new == NewMeta(old, r)
  <2>1. r.key \in Keys /\ old \in MetaRecord \cup {Absent}
    BY <1>2, Zenon DEF StoreOK, MetaRequests
  <2>2. base \in MetaRecord /\ MetaOK(base)
    BY <1>1, <2>1 DEF StoreOK
  <2>3. new = Absent \/ (new \in MetaRecord /\ MetaOK(new))
    <3> HIDE DEF old
    <3>1. CASE r.kind = "put"
      <4>1. /\ r.data \in Payloads /\ r.nseg \in 1 .. MaxSegs
            /\ r.crc \in BOOLEAN /\ r.pin \in BOOLEAN /\ r.ttl \in Int
        BY <1>2, <3>1 DEF MetaRequests
      <4>2. new = [ready |-> TRUE, nseg |-> r.nseg, md |-> r.data,
                   b |-> IF r.nseg = 1 THEN r.data ELSE base.b,
                   crc |-> IF r.crc THEN r.data ELSE base.crc,
                   pin |-> r.pin, ttl |-> r.ttl]
        BY <3>1 DEF NewMeta, MetaPut
      <4>3. /\ base.b \in Payloads \cup {NoData}
            /\ base.crc \in Payloads \cup {NoData}
        BY <2>2 DEF MetaRecord
      <4> HIDE DEF new, base
      <4>4. new \in MetaRecord
        BY <1>0, <4>1, <4>2, <4>3, SMT DEF MetaRecord
      <4>5. MetaOK(new)
        BY <1>0, <4>1, <4>2, SMT DEF MetaOK
      <4> QED
        BY <4>4, <4>5
    <3>2. CASE r.kind = "pin"
      <4>1. r.pin \in BOOLEAN /\ r.ttl \in Int
        BY <1>2, <3>2 DEF MetaRequests
      <4>2. new = [base EXCEPT !.pin = r.pin, !.ttl = r.ttl]
        BY <3>2 DEF NewMeta, MetaPin
      <4> HIDE DEF new, base
      <4> QED
        BY <2>2, <4>1, <4>2 DEF MetaRecord, MetaOK
    <3>3. CASE r.kind = "touch"
      <4>1. r.ttl \in Int
        BY <1>2, <3>3 DEF MetaRequests
      <4>2. new = IF old = Absent THEN Absent ELSE [base EXCEPT !.ttl = r.ttl]
        BY <3>3 DEF NewMeta, MetaTouch
      <4> HIDE DEF new, base
      <4> QED
        BY <2>2, <4>1, <4>2 DEF MetaRecord, MetaOK
    <3>4. CASE r.kind \notin {"put", "pin", "touch"}
      BY <3>4 DEF NewMeta
    <3> QED
      BY <3>1, <3>2, <3>3, <3>4
  <2>4. meta' = [meta EXCEPT ![r.key] = new]
    BY <1>2
  <2> HIDE DEF new, old, base
  <2> QED
    BY <1>2, <2>1, <2>3, <2>4 DEF StoreOK
<1>3. CASE /\ r \in SegRequests
           /\ seg' = [seg EXCEPT ![r.key][r.i] = NewSegment(r)]
           /\ meta' = meta
  <2>1. r.key \in Keys /\ r.i \in Indices
    BY <1>3 DEF SegRequests
  <2>2. NewSegment(r) \in Segment \cup {Absent}
    BY <1>3 DEF SegRequests, NewSegment, Segment
  <2> QED
    BY <1>3, <2>1, <2>2 DEF StoreOK
<1> QED
  BY <1>2, <1>3 DEF Serve

(* A served request whose client still waits leaves StoreOK.               *)
LEMMA ServeStore ==
  ASSUME StoreOK, NEW r \in Requests, Serve(r), late' = late \/ Resent(r)
  PROVE  StoreOK'
  BY ServeOK DEF StoreOK, Resent, HoldBack

(* The requests a worker waits for are well typed.                         *)
LEMMA OutstandingOK ==
  ASSUME LocalOK, NEW w \in Workers
  PROVE  Outstanding(w) \subseteq Requests
<1> DEFINE k == job[w].key
           d == job[w].data
           p == plan(Size[d], Limits[w])
<1>0. WorkerOK(w) /\ job[w] \in JobType /\ todo[w] \subseteq Indices /\ pc[w] \in PcType
  BY DEF LocalOK
<1>1. job[w].pin \in BOOLEAN
  BY <1>0 DEF JobType
<1>2. _ttl_value(job[w].pin) \in Int /\ DefaultTtl \in Int /\ PinTtl \in Int
  BY <1>1, TtlOK
<1>3. CASE pc[w] = "putseg"
  <2>1. k \in Keys /\ d \in Payloads /\ p # ConfigError /\ p.nseg > 1
        /\ todo[w] \subseteq 0 .. p.nseg - 1
    BY <1>0, <1>3 DEF WorkerOK
  <2>2. Outstanding(w) = {SegRequest(k, d, p, i, job[w].pin) : i \in todo[w]}
    BY <1>3 DEF Outstanding
  <2> SUFFICES ASSUME NEW i \in todo[w]
               PROVE  SegRequest(k, d, p, i, job[w].pin) \in SegRequests
    BY <2>2 DEF Requests
  <2>3. /\ SliceLo(Size[d], p, i) \in Nat /\ SliceHi(Size[d], p, i) \in Nat
        /\ SliceLo(Size[d], p, i) < SliceHi(Size[d], p, i)
    <3>1. Size[d] \in Nat /\ Limits[w] \in LimitsType /\ Limits[w].target > 0
      BY <2>1, PlanOK
    <3>2. i \in 0 .. p.nseg - 1
      BY <2>1
    <3> QED
      BY <2>1, <3>1, <3>2, SlicesTile
  <2> DEFINE lo == SliceLo(Size[d], p, i)
             hi == SliceHi(Size[d], p, i)
  <2>4. [data |-> d, lo |-> lo, hi |-> hi] \in Fragment
    <3>1. lo \in Nat /\ hi \in Nat /\ lo <= hi
      BY <2>3
    <3>2. d \in Payloads
      BY <2>1
    <3> HIDE DEF lo, hi, d
    <3> QED
      BY <3>1, <3>2 DEF Fragment
  <2>5. i \in Indices
    BY <1>0
  <2> DEFINE f == [data |-> d, lo |-> lo, hi |-> hi]
             t == _ttl_value(job[w].pin)
  <2>6. t \in Int
    BY <1>2
  <2>7. SegRequest(k, d, p, i, job[w].pin) =
          [kind |-> "seg", key |-> k, i |-> i, ttl |-> t, frag |-> f]
    BY DEF SegRequest
  <2> HIDE DEF f, t, k
  <2>8. [kind |-> "seg", key |-> k, i |-> i, ttl |-> t, frag |-> f] \in SegRequests
    BY <2>1, <2>4, <2>5, <2>6 DEF SegRequests, f
  <2> QED
    BY <2>7, <2>8 DEF k
<1>4. CASE pc[w] = "putmeta"
  <2>1. k \in Keys /\ d \in Payloads /\ job[w].nseg \in 1 .. MaxSegs
    BY <1>0, <1>4, PlanOK DEF WorkerOK
  <2>2. PutRequest(k, d, job[w].nseg, w \in CrcWorkers, job[w].pin) \in MetaRequests
    <3> DEFINE c == w \in CrcWorkers
               t == _ttl_value(job[w].pin)
    <3>1. c \in BOOLEAN /\ t \in Int
      BY <1>2
    <3> HIDE DEF c, t, k, d
    <3>2. [kind |-> "put", key |-> k, data |-> d, nseg |-> job[w].nseg, crc |-> c,
           pin |-> job[w].pin, ttl |-> t] \in MetaRequests
      BY <1>1, <2>1, <3>1 DEF MetaRequests
    <3> QED
      BY <3>2 DEF PutRequest, c, t
  <2>3. Outstanding(w) = {PutRequest(k, d, job[w].nseg, w \in CrcWorkers, job[w].pin)}
    BY <1>4 DEF Outstanding
  <2> QED
    BY <2>2, <2>3 DEF Requests
<1>5. CASE pc[w] \in {"pinwrite", "unpinwrite"}
  <2>1. k \in Keys
    BY <1>0, <1>5 DEF WorkerOK
  <2>2. /\ PinRequest(k, TRUE, PinTtl) \in MetaRequests
        /\ PinRequest(k, FALSE, DefaultTtl) \in MetaRequests
    BY <1>2, <2>1, Zenon DEF PinRequest, MetaRequests
  <2> QED
    BY <1>5, <2>2 DEF Requests, Outstanding
<1>6. CASE pc[w] = "removemeta"
  <2>1. RemoveRequest(k) \in MetaRequests
    BY <1>0, <1>6, Zenon DEF RemoveRequest, MetaRequests, WorkerOK
  <2> QED
    BY <1>6, <2>1 DEF Requests, Outstanding
<1>7. CASE pc[w] = "removeseg"
  <2>1. \A i \in todo[w] : RemoveSegRequest(k, i) \in SegRequests
    BY <1>0, <1>7, Zenon DEF RemoveSegRequest, SegRequests, WorkerOK
  <2>2. Outstanding(w) = {RemoveSegRequest(k, i) : i \in todo[w]}
    BY <1>7 DEF Outstanding
  <2> QED
    BY <2>1, <2>2 DEF Requests
<1>8. CASE pc[w] \in {"idle", "getseg", "getcopy"}
  BY <1>8 DEF Outstanding
<1> QED
  BY <1>0, <1>3, <1>4, <1>5, <1>6, <1>7, <1>8 DEF PcType

(* Giving up requests leaves StoreOK.                                      *)
LEMMA HoldBackStore ==
  ASSUME StoreOK, NEW R \in SUBSET Requests, HoldBack(R), meta' = meta, seg' = seg
  PROVE  StoreOK'
<1> PICK S \in SUBSET R : late' = late \cup S
  BY DEF HoldBack
<1> QED
  BY DEF StoreOK

LEMMA Defaults == /\ NoJob \in JobType /\ NoBuf \in BufType
                  /\ NoGot \in [Indices -> Fragment \cup {Absent}]
<1>1. MaxSegs \in Nat
  BY MaxSegsAssumption
<1>2. NoJob \in JobType
  BY <1>1, SMT DEF NoJob, JobType
<1>3. NoBuf \in BufType
  BY <1>1, SMT DEF NoBuf, BufType
<1> QED
  BY <1>2, <1>3 DEF NoGot

(* A step of worker w that leaves the other workers' state alone.          *)
LEMMA OneWorker ==
  ASSUME LocalOK, NEW w \in Workers,
         pc' \in [Workers -> PcType], job' \in [Workers -> JobType],
         todo' \in [Workers -> SUBSET Indices],
         bins' \in [Workers -> MetaRecord \cup {Absent}],
         got' \in [Workers -> [Indices -> Fragment \cup {Absent}]],
         buf' \in [Workers -> BufType], ret' \in [Workers -> Results],
         WorkerOK(w)',
         \A v \in Workers \ {w} :
            /\ pc'[v] = pc[v] /\ job'[v] = job[v] /\ todo'[v] = todo[v]
            /\ bins'[v] = bins[v] /\ buf'[v] = buf[v] /\ ret'[v] = ret[v]
  PROVE  LocalOK'
<1>1. ASSUME NEW v \in Workers, v # w PROVE WorkerOK(v)'
  <2>1. /\ pc'[v] = pc[v] /\ job'[v] = job[v] /\ todo'[v] = todo[v]
        /\ bins'[v] = bins[v] /\ buf'[v] = buf[v] /\ ret'[v] = ret[v]
    BY <1>1
  <2>2. WorkerOK(v)
    BY DEF LocalOK
  <2> QED
    BY <2>1, <2>2 DEF WorkerOK, Idle
<1> QED
  BY <1>1 DEF LocalOK

(* Returning from an operation leaves LocalOK, provided that a buffer get  *)
(* allocated is accounted for.                                             *)
LEMMA ReturnLocal ==
  ASSUME LocalOK, NEW w \in Workers, NEW r \in Results, NEW b \in BufType,
         b.whose = "fresh" => b.refs = IF r = "hit" THEN 1 ELSE 0,
         Return(w, r, b)
  PROVE  LocalOK'
<1>1. /\ pc' \in [Workers -> PcType] /\ job' \in [Workers -> JobType]
      /\ todo' \in [Workers -> SUBSET Indices]
      /\ bins' \in [Workers -> MetaRecord \cup {Absent}]
      /\ got' \in [Workers -> [Indices -> Fragment \cup {Absent}]]
      /\ buf' \in [Workers -> BufType] /\ ret' \in [Workers -> Results]
  BY Defaults DEF LocalOK, Return, PcType
<1>2. WorkerOK(w)'
  <2>1. pc'[w] = "idle" /\ buf'[w] = b /\ ret'[w] = r
    BY DEF LocalOK, Return
  <2> QED
    BY <2>1 DEF WorkerOK, Idle
<1>3. \A v \in Workers \ {w} :
        /\ pc'[v] = pc[v] /\ job'[v] = job[v] /\ todo'[v] = todo[v]
        /\ bins'[v] = bins[v] /\ buf'[v] = buf[v] /\ ret'[v] = ret[v]
  BY DEF LocalOK, Return
<1> QED
  BY <1>1, <1>2, <1>3, OneWorker

(* The same for the start of an operation other than put and get.          *)
LEMMA StartLocal ==
  ASSUME LocalOK, NEW w \in Workers, NEW k \in Keys, NEW n \in 0 .. MaxSegs,
         NEW op \in {"pinwrite", "unpinwrite", "removemeta", "removeseg"},
         NEW T \in SUBSET Indices, Start(w, k, op, n, T)
  PROVE  LocalOK'
<1>0. [key |-> k, data |-> NoData, pin |-> FALSE, nseg |-> n] \in JobType
  BY SMT DEF JobType
<1>1. /\ pc' \in [Workers -> PcType] /\ job' \in [Workers -> JobType]
      /\ todo' \in [Workers -> SUBSET Indices]
      /\ bins' \in [Workers -> MetaRecord \cup {Absent}]
      /\ got' \in [Workers -> [Indices -> Fragment \cup {Absent}]]
      /\ buf' \in [Workers -> BufType] /\ ret' \in [Workers -> Results]
  BY <1>0, Defaults DEF LocalOK, Start, PcType, Results
<1>2. WorkerOK(w)'
  <2>1. pc'[w] = op /\ job'[w].key = k
    BY DEF LocalOK, Start
  <2> QED
    BY <2>1 DEF WorkerOK, Idle
<1>3. \A v \in Workers \ {w} :
        /\ pc'[v] = pc[v] /\ job'[v] = job[v] /\ todo'[v] = todo[v]
        /\ bins'[v] = bins[v] /\ buf'[v] = buf[v] /\ ret'[v] = ret[v]
  BY DEF LocalOK, Start
<1> QED
  BY <1>1, <1>2, <1>3, OneWorker

-----------------------------------------------------------------------------
(* One lemma per group of actions: they keep the invariant.                *)

(* put, up to its first request *)
LEMMA PutPlanStep ==
  ASSUME IInv, NEW w \in Workers, NEW k \in Keys, NEW d \in Payloads,
         NEW pinned \in PinnedPuts, PutPlan(w, k, d, pinned)
  PROVE  IInv'
<1> USE DEF IInv
<1> DEFINE shard == plan(Size[d], Limits[w])
           j == [key |-> k, data |-> d, pin |-> pinned, nseg |-> shard.nseg]
<1>1. StoreOK'
  BY DEF PutPlan, StoreOK, store
<1>2. OfferedOK'
  BY DEF PutPlan, OfferedOK
<1>3. shard # ConfigError
  BY DEF PutPlan
<1>4. shard.nseg \in 1 .. MaxSegs
  BY <1>3, PlanOK
<1>5. j \in JobType
  <2>1. pinned \in BOOLEAN /\ MaxSegs \in Nat
    BY SwitchesAssumption, MaxSegsAssumption
  <2> HIDE DEF shard
  <2>2. shard.nseg \in 0 .. MaxSegs
    BY <1>4, <2>1
  <2> QED
    BY <2>1, <2>2 DEF JobType
<1>6. /\ pc' = [pc EXCEPT ![w] = IF shard.nseg = 1 THEN "putmeta" ELSE "putseg"]
      /\ todo' = [todo EXCEPT ![w] = IF shard.nseg = 1 THEN {} ELSE 0 .. shard.nseg - 1]
      /\ job' = [job EXCEPT ![w] = j]
      /\ ret' = [ret EXCEPT ![w] = "none"] /\ buf' = [buf EXCEPT ![w] = NoBuf]
      /\ bins' = bins /\ got' = got
  BY DEF PutPlan
<1>7. (0 .. shard.nseg - 1) \subseteq Indices
  <2> HIDE DEF shard
  <2> QED
    BY <1>4, MaxSegsAssumption DEF Indices
<1>8. WorkerOK(w)'
  <2>1. /\ pc'[w] = IF shard.nseg = 1 THEN "putmeta" ELSE "putseg"
        /\ todo'[w] = IF shard.nseg = 1 THEN {} ELSE 0 .. shard.nseg - 1
        /\ job'[w] = j
    BY <1>6 DEF LocalOK
  <2>2. job'[w].key = k /\ job'[w].data = d /\ job'[w].nseg = shard.nseg
    BY <2>1
  <2>3. shard.nseg # 1 => shard.nseg > 1
    BY <1>4
  <2> QED
    BY <1>3, <2>1, <2>2, <2>3 DEF WorkerOK, Idle
<1> HIDE DEF shard, j
<1>9. LocalOK'
  BY <1>5, <1>6, <1>7, <1>8, OneWorker, Defaults DEF LocalOK, PcType, Results
<1> QED
  BY <1>1, <1>2, <1>9

(* put, with its requests *)
LEMMA PutStep ==
  ASSUME IInv, NEW w \in Workers, NEW i \in Indices,
         PutSegment(w, i) \/ PutMeta(w) \/ PutFails(w)
  PROVE  IInv'
<1> USE DEF IInv
<1>0. pc[w] \in PcType /\ WorkerOK(w)
  BY DEF LocalOK
<1>1. CASE PutSegment(w, i)
  <2> DEFINE r == SegRequest(job[w].key, job[w].data,
                             plan(Size[job[w].data], Limits[w]), i, job[w].pin)
  <2>1. r \in Outstanding(w)
    BY <1>1 DEF PutSegment, Outstanding
  <2>2. StoreOK'
    BY <1>1, <2>1, OutstandingOK, ServeStore DEF PutSegment
  <2>3. /\ todo' = [todo EXCEPT ![w] = @ \ {i}]
        /\ pc' = [pc EXCEPT ![w] = AfterSegment(w, i)]
        /\ AfterSegment(w, i) \in {"putseg", "putmeta"}
        /\ job' = job /\ bins' = bins /\ got' = got /\ buf' = buf /\ ret' = ret
        /\ pc[w] = "putseg"
    BY <1>1 DEF PutSegment, AfterSegment
  <2>4. WorkerOK(w)'
    <3>1. pc'[w] \in {"putseg", "putmeta"} /\ todo'[w] \subseteq todo[w]
      BY <2>3 DEF LocalOK
    <3> QED
      BY <1>0, <2>3, <3>1 DEF WorkerOK, Idle
  <2>5. LocalOK'
    BY <2>3, <2>4, OneWorker DEF LocalOK, PcType
  <2> QED
    BY <1>1, <2>2, <2>5 DEF PutSegment, OfferedOK
<1>2. CASE PutMeta(w)
  BY <1>2, OutstandingOK, ServeStore, ReturnLocal, Defaults
     DEF PutMeta, OfferedOK, Results, NoBuf
<1>3. CASE PutFails(w)
  BY <1>3, OutstandingOK, HoldBackStore, ReturnLocal, Defaults
     DEF PutFails, OfferedOK, Results, NoBuf
<1> QED
  BY <1>1, <1>2, <1>3

(* pin, unpin and remove *)
LEMMA OtherStep ==
  ASSUME IInv, NEW w \in Workers, NEW k \in Keys, NEW i \in Indices,
         \/ PinMiss(w, k) \/ PinFound(w, k) \/ PinWrite(w) \/ PinWriteFails(w)
         \/ UnpinTouch(w, k) \/ UnpinTouchFails(w, k)
         \/ UnpinWrite(w) \/ UnpinWriteFails(w)
         \/ RemoveSelect(w, k) \/ RemoveMeta(w) \/ RemoveMetaFails(w)
         \/ RemoveSegment(w, i) \/ RemoveSegmentsFail(w)
  PROVE  IInv'
<1> USE DEF IInv
<1>0. /\ pc[w] \in PcType /\ WorkerOK(w) /\ MaxSegs \in Nat
      /\ 0 \in 0 .. MaxSegs /\ 1 \in 0 .. MaxSegs /\ {} \in SUBSET Indices
  BY MaxSegsAssumption DEF LocalOK
<1>a. NoBuf \in BufType /\ NoBuf.whose # "fresh"
  BY Defaults DEF NoBuf
<1>b. TouchRequest(k) \in Requests
  BY TtlOK, Zenon DEF TouchRequest, MetaRequests, Requests
<1>1. CASE PinMiss(w, k)
  BY <1>1, <1>a, ReturnLocal DEF PinMiss, StoreOK, OfferedOK, store, Results
<1>2. CASE PinFound(w, k)
  BY <1>0, <1>2, StartLocal DEF PinFound, StoreOK, OfferedOK, store
<1>3. CASE PinWrite(w) \/ UnpinWrite(w)
  BY <1>3, <1>a, OutstandingOK, ServeStore, ReturnLocal
     DEF PinWrite, UnpinWrite, OfferedOK, Results
<1>4. CASE PinWriteFails(w) \/ UnpinWriteFails(w) \/ RemoveMetaFails(w) \/ RemoveSegmentsFail(w)
  BY <1>4, <1>a, OutstandingOK, HoldBackStore, ReturnLocal
     DEF PinWriteFails, UnpinWriteFails, RemoveMetaFails, RemoveSegmentsFail, OfferedOK, Results
<1>5. CASE UnpinTouch(w, k)
  <2>1. CASE exists(k)
    BY <1>0, <1>5, <1>b, <2>1, ServeStore, StartLocal DEF UnpinTouch, OfferedOK
  <2>2. CASE ~exists(k)
    BY <1>5, <1>a, <2>2, ReturnLocal DEF UnpinTouch, StoreOK, OfferedOK, Results
  <2> QED
    BY <2>1, <2>2
<1>6. CASE UnpinTouchFails(w, k)
  BY <1>6, <1>a, <1>b, HoldBackStore, ReturnLocal DEF UnpinTouchFails, OfferedOK, Results
<1>7. CASE RemoveSelect(w, k)
  <2>1. StoreOK' /\ OfferedOK'
    BY <1>7 DEF RemoveSelect, StoreOK, OfferedOK, store
  <2>2. CASE Return(w, "false", NoBuf)
    BY <1>a, <2>1, <2>2, ReturnLocal DEF Results
  <2>3. CASE exists(k) /\ Start(w, k, "removemeta",
                                IF meta[k].nseg = 0 THEN 1 ELSE meta[k].nseg, {})
    <3> DEFINE n == IF meta[k].nseg = 0 THEN 1 ELSE meta[k].nseg
    <3>1. meta[k].nseg \in 0 .. MaxSegs
      BY <2>3 DEF StoreOK, MetaRecord, exists
    <3>2. n \in 0 .. MaxSegs
      BY <1>0, <3>1
    <3> QED
      BY <1>0, <2>1, <2>3, <3>2, StartLocal
  <2>4. CASE Start(w, k, "removemeta", 1, {})
    BY <1>0, <2>1, <2>4, StartLocal
  <2> QED
    BY <1>7, <2>2, <2>3, <2>4 DEF RemoveSelect
<1>8. CASE RemoveMeta(w)
  <2> DEFINE kk == job[w].key
             n == job[w].nseg
  <2>1. /\ kk \in Keys /\ n \in 0 .. MaxSegs
        /\ RemoveRequest(kk) \in Requests
    <3>1. RemoveRequest(kk) \in Outstanding(w)
      BY <1>8 DEF RemoveMeta, Outstanding
    <3> QED
      BY <1>0, <1>8, <3>1, OutstandingOK DEF RemoveMeta, WorkerOK, LocalOK, JobType
  <2>2. OfferedOK' /\ late' = late
    BY <1>8 DEF RemoveMeta, OfferedOK
  <2>3. CASE ~exists(kk)
    <3>1. Return(w, "false", NoBuf) /\ UNCHANGED <<meta, seg>>
      BY <1>8, <2>3 DEF RemoveMeta
    <3> QED
      BY <1>a, <2>2, <3>1, ReturnLocal DEF StoreOK, Results
  <2>4. CASE exists(kk)
    <3>1. StoreOK'
      BY <1>8, <2>1, <2>2, <2>4, ServeStore DEF RemoveMeta
    <3>2. CASE n > 1
      <4>1. 0 .. n - 1 \in SUBSET Indices
        BY <1>0, <2>1 DEF Indices
      <4>2. Start(w, kk, "removeseg", n, 0 .. n - 1)
        BY <1>8, <2>4, <3>2 DEF RemoveMeta
      <4> QED
        BY <2>1, <2>2, <3>1, <4>1, <4>2, StartLocal
    <3>3. CASE ~(n > 1)
      <4>1. Return(w, "true", NoBuf)
        BY <1>8, <2>4, <3>3 DEF RemoveMeta
      <4> QED
        BY <1>a, <2>2, <3>1, <4>1, ReturnLocal DEF Results
    <3> QED
      BY <3>2, <3>3
  <2> QED
    BY <2>3, <2>4
<1>9. CASE RemoveSegment(w, i)
  <2>1. RemoveSegRequest(job[w].key, i) \in Outstanding(w)
    BY <1>9 DEF RemoveSegment, Outstanding
  <2>2. StoreOK' /\ OfferedOK'
    BY <1>9, <2>1, OutstandingOK, ServeStore DEF RemoveSegment, OfferedOK
  <2>3. CASE todo[w] = {i}
    BY <1>9, <1>a, <2>2, <2>3, ReturnLocal DEF RemoveSegment, Results
  <2>4. CASE todo[w] # {i}
    <3>1. /\ todo' = [todo EXCEPT ![w] = @ \ {i}] /\ pc[w] = "removeseg"
          /\ pc' = pc /\ job' = job /\ bins' = bins /\ got' = got
          /\ buf' = buf /\ ret' = ret
      BY <1>9, <2>4 DEF RemoveSegment
    <3>2. WorkerOK(w)'
      BY <1>0, <3>1 DEF WorkerOK, Idle
    <3>3. LocalOK'
      BY <3>1, <3>2, OneWorker DEF LocalOK
    <3> QED
      BY <2>2, <3>3
  <2> QED
    BY <2>3, <2>4
<1> QED
  BY <1>1, <1>2, <1>3, <1>4, <1>5, <1>6, <1>7, <1>8, <1>9

(* The buffers get may start with.                                         *)
LEMMA ReadBuffersOK ==
  ASSUME NEW k \in Keys, NEW m \in MetaRecord, MetaOK(m), m.ready,
         NEW b \in ReadBuffers(k, m)
  PROVE  /\ b \in BufType /\ b.refs = 1 /\ b.next = 0 /\ b.n = 0 /\ b.key = k
         /\ b.whose = "fresh" => /\ b.reshape \/ b.cap = Size[m.md]
         /\ b.whose = "caller" => \E d \in Rendered[k] : b.cap = Size[d]
         /\ b.whose \in Buffers
<1>0. MaxSegs \in Nat /\ SaveChunkMeta \in BOOLEAN /\ FullChunk \in Nat
  BY MaxSegsAssumption, SwitchesAssumption
<1>1. m.md \in Payloads /\ Size[m.md] \in Nat
  BY SizeAssumption DEF MetaOK
<1>2. CASE "fresh" \in Buffers /\ b = FreshBuffer(k, m)
  <2> DEFINE c == IF SaveChunkMeta THEN Size[m.md] ELSE FullChunk
  <2>1. b = [whose |-> "fresh", key |-> k, of |-> NoData, n |-> 0, next |-> 0,
             cap |-> c, reshape |-> ~SaveChunkMeta, refs |-> 1]
    BY <1>2 DEF FreshBuffer, NoBuf
  <2>2. c \in Nat /\ (SaveChunkMeta => c = Size[m.md])
    BY <1>0, <1>1
  <2> HIDE DEF c
  <2>3. b \in BufType
    BY <1>0, <2>1, <2>2 DEF BufType
  <2>4. /\ b.whose = "fresh" /\ b.refs = 1 /\ b.next = 0 /\ b.n = 0 /\ b.key = k
        /\ b.cap = c /\ b.reshape = ~SaveChunkMeta
    BY <2>1
  <2> QED
    BY <1>0, <1>2, <2>2, <2>3, <2>4
<1>3. CASE "caller" \in Buffers /\ \E d \in Rendered[k] : b = CallerBuffer(k, d)
  <2> PICK d \in Rendered[k] : b = CallerBuffer(k, d)
    BY <1>3
  <2>1. d \in Payloads /\ Size[d] \in Nat
    BY RenderedAssumption, SizeAssumption
  <2>2. b = [whose |-> "caller", key |-> k, of |-> NoData, n |-> 0, next |-> 0,
             cap |-> Size[d], reshape |-> FALSE, refs |-> 1]
    BY DEF CallerBuffer, NoBuf
  <2>3. b \in BufType
    BY <1>0, <2>1, <2>2 DEF BufType
  <2>4. /\ b.whose = "caller" /\ b.refs = 1 /\ b.next = 0 /\ b.n = 0 /\ b.key = k
        /\ b.cap = Size[d]
    BY <2>2
  <2> QED
    BY <1>3, <2>3, <2>4
<1> QED
  BY <1>2, <1>3 DEF ReadBuffers

(* Copying a fragment, and releasing a buffer, on typed buffers.           *)
LEMMA CopyOK ==
  ASSUME NEW b \in BufType, NEW f \in Fragment, b.next < MaxSegs
  PROVE  /\ Copy(b, f) \in BufType
         /\ Copy(b, f).whose = b.whose /\ Copy(b, f).key = b.key
         /\ Copy(b, f).cap = b.cap /\ Copy(b, f).reshape = b.reshape
         /\ Copy(b, f).refs = b.refs /\ Copy(b, f).next = b.next + 1
         /\ Copy(b, f).n = b.n + (f.hi - f.lo)
         /\ Copy(b, f).of = IF f.lo = b.n /\ (b.n = 0 \/ b.of = f.data)
                            THEN f.data ELSE NoData
<1> DEFINE o == IF f.lo = b.n /\ (b.n = 0 \/ b.of = f.data) THEN f.data ELSE NoData
           m == b.n + (f.hi - f.lo)
           x == b.next + 1
<1>1. o \in Payloads \cup {NoData} /\ m \in Nat /\ x \in 0 .. MaxSegs
  BY MaxSegsAssumption DEF BufType, Fragment
<1>2. Copy(b, f) = [b EXCEPT !.of = o, !.n = m, !.next = x]
  BY DEF Copy
<1> HIDE DEF o, m, x
<1>3. [b EXCEPT !.of = o, !.n = m, !.next = x] \in BufType
  BY <1>1, Zenon DEF BufType
<1>4. /\ Copy(b, f).whose = b.whose /\ Copy(b, f).key = b.key
      /\ Copy(b, f).cap = b.cap /\ Copy(b, f).reshape = b.reshape
      /\ Copy(b, f).refs = b.refs /\ Copy(b, f).next = x
      /\ Copy(b, f).n = m /\ Copy(b, f).of = o
  BY <1>2 DEF BufType
<1> QED
  BY <1>2, <1>3, <1>4 DEF o, m, x

LEMMA ReleaseOK ==
  ASSUME NEW b \in BufType, b.refs = 1
  PROVE  Release(b) \in BufType /\ Release(b).refs = 0 /\ Release(b).whose = b.whose
<1> DEFINE c == b.refs - 1
<1>1. c = 0 /\ 0 \in 0 .. MaxSegs
  BY MaxSegsAssumption
<1>2. Release(b) = [b EXCEPT !.of = NoData, !.n = 0, !.next = 0, !.refs = c]
  BY DEF Release
<1> HIDE DEF c
<1>3. [b EXCEPT !.of = NoData, !.n = 0, !.next = 0, !.refs = c] \in BufType
  BY <1>1 DEF BufType
<1>4. Release(b).refs = c /\ Release(b).whose = b.whose
  BY <1>2 DEF BufType
<1> QED
  BY <1>1, <1>2, <1>3, <1>4

(* The end of get, for a buffer that still has its reference.              *)
LEMMA FinishGetLocal ==
  ASSUME LocalOK, NEW w \in Workers, NEW b \in BufType, b.refs = 1, NEW m,
         FinishGet(w, m, b)
  PROVE  LocalOK'
<1>1. CASE CrcMismatch(w, m, b)
  BY <1>1, ReleaseOK, ReturnLocal DEF FinishGet, Results
<1>2. CASE ~CrcMismatch(w, m, b)
  BY <1>2, ReleaseOK, ReturnLocal DEF FinishGet, Results
<1> QED
  BY <1>1, <1>2

(* get *)
LEMMA GetStep ==
  ASSUME IInv, NEW w \in Workers, NEW k \in Keys, NEW i \in Indices,
         \/ GetNoEntry(w, k) \/ GetMetaFails(w, k) \/ GetNoBuffer(w, k)
         \/ GetInline(w, k) \/ GetSharded(w, k)
         \/ GetSegment(w, i) \/ GetSegmentsFail(w) \/ GetCopy(w)
  PROVE  IInv'
<1> USE DEF IInv
<1>0. pc[w] \in PcType /\ WorkerOK(w) /\ buf[w] \in BufType /\ MaxSegs \in Nat \ {0}
  BY MaxSegsAssumption DEF LocalOK
<1>a. NoBuf \in BufType /\ NoBuf.whose # "fresh"
  BY Defaults DEF NoBuf
<1>b. StoreOK' /\ OfferedOK'
  <2>1. meta' = meta /\ seg' = seg /\ late' = late /\ offered' = offered
    BY DEF GetNoEntry, GetMetaFails, GetNoBuffer, GetInline, GetSharded,
           GetSegment, GetSegmentsFail, GetCopy, store
  <2> QED
    BY <2>1 DEF StoreOK, OfferedOK
<1>c. Ready(k) => meta[k] \in MetaRecord /\ MetaOK(meta[k]) /\ meta[k].ready
  BY DEF StoreOK, Ready
<1>1. CASE GetNoEntry(w, k) \/ GetMetaFails(w, k) \/ GetNoBuffer(w, k)
  BY <1>1, <1>a, <1>b, ReturnLocal DEF GetNoEntry, GetMetaFails, GetNoBuffer, Results
<1>2. CASE GetInline(w, k)
  <2> DEFINE m == meta[k]
             f == Inline(m.b)
  <2>1. m \in MetaRecord /\ MetaOK(m) /\ m.ready /\ m.nseg = 1
    BY <1>2, <1>c DEF GetInline
  <2>2. m.b \in Payloads /\ m.b # NoData
    BY <2>1, SentinelAssumption DEF MetaOK
  <2>3. f \in Fragment
    <3>1. Size[m.b] \in Nat
      BY <2>2, SizeAssumption
    <3> QED
      BY <2>2, <3>1 DEF Inline, Fragment
  <2>4. PICK b \in ReadBuffers(k, m) :
           IF m.b = NoData THEN Return(w, "miss", b)
           ELSE IF Overflows(b, f) THEN Return(w, "error", Release(b))
           ELSE FinishGet(w, m, Copy(b, f))
    BY <1>2 DEF GetInline
  <2>5. b \in BufType /\ b.refs = 1 /\ b.next = 0
    BY <2>1, ReadBuffersOK
  <2>6. CASE Overflows(b, f)
    BY <1>b, <2>2, <2>4, <2>5, <2>6, ReleaseOK, ReturnLocal DEF Results
  <2>7. CASE ~Overflows(b, f)
    <3>1. FinishGet(w, m, Copy(b, f))
      BY <2>2, <2>4, <2>7
    <3>2. Copy(b, f) \in BufType /\ Copy(b, f).refs = 1
      BY <1>0, <2>3, <2>5, CopyOK
    <3> QED
      BY <1>b, <3>1, <3>2, FinishGetLocal
  <2> QED
    BY <2>6, <2>7
<1>3. CASE GetSharded(w, k)
  <2> DEFINE m == meta[k]
             j == [NoJob EXCEPT !.key = k, !.nseg = m.nseg]
  <2>1. m \in MetaRecord /\ MetaOK(m) /\ m.ready /\ m.nseg # 1 /\ m # Absent
    BY <1>3, <1>c DEF GetSharded, Ready
  <2>2. m.nseg \in 0 .. MaxSegs /\ m.nseg >= 2
    BY <2>1 DEF MetaOK, MetaRecord
  <2>3. PICK b \in ReadBuffers(k, m) : buf' = [buf EXCEPT ![w] = b]
    BY <1>3 DEF GetSharded
  <2>4. b \in BufType /\ b.refs = 1 /\ b.next = 0
    BY <2>1, ReadBuffersOK
  <2>5. /\ pc' = [pc EXCEPT ![w] = "getseg"]
        /\ job' = [job EXCEPT ![w] = j]
        /\ todo' = [todo EXCEPT ![w] = 0 .. m.nseg - 1]
        /\ bins' = [bins EXCEPT ![w] = m]
        /\ ret' = [ret EXCEPT ![w] = "none"] /\ got' = got
    BY <1>3 DEF GetSharded
  <2>6. j \in JobType /\ j.key = k /\ j.nseg = m.nseg
    BY <2>2 DEF NoJob, JobType
  <2>7. 0 .. m.nseg - 1 \in SUBSET Indices
    BY <1>0, <2>2 DEF Indices
  <2> HIDE DEF m, j
  <2>8. WorkerOK(w)'
    <3>1. pc'[w] = "getseg" /\ job'[w] = j /\ bins'[w] = m /\ buf'[w] = b
      BY <2>3, <2>5 DEF LocalOK
    <3> QED
      BY <2>1, <2>2, <2>4, <2>6, <3>1 DEF WorkerOK, Idle
  <2>9. LocalOK'
    BY <2>1, <2>3, <2>4, <2>5, <2>6, <2>7, <2>8, OneWorker DEF LocalOK, PcType, Results
  <2> QED
    BY <1>b, <2>9
<1>4. CASE GetSegment(w, i)
  <2> DEFINE s == seg[job[w].key][i]
  <2>1. pc[w] = "getseg" /\ job[w].key \in Keys
    BY <1>0, <1>4 DEF GetSegment, WorkerOK
  <2>2. s \in Segment \cup {Absent}
    BY <2>1 DEF StoreOK
  <2>3. PICK answer \in {Absent} \cup {t.frag : t \in {s} \ {Absent}} :
           got' = [got EXCEPT ![w][i] = answer]
    BY <1>4 DEF GetSegment
  <2>4. answer \in Fragment \cup {Absent}
    BY <2>2 DEF Segment
  <2>5. /\ todo' = [todo EXCEPT ![w] = ReadsLeft(w, i)]
        /\ pc' = [pc EXCEPT ![w] = IF ReadsLeft(w, i) = {} THEN "getcopy" ELSE @]
        /\ job' = job /\ bins' = bins /\ buf' = buf /\ ret' = ret
    BY <1>4 DEF GetSegment
  <2>6. ReadsLeft(w, i) \in SUBSET Indices
    BY DEF ReadsLeft, LocalOK
  <2>7. WorkerOK(w)'
    <3>1. pc'[w] \in {"getseg", "getcopy"}
      BY <2>1, <2>5 DEF LocalOK
    <3> QED
      BY <1>0, <2>1, <2>5, <3>1 DEF WorkerOK, Idle
  <2>8. LocalOK'
    BY <2>3, <2>4, <2>5, <2>6, <2>7, OneWorker DEF LocalOK, PcType
  <2> QED
    BY <1>b, <2>8
<1>5. CASE GetSegmentsFail(w)
  <2>1. buf[w].refs = 1
    BY <1>0, <1>5 DEF GetSegmentsFail, WorkerOK
  <2> QED
    BY <1>0, <1>5, <1>b, <2>1, ReleaseOK, ReturnLocal DEF GetSegmentsFail, Results
<1>6. CASE GetCopy(w)
  <2> DEFINE f == got[w][buf[w].next]
             b == Copy(buf[w], f)
  <2>1. /\ pc[w] = "getcopy" /\ buf[w].refs = 1 /\ buf[w].next < job[w].nseg
        /\ buf[w].next \in Nat /\ job[w].nseg \in 0 .. MaxSegs
    BY <1>0, <1>6 DEF GetCopy, WorkerOK, LocalOK, JobType, BufType
  <2>2. f \in Fragment \cup {Absent}
    <3>1. buf[w].next \in Indices
      BY <1>0, <2>1 DEF Indices
    <3> QED
      BY <3>1 DEF LocalOK
  <2>3. CASE f = Absent
    BY <1>0, <1>6, <1>b, <2>1, <2>3, ReleaseOK, ReturnLocal DEF GetCopy, Results
  <2>4. CASE f # Absent /\ Overflows(buf[w], f)
    BY <1>0, <1>6, <1>b, <2>1, <2>4, ReleaseOK, ReturnLocal DEF GetCopy, Results
  <2>5. CASE f # Absent /\ ~Overflows(buf[w], f)
    <3>1. b \in BufType /\ b.refs = 1 /\ b.next = buf[w].next + 1
      BY <1>0, <2>1, <2>2, <2>5, CopyOK
    <3>2. CASE b.next = job[w].nseg
      <4>1. FinishGet(w, bins[w], b)
        BY <1>6, <2>5, <3>2 DEF GetCopy
      <4> QED
        BY <1>b, <3>1, <4>1, FinishGetLocal
    <3>3. CASE b.next # job[w].nseg
      <4>1. /\ buf' = [buf EXCEPT ![w] = b]
            /\ pc' = pc /\ job' = job /\ todo' = todo /\ bins' = bins
            /\ got' = got /\ ret' = ret
        BY <1>6, <2>5, <3>3 DEF GetCopy
      <4>2. b.next < job[w].nseg
        BY <2>1, <3>1, <3>3
      <4> HIDE DEF b, f
      <4>3. WorkerOK(w)'
        <5>1. buf'[w] = b
          BY <4>1 DEF LocalOK
        <5> QED
          BY <1>0, <2>1, <3>1, <4>1, <4>2, <5>1 DEF WorkerOK, Idle
      <4>4. LocalOK'
        BY <3>1, <4>1, <4>3, OneWorker DEF LocalOK
      <4> QED
        BY <1>b, <4>4
    <3> QED
      BY <3>2, <3>3
  <2> QED
    BY <2>3, <2>4, <2>5
<1> QED
  BY <1>1, <1>2, <1>3, <1>4, <1>5, <1>6

(* crashes, late requests and expiry *)
LEMMA EnvironmentStep ==
  ASSUME IInv, Environment
  PROVE  IInv'
<1> USE DEF IInv
<1>1. ASSUME NEW w \in Workers, Crash(w) PROVE IInv'
  BY <1>1, OutstandingOK, HoldBackStore, ReturnLocal, Defaults
     DEF Crash, OfferedOK, Results, NoBuf
<1>2. ASSUME NEW r \in late, ServeLate(r) PROVE IInv'
  <2>1. r \in Requests /\ Serve(r) /\ late' = late \ {r}
    BY <1>2 DEF ServeLate, StoreOK
  <2>2. StoreOK'
    BY <2>1, ServeOK DEF StoreOK
  <2>3. LocalOK' /\ OfferedOK'
    BY <1>2 DEF ServeLate, LocalOK, WorkerOK, Idle, OfferedOK, local
  <2> QED
    BY <2>2, <2>3
<1>3. ASSUME NEW k \in Keys, ExpireMeta(k) PROVE IInv'
  <2>1. StoreOK'
    BY <1>3 DEF ExpireMeta, StoreOK
  <2>2. LocalOK' /\ OfferedOK'
    BY <1>3 DEF ExpireMeta, LocalOK, WorkerOK, Idle, OfferedOK, local
  <2> QED
    BY <2>1, <2>2
<1>4. ASSUME NEW k \in Keys, NEW i \in Indices, ExpireSegment(k, i) PROVE IInv'
  <2>1. StoreOK'
    BY <1>4 DEF ExpireSegment, StoreOK
  <2>2. LocalOK' /\ OfferedOK'
    BY <1>4 DEF ExpireSegment, LocalOK, WorkerOK, Idle, OfferedOK, local
  <2> QED
    BY <2>1, <2>2
<1> QED
  BY <1>1, <1>2, <1>3, <1>4 DEF Environment

-----------------------------------------------------------------------------
(* IInv holds at the start and every step keeps it.                        *)
LEMMA InitIInv == Init => IInv
<1> SUFFICES ASSUME Init PROVE IInv
  OBVIOUS
<1>1. StoreOK /\ OfferedOK
  BY DEF Init, StoreOK, OfferedOK
<1>2. ASSUME NEW w \in Workers PROVE WorkerOK(w)
  <2>1. pc[w] = "idle" /\ buf[w].whose = "none"
    BY DEF Init, NoBuf
  <2> QED
    BY <2>1 DEF WorkerOK
<1>3. LocalOK
  BY <1>2, Defaults DEF Init, LocalOK, PcType, Results
<1> QED
  BY <1>1, <1>3 DEF IInv

LEMMA NextIInv == IInv /\ [Next]_vars => IInv'
<1> SUFFICES ASSUME IInv, [Next]_vars PROVE IInv'
  OBVIOUS
<1>0. 0 \in Indices
  BY MaxSegsAssumption DEF Indices
<1>1. ASSUME NEW w \in Workers, NEW k \in Keys, Begin(w, k) PROVE IInv'
  <2>1. ASSUME NEW d \in Payloads, NEW pinned \in PinnedPuts, PutPlan(w, k, d, pinned)
        PROVE  IInv'
    BY <2>1, PutPlanStep
  <2>2. ASSUME NEW d \in Payloads, PutRejected(w, k, d) PROVE IInv'
    BY <2>2, ReturnLocal, Defaults
       DEF IInv, PutRejected, StoreOK, OfferedOK, store, Results, NoBuf
  <2>3. ASSUME NEW d \in Payloads, NEW pinned \in PinnedPuts, PutStart(w, k, d, pinned)
        PROVE  IInv'
    BY <2>3, <2>1, <2>2 DEF PutStart
  <2>4. CASE \/ GetNoEntry(w, k) \/ GetMetaFails(w, k) \/ GetNoBuffer(w, k)
             \/ GetInline(w, k) \/ GetSharded(w, k)
    BY <1>0, <2>4, GetStep
  <2>5. CASE \/ PinMiss(w, k) \/ PinFound(w, k) \/ UnpinTouch(w, k)
             \/ UnpinTouchFails(w, k) \/ RemoveSelect(w, k)
    BY <1>0, <2>5, OtherStep
  <2> QED
    BY <1>1, <2>3, <2>4, <2>5 DEF Begin
<1>2. ASSUME NEW w \in Workers, Progress(w) \/ Failure(w) PROVE IInv'
  <2>1. pc[w] # "idle" => job[w].key \in Keys
    BY DEF IInv, LocalOK, WorkerOK
  <2>2. ASSUME NEW i \in Indices, PutSegment(w, i) \/ PutMeta(w) \/ PutFails(w)
        PROVE  IInv'
    BY <2>2, PutStep
  <2>3. ASSUME NEW i \in Indices, GetSegment(w, i) \/ GetCopy(w) \/ GetSegmentsFail(w)
        PROVE  IInv'
    <3>1. job[w].key \in Keys
      BY <2>1, <2>3 DEF GetSegment, GetCopy, GetSegmentsFail
    <3> QED
      BY <2>3, <3>1, GetStep
  <2>4. ASSUME NEW i \in Indices,
               \/ PinWrite(w) \/ PinWriteFails(w) \/ UnpinWrite(w) \/ UnpinWriteFails(w)
               \/ RemoveMeta(w) \/ RemoveMetaFails(w)
               \/ RemoveSegment(w, i) \/ RemoveSegmentsFail(w)
        PROVE  IInv'
    <3>1. job[w].key \in Keys
      BY <2>1, <2>4 DEF PinWrite, PinWriteFails, UnpinWrite, UnpinWriteFails,
                        RemoveMeta, RemoveMetaFails, RemoveSegment, RemoveSegmentsFail
    <3> QED
      BY <2>4, <3>1, OtherStep
  <2> QED
    BY <1>0, <1>2, <2>2, <2>3, <2>4 DEF Progress, Failure
<1>3. CASE Environment
  BY <1>3, EnvironmentStep
<1>4. CASE UNCHANGED vars
  <2>1. StoreOK' /\ OfferedOK'
    BY <1>4 DEF IInv, vars, StoreOK, OfferedOK
  <2>2. LocalOK'
    BY <1>4 DEF IInv, vars, LocalOK, WorkerOK, Idle
  <2> QED
    BY <2>1, <2>2 DEF IInv
<1> QED
  BY <1>1, <1>2, <1>3, <1>4 DEF Next

(* IInv is an invariant of the specification.                              *)
LEMMA InductiveInvariant == Spec => []IInv
  BY InitIInv, NextIInv, PTL DEF Spec

(* Type correctness: whatever is stored, requested, held back, read or     *)
(* returned is what engine.py means it to be, in every interleaving, and   *)
(* for every number of workers, keys, payloads and segments.               *)
THEOREM TypeCorrect == Spec => []TypeOK
<1>1. IInv => TypeOK
  BY DEF IInv, StoreOK, LocalOK, OfferedOK, TypeOK, Requests
<1> QED
  BY <1>1, InductiveInvariant, PTL

(* The memory object that get allocates is released exactly once on every  *)
(* path of get that does not hand it to the caller: a missing segment, a   *)
(* checksum mismatch, an exception in the batch read or in the copy.       *)
THEOREM BuffersAccounted == Spec => []BufferAccounted
<1>1. IInv => BufferAccounted
  BY DEF IInv, LocalOK, WorkerOK, BufferAccounted
<1> QED
  BY <1>1, InductiveInvariant, PTL

-----------------------------------------------------------------------------
(* How a step can touch the records and the workers.                       *)

(* The requests the server may serve now.                                  *)
Asked == late \cup (UNION {Outstanding(w) : w \in Workers}) \cup {TouchRequest(k) : k \in Keys}

Expires ==
    \/ \E k \in Keys : ExpireMeta(k)
    \/ \E k \in Keys, i \in Indices : ExpireSegment(k, i)

(* A step serves one request that was asked for, or a record expires, or   *)
(* no record changes.                                                      *)
RecordsStep ==
    /\ late' \subseteq Asked
    /\ \/ UNCHANGED <<meta, seg>>
       \/ \E r \in Asked : Serve(r)
       \/ Expires

(* An operation ends without a hit.                                        *)
EndsWithoutHit(w) == \E r \in Results \ {"hit"}, b \in BufType : Return(w, r, b)

(* A pin, unpin or remove goes on to its next request.                     *)
GoesOn(w) ==
    \E k \in Keys, n \in 0 .. MaxSegs, T \in SUBSET Indices,
       op \in {"pinwrite", "unpinwrite", "removemeta", "removeseg"} :
        /\ Start(w, k, op, n, T) /\ pc[w] \in {"idle", "removemeta"}
        /\ op \in {"pinwrite", "unpinwrite"} => exists(k)
        /\ op \in {"removemeta", "removeseg"} => "remove" \in Ops \/ pc[w] = "removemeta"

(* A worker's step, by what it does to the worker.                         *)
WorkerStep(w) ==
    \/ EndsWithoutHit(w) /\ offered' = offered
    \/ GoesOn(w) /\ offered' = offered
    \/ \E k \in Keys, d \in Payloads, pinned \in PinnedPuts : PutPlan(w, k, d, pinned)
    \/ \E i \in Indices : PutSegment(w, i)
    \/ \E k \in Keys : GetInline(w, k) \/ GetSharded(w, k)
    \/ \E i \in Indices : GetSegment(w, i)
    \/ GetCopy(w)
    \/ \E i \in Indices : RemoveSegment(w, i)

LEMMA AskedIsTyped ==
  ASSUME IInv
  PROVE  Asked \subseteq Requests
<1>1. late \subseteq Requests
  BY DEF IInv, StoreOK
<1>2. \A w \in Workers : Outstanding(w) \subseteq Requests
  BY OutstandingOK DEF IInv
<1>3. \A k \in Keys : TouchRequest(k) \in Requests
  BY TtlOK, Zenon DEF TouchRequest, MetaRequests, Requests
<1> SUFFICES ASSUME NEW r \in Asked PROVE r \in Requests
  OBVIOUS
<1>4. \/ r \in late
      \/ r \in UNION {Outstanding(w) : w \in Workers}
      \/ r \in {TouchRequest(k) : k \in Keys}
  BY Zenon DEF Asked
<1> QED
  BY <1>1, <1>2, <1>3, <1>4

(* What a worker's own step does to the records.                           *)
LEMMA HoldBackAsked ==
  ASSUME NEW R, R \subseteq Asked, HoldBack(R)
  PROVE  late' \subseteq Asked
  BY DEF HoldBack, Asked

LEMMA PutRecords ==
  ASSUME IInv, NEW w \in Workers, NEW i \in Indices,
         PutSegment(w, i) \/ PutMeta(w) \/ PutFails(w)
  PROVE  RecordsStep
<1>1. Outstanding(w) \subseteq Asked /\ late \subseteq Asked
  BY DEF Asked
<1>2. CASE PutSegment(w, i)
  <2> DEFINE r == SegRequest(job[w].key, job[w].data,
                             plan(Size[job[w].data], Limits[w]), i, job[w].pin)
  <2>1. r \in Outstanding(w)
    BY <1>2 DEF PutSegment, Outstanding
  <2>2. Serve(r) /\ HoldBack({r})
    BY <1>2 DEF PutSegment, Resent
  <2> HIDE DEF r
  <2> QED
    BY <1>1, <2>1, <2>2, HoldBackAsked DEF RecordsStep
<1>3. CASE PutMeta(w)
  BY <1>1, <1>3 DEF PutMeta, RecordsStep
<1>4. CASE PutFails(w)
  BY <1>1, <1>4, HoldBackAsked DEF PutFails, RecordsStep
<1> QED
  BY <1>2, <1>3, <1>4

LEMMA GetRecords ==
  ASSUME NEW w \in Workers, NEW k \in Keys, NEW i \in Indices,
         \/ GetNoEntry(w, k) \/ GetMetaFails(w, k) \/ GetNoBuffer(w, k)
         \/ GetInline(w, k) \/ GetSharded(w, k)
         \/ GetSegment(w, i) \/ GetSegmentsFail(w) \/ GetCopy(w)
  PROVE  RecordsStep /\ meta' = meta /\ seg' = seg /\ late' = late /\ offered' = offered
<1>1. meta' = meta /\ seg' = seg /\ late' = late /\ offered' = offered
  BY DEF GetNoEntry, GetMetaFails, GetNoBuffer, GetInline, GetSharded,
         GetSegment, GetSegmentsFail, GetCopy, store
<1>2. late \subseteq Asked
  BY DEF Asked
<1> QED
  BY <1>1, <1>2 DEF RecordsStep

LEMMA OtherRecords ==
  ASSUME NEW w \in Workers, NEW k \in Keys, NEW i \in Indices,
         \/ PinMiss(w, k) \/ PinFound(w, k) \/ PinWrite(w) \/ PinWriteFails(w)
         \/ UnpinTouch(w, k) \/ UnpinTouchFails(w, k)
         \/ UnpinWrite(w) \/ UnpinWriteFails(w)
         \/ RemoveSelect(w, k) \/ RemoveMeta(w) \/ RemoveMetaFails(w)
         \/ RemoveSegment(w, i) \/ RemoveSegmentsFail(w) \/ Crash(w)
  PROVE  RecordsStep /\ offered' = offered
<1>1. Outstanding(w) \subseteq Asked /\ late \subseteq Asked /\ TouchRequest(k) \in Asked
  BY DEF Asked
<1>2. CASE PinMiss(w, k) \/ PinFound(w, k) \/ RemoveSelect(w, k)
  BY <1>1, <1>2 DEF PinMiss, PinFound, RemoveSelect, store, RecordsStep
<1>3. CASE PinWrite(w)
  <2>1. PICK r \in Outstanding(w) : Serve(r) /\ HoldBack({r})
    BY <1>3 DEF PinWrite, Resent
  <2>2. late' \subseteq Asked
    BY <1>1, <2>1, HoldBackAsked
  <2> QED
    BY <1>1, <1>3, <2>1, <2>2 DEF RecordsStep, PinWrite
<1>4. CASE UnpinWrite(w)
  BY <1>1, <1>4 DEF UnpinWrite, RecordsStep
<1>5. CASE \/ PinWriteFails(w) \/ UnpinWriteFails(w) \/ RemoveMetaFails(w)
           \/ RemoveSegmentsFail(w) \/ Crash(w)
  BY <1>1, <1>5, HoldBackAsked
     DEF PinWriteFails, UnpinWriteFails, RemoveMetaFails, RemoveSegmentsFail, Crash, RecordsStep
<1>6. CASE UnpinTouch(w, k)
  BY <1>1, <1>6 DEF UnpinTouch, RecordsStep
<1>7. CASE UnpinTouchFails(w, k)
  BY <1>1, <1>7, HoldBackAsked DEF UnpinTouchFails, RecordsStep
<1>8. CASE RemoveMeta(w)
  <2>1. RemoveRequest(job[w].key) \in Outstanding(w)
    BY <1>8 DEF RemoveMeta, Outstanding
  <2>2. late' = late /\ offered' = offered
    BY <1>8 DEF RemoveMeta
  <2>3. UNCHANGED <<meta, seg>> \/ Serve(RemoveRequest(job[w].key))
    BY <1>8 DEF RemoveMeta
  <2> QED
    BY <1>1, <2>1, <2>2, <2>3 DEF RecordsStep
<1>9. CASE RemoveSegment(w, i)
  <2> DEFINE r == RemoveSegRequest(job[w].key, i)
  <2>1. r \in Outstanding(w)
    BY <1>9 DEF RemoveSegment, Outstanding
  <2>2. Serve(r) /\ HoldBack({r}) /\ offered' = offered
    BY <1>9 DEF RemoveSegment, Resent
  <2> HIDE DEF r
  <2> QED
    BY <1>1, <2>1, <2>2, HoldBackAsked DEF RecordsStep
<1> QED
  BY <1>2, <1>3, <1>4, <1>5, <1>6, <1>7, <1>8, <1>9

(* What a step of pin, unpin, remove or a failure does to its worker.      *)
LEMMA OtherForms ==
  ASSUME IInv, NEW w \in Workers, NEW k \in Keys, NEW i \in Indices,
         \/ PinMiss(w, k) \/ PinFound(w, k) \/ PinWrite(w) \/ PinWriteFails(w)
         \/ UnpinTouch(w, k) \/ UnpinTouchFails(w, k)
         \/ UnpinWrite(w) \/ UnpinWriteFails(w)
         \/ RemoveSelect(w, k) \/ RemoveMeta(w) \/ RemoveMetaFails(w)
         \/ RemoveSegment(w, i) \/ RemoveSegmentsFail(w) \/ Crash(w)
  PROVE  WorkerStep(w)
<1>a. offered' = offered
  BY OtherRecords
<1>b. NoBuf \in BufType
  BY Defaults
<1>c. \A r \in {"none", "ok", "miss", "true", "false", "error"} : r \in Results \ {"hit"}
  BY DEF Results
<1>d. /\ MaxSegs \in Nat /\ 0 \in 0 .. MaxSegs /\ 1 \in 0 .. MaxSegs /\ {} \in SUBSET Indices
  BY MaxSegsAssumption
<1>1. CASE \/ PinMiss(w, k) \/ PinWrite(w) \/ PinWriteFails(w)
           \/ UnpinTouchFails(w, k) \/ UnpinWrite(w) \/ UnpinWriteFails(w)
           \/ RemoveMetaFails(w) \/ RemoveSegmentsFail(w) \/ Crash(w)
  <2>1. \E r \in {"none", "true", "false", "error"} : Return(w, r, NoBuf)
    BY <1>1 DEF PinMiss, PinWrite, PinWriteFails, UnpinTouchFails, UnpinWrite,
                UnpinWriteFails, RemoveMetaFails, RemoveSegmentsFail, Crash
  <2> QED
    BY <1>a, <1>b, <1>c, <2>1 DEF WorkerStep, EndsWithoutHit
<1>2. CASE PinFound(w, k)
  <2>1. exists(k) /\ Start(w, k, "pinwrite", 0, {}) /\ pc[w] = "idle"
    BY <1>2 DEF PinFound, Idle
  <2>2. GoesOn(w)
    BY <1>d, <2>1 DEF GoesOn
  <2> QED
    BY <1>a, <2>2 DEF WorkerStep
<1>3. CASE UnpinTouch(w, k)
  <2>1. CASE exists(k)
    <3>1. Start(w, k, "unpinwrite", 0, {}) /\ pc[w] = "idle"
      BY <1>3, <2>1 DEF UnpinTouch, Idle
    <3>2. GoesOn(w)
      BY <1>d, <2>1, <3>1 DEF GoesOn
    <3> QED
      BY <1>a, <3>2 DEF WorkerStep
  <2>2. CASE ~exists(k)
    <3>1. Return(w, "false", NoBuf)
      BY <1>3, <2>2 DEF UnpinTouch
    <3> QED
      BY <1>a, <1>b, <1>c, <3>1 DEF WorkerStep, EndsWithoutHit
  <2> QED
    BY <2>1, <2>2
<1>4. CASE RemoveSelect(w, k)
  <2>1. "remove" \in Ops /\ pc[w] = "idle"
    BY <1>4 DEF RemoveSelect, Idle
  <2>2. CASE Return(w, "false", NoBuf)
    BY <1>a, <1>b, <1>c, <2>2 DEF WorkerStep, EndsWithoutHit
  <2>3. CASE \E n \in 0 .. MaxSegs : Start(w, k, "removemeta", n, {})
    <3>1. PICK n \in 0 .. MaxSegs : Start(w, k, "removemeta", n, {})
      BY <2>3
    <3>2. GoesOn(w)
      BY <1>d, <2>1, <3>1 DEF GoesOn
    <3> QED
      BY <1>a, <3>2 DEF WorkerStep
  <2>4. exists(k) => (IF meta[k].nseg = 0 THEN 1 ELSE meta[k].nseg) \in 0 .. MaxSegs
    BY <1>d DEF IInv, StoreOK, MetaRecord, exists
  <2> QED
    BY <1>4, <1>d, <2>2, <2>3, <2>4 DEF RemoveSelect
<1>5. CASE RemoveMeta(w)
  <2> DEFINE kk == job[w].key
             n == job[w].nseg
  <2>1. kk \in Keys /\ n \in 0 .. MaxSegs /\ pc[w] = "removemeta"
    BY <1>5 DEF RemoveMeta, IInv, LocalOK, WorkerOK, JobType
  <2>2. CASE Return(w, "false", NoBuf) \/ Return(w, "true", NoBuf)
    BY <1>a, <1>b, <1>c, <2>2 DEF WorkerStep, EndsWithoutHit
  <2>3. CASE n > 1 /\ Start(w, kk, "removeseg", n, 0 .. n - 1)
    <3>1. 0 .. n - 1 \in SUBSET Indices
      BY <1>d, <2>1 DEF Indices
    <3>2. GoesOn(w)
      BY <2>1, <2>3, <3>1 DEF GoesOn
    <3> QED
      BY <1>a, <3>2 DEF WorkerStep
  <2> QED
    BY <1>5, <2>2, <2>3 DEF RemoveMeta
<1>6. CASE RemoveSegment(w, i)
  BY <1>6 DEF WorkerStep
<1> QED
  BY <1>1, <1>2, <1>3, <1>4, <1>5, <1>6

(* The same for get.                                                       *)
LEMMA GetForms ==
  ASSUME IInv, NEW w \in Workers, NEW k \in Keys, NEW i \in Indices,
         \/ GetNoEntry(w, k) \/ GetMetaFails(w, k) \/ GetNoBuffer(w, k)
         \/ GetInline(w, k) \/ GetSharded(w, k)
         \/ GetSegment(w, i) \/ GetSegmentsFail(w) \/ GetCopy(w)
  PROVE  WorkerStep(w)
<1>a. offered' = offered
  BY GetRecords
<1>b. \A r \in {"miss", "error"} : r \in Results \ {"hit"}
  BY DEF Results
<1>1. CASE GetNoEntry(w, k) \/ GetMetaFails(w, k) \/ GetNoBuffer(w, k)
  <2>1. \E r \in {"miss", "error"} : Return(w, r, NoBuf)
    BY <1>1 DEF GetNoEntry, GetMetaFails, GetNoBuffer
  <2> QED
    BY <1>a, <1>b, <2>1, Defaults DEF WorkerStep, EndsWithoutHit
<1>2. CASE GetSegmentsFail(w)
  <2>1. buf[w] \in BufType /\ buf[w].refs = 1
    BY <1>2 DEF GetSegmentsFail, IInv, LocalOK, WorkerOK
  <2>2. Return(w, "error", Release(buf[w])) /\ Release(buf[w]) \in BufType
    BY <1>2, <2>1, ReleaseOK DEF GetSegmentsFail
  <2> QED
    BY <1>a, <1>b, <2>2 DEF WorkerStep, EndsWithoutHit
<1> QED
  BY <1>1, <1>2 DEF WorkerStep

(* A step of worker w, by what it does to the records and to the worker.   *)
LEMMA WorkerForms ==
  ASSUME IInv, NEW w \in Workers,
         (\E k \in Keys : Begin(w, k)) \/ Progress(w) \/ Failure(w) \/ Crash(w)
  PROVE  RecordsStep /\ WorkerStep(w)
<1>0. 0 \in Indices
  BY MaxSegsAssumption DEF Indices
<1>b. NoBuf \in BufType /\ "ok" \in Results \ {"hit"} /\ "error" \in Results \ {"hit"}
  BY Defaults DEF Results
<1>1. ASSUME NEW k \in Keys, Begin(w, k)
      PROVE  RecordsStep /\ WorkerStep(w)
  <2>1. ASSUME NEW d \in Payloads, NEW pinned \in PinnedPuts, PutStart(w, k, d, pinned)
        PROVE  RecordsStep /\ WorkerStep(w)
    <3>1. UNCHANGED store
      BY <2>1 DEF PutStart, PutPlan, PutRejected
    <3>2. RecordsStep
      BY <3>1 DEF store, RecordsStep, Asked
    <3>3. PutPlan(w, k, d, pinned) \/ (Return(w, "error", NoBuf) /\ offered' = offered)
      BY <2>1 DEF PutStart, PutRejected
    <3> QED
      BY <1>b, <3>2, <3>3 DEF WorkerStep, EndsWithoutHit
  <2>2. CASE \/ GetNoEntry(w, k) \/ GetMetaFails(w, k) \/ GetNoBuffer(w, k)
             \/ GetInline(w, k) \/ GetSharded(w, k)
    BY <1>0, <2>2, GetRecords, GetForms
  <2>3. CASE \/ PinMiss(w, k) \/ PinFound(w, k) \/ UnpinTouch(w, k)
             \/ UnpinTouchFails(w, k) \/ RemoveSelect(w, k)
    BY <1>0, <2>3, OtherRecords, OtherForms
  <2> QED
    BY <1>1, <2>1, <2>2, <2>3 DEF Begin
<1>2. CASE Progress(w) \/ Failure(w)
  <2>0. job[w].key \in Keys
    <3>1. pc[w] # "idle"
      BY <1>2 DEF Progress, Failure, PutSegment, PutMeta, PutFails, GetSegment, GetCopy,
                  GetSegmentsFail, PinWrite, PinWriteFails, UnpinWrite, UnpinWriteFails,
                  RemoveMeta, RemoveMetaFails, RemoveSegment, RemoveSegmentsFail
    <3> QED
      BY <3>1 DEF IInv, LocalOK, WorkerOK
  <2>1. ASSUME NEW i \in Indices, PutSegment(w, i)
        PROVE  RecordsStep /\ WorkerStep(w)
    BY <2>1, PutRecords DEF WorkerStep
  <2>2. CASE PutMeta(w) \/ PutFails(w)
    <3>1. /\ Return(w, "ok", NoBuf) \/ Return(w, "error", NoBuf)
          /\ offered' = offered
      BY <2>2 DEF PutMeta, PutFails
    <3> QED
      BY <1>0, <1>b, <2>2, <3>1, PutRecords DEF WorkerStep, EndsWithoutHit
  <2>3. ASSUME NEW i \in Indices, GetSegment(w, i) \/ GetCopy(w) \/ GetSegmentsFail(w)
        PROVE  RecordsStep /\ WorkerStep(w)
    BY <2>0, <2>3, GetRecords, GetForms
  <2>4. ASSUME NEW i \in Indices,
               \/ PinWrite(w) \/ PinWriteFails(w) \/ UnpinWrite(w) \/ UnpinWriteFails(w)
               \/ RemoveMeta(w) \/ RemoveMetaFails(w)
               \/ RemoveSegment(w, i) \/ RemoveSegmentsFail(w)
        PROVE  RecordsStep /\ WorkerStep(w)
    BY <2>0, <2>4, OtherRecords, OtherForms
  <2> QED
    BY <1>0, <1>2, <2>1, <2>2, <2>3, <2>4 DEF Progress, Failure
<1>3. CASE Crash(w)
  <2>1. job[w].key \in Keys
    BY <1>3 DEF Crash, Idle, IInv, LocalOK, WorkerOK
  <2> QED
    BY <1>0, <1>3, <2>1, OtherRecords, OtherForms
<1> QED
  BY <1>1, <1>2, <1>3

(* Every step, by what it does to the records and to one worker.           *)
LEMMA StepForms ==
  ASSUME IInv, Next
  PROVE  /\ RecordsStep
         /\ (\E w \in Workers : WorkerStep(w)) \/ (UNCHANGED <<local, offered>>)
<1>1. ASSUME NEW w \in Workers,
             (\E k \in Keys : Begin(w, k)) \/ Progress(w) \/ Failure(w) \/ Crash(w)
      PROVE  RecordsStep /\ WorkerStep(w)
  BY <1>1, WorkerForms
<1>2. ASSUME NEW r \in late, ServeLate(r) PROVE RecordsStep /\ UNCHANGED <<local, offered>>
  <2>1. r \in Asked /\ late \subseteq Asked
    BY DEF Asked
  <2>2. Serve(r) /\ late' = late \ {r} /\ UNCHANGED <<local, offered>>
    BY <1>2 DEF ServeLate
  <2> QED
    BY <2>1, <2>2 DEF RecordsStep
<1>3. ASSUME Expires PROVE RecordsStep /\ UNCHANGED <<local, offered>>
  <2>1. late' = late /\ UNCHANGED <<local, offered>>
    BY <1>3 DEF Expires, ExpireMeta, ExpireSegment
  <2>2. late \subseteq Asked
    BY DEF Asked
  <2> QED
    BY <1>3, <2>1, <2>2 DEF RecordsStep
<1> QED
  BY <1>1, <1>2, <1>3 DEF Next, Environment, Expires

-----------------------------------------------------------------------------
(***************************************************************************)
(* What stays when nothing goes away: nobody removes entries and records   *)
(* are written without a TTL.                                              *)
(***************************************************************************)
NothingLeaves == "remove" \notin Ops /\ DefaultTtl = Never /\ PinTtlOption = 0

SegmentsThere(k, n) == n > 1 => \A i \in 0 .. n - 1 : seg[k][i] # Absent

RequestKept(r) ==
    /\ r.kind \notin {"remove", "removeseg"} /\ r.ttl = Never
    /\ r.kind = "put" => SegmentsThere(r.key, r.nseg)
    /\ r.kind = "pin" => exists(r.key)

EntryKept(k) ==
    exists(k) => meta[k].ready /\ meta[k].ttl = Never /\ SegmentsThere(k, meta[k].nseg)

StoreKept ==
    /\ \A k \in Keys : EntryKept(k)
    /\ \A k \in Keys, i \in Indices : seg[k][i] # Absent => seg[k][i].ttl = Never
    /\ \A r \in late : RequestKept(r)

WorkerKept(w) ==
    /\ pc[w] \notin {"removemeta", "removeseg"}
    /\ pc[w] \in {"pinwrite", "unpinwrite"} => exists(job[w].key)
    /\ pc[w] = "putmeta" => SegmentsThere(job[w].key, job[w].nseg)
    /\ pc[w] = "putseg" => \A i \in (0 .. job[w].nseg - 1) \ todo[w] : seg[job[w].key][i] # Absent

KeptInv == StoreKept /\ \A w \in Workers : WorkerKept(w)

(* No record goes away.                                                    *)
Grows == /\ \A k \in Keys : exists(k) => meta'[k] # Absent
         /\ \A k \in Keys, i \in Indices : seg[k][i] # Absent => seg'[k][i] # Absent

(* Segment numbers of a request or a worker's entry are record numbers.    *)
LEMMA RecordNumbers ==
  ASSUME NEW n \in 0 .. MaxSegs
  PROVE  0 .. n - 1 \subseteq Indices
  BY MaxSegsAssumption DEF Indices

LEMMA GrowsSegments ==
  ASSUME Grows, NEW k \in Keys, NEW n \in 0 .. MaxSegs, SegmentsThere(k, n)
  PROVE  SegmentsThere(k, n)'
  BY RecordNumbers DEF Grows, SegmentsThere

(* A request waiting at the server or at its client stays harmless.        *)
LEMMA RequestStaysKept ==
  ASSUME Grows, NEW r \in Requests, RequestKept(r)
  PROVE  RequestKept(r)'
<1>1. CASE r.kind = "put"
  <2>1. r.key \in Keys /\ r.nseg \in 0 .. MaxSegs
    BY <1>1, MaxSegsAssumption DEF Requests, MetaRequests, SegRequests
  <2> QED
    BY <1>1, <2>1, GrowsSegments DEF RequestKept
<1>2. CASE r.kind = "pin"
  <2>1. r.key \in Keys
    BY <1>2 DEF Requests, MetaRequests, SegRequests
  <2> QED
    BY <1>2, <2>1 DEF RequestKept, Grows, exists
<1> QED
  BY <1>1, <1>2 DEF RequestKept

(* What the workers ask for, when nothing leaves.                          *)
LEMMA AskedIsKept ==
  ASSUME NothingLeaves, IInv, KeptInv, NEW r \in Asked
  PROVE  RequestKept(r)
<1>1. DefaultTtl = Never /\ PinTtl = Never /\ \A p : _ttl_value(p) = Never
  BY DEF NothingLeaves, PinTtl, _ttl_value, Never
<1>2. CASE r \in late
  BY <1>2 DEF KeptInv, StoreKept
<1>3. ASSUME NEW w \in Workers, r \in Outstanding(w) PROVE RequestKept(r)
  <2>0. WorkerKept(w) /\ pc[w] \in PcType
    BY DEF KeptInv, IInv, LocalOK
  <2>1. CASE pc[w] = "putseg"
    <3>1. PICK i \in todo[w] : r = SegRequest(job[w].key, job[w].data,
                                       plan(Size[job[w].data], Limits[w]), i, job[w].pin)
      BY <1>3, <2>1 DEF Outstanding
    <3>2. r.kind = "seg" /\ r.ttl = _ttl_value(job[w].pin)
      BY <3>1 DEF SegRequest
    <3> QED
      BY <1>1, <3>2 DEF RequestKept
  <2>2. CASE pc[w] = "putmeta"
    <3>1. r = PutRequest(job[w].key, job[w].data, job[w].nseg, w \in CrcWorkers, job[w].pin)
      BY <1>3, <2>2 DEF Outstanding
    <3>2. /\ r.kind = "put" /\ r.ttl = _ttl_value(job[w].pin)
          /\ r.key = job[w].key /\ r.nseg = job[w].nseg
      BY <3>1 DEF PutRequest
    <3> QED
      BY <1>1, <2>0, <2>2, <3>2 DEF RequestKept, WorkerKept
  <2>3. CASE pc[w] \in {"pinwrite", "unpinwrite"}
    <3>1. \E v, t : r = PinRequest(job[w].key, v, t) /\ t \in {PinTtl, DefaultTtl}
      BY <1>3, <2>3 DEF Outstanding
    <3>2. r.kind = "pin" /\ r.key = job[w].key /\ r.ttl = Never
      BY <1>1, <3>1 DEF PinRequest
    <3> QED
      BY <2>0, <2>3, <3>2 DEF RequestKept, WorkerKept
  <2>4. CASE pc[w] \in {"idle", "getseg", "getcopy"}
    BY <1>3, <2>4 DEF Outstanding
  <2> QED
    BY <2>0, <2>1, <2>2, <2>3, <2>4 DEF PcType, WorkerKept
<1>4. ASSUME NEW k \in Keys, r = TouchRequest(k) PROVE RequestKept(r)
  BY <1>1, <1>4 DEF TouchRequest, RequestKept
<1> QED
  BY <1>2, <1>3, <1>4 DEF Asked

(* Serving such a request adds or renews a record and takes none away.     *)
LEMMA ServeKept ==
  ASSUME IInv, KeptInv, NEW r \in Requests, RequestKept(r), Serve(r)
  PROVE  /\ Grows
         /\ \A k \in Keys : EntryKept(k)'
         /\ \A k \in Keys, i \in Indices : seg'[k][i] # Absent => seg'[k][i].ttl = Never
         /\ r.kind = "seg" => seg'[r.key][r.i] # Absent
<1>s. /\ meta \in [Keys -> MetaRecord \cup {Absent}]
      /\ seg \in [Keys -> [Indices -> Segment \cup {Absent}]]
  BY DEF IInv, StoreOK
<1>1. CASE /\ r \in MetaRequests
           /\ meta' = [meta EXCEPT ![r.key] = NewMeta(@, r)]
           /\ seg' = seg
  <2> DEFINE old == meta[r.key]
             new == NewMeta(old, r)
  <2>1. r.key \in Keys /\ old \in MetaRecord \cup {Absent}
    BY <1>1, <1>s, Zenon DEF MetaRequests
  <2>2. /\ meta'[r.key] = new /\ new \in MetaRecord \cup {Absent}
        /\ \A k \in Keys : k # r.key => meta'[k] = meta[k]
    BY <1>1, <1>s, <2>1, ServeOK DEF IInv
  <2>3. r.kind \in {"put", "pin", "touch"}
    BY <1>1 DEF MetaRequests, RequestKept
  <2>4. CASE r.kind = "put"
    <3>1. new.ready /\ new.ttl = r.ttl /\ new.nseg = r.nseg /\ new # Absent
      <4>1. new = MetaPut(old, r)
        BY <2>4 DEF NewMeta
      <4>2. new.ready /\ new.ttl = r.ttl /\ new.nseg = r.nseg
        BY <4>1 DEF MetaPut
      <4>3. new # Absent
        <5>1. /\ r.data \in Payloads /\ r.nseg \in 0 .. MaxSegs /\ r.pin \in BOOLEAN
              /\ r.ttl \in Int /\ r.crc \in BOOLEAN
          BY <1>1, <2>4, MaxSegsAssumption DEF MetaRequests
        <5> DEFINE base == IF old = Absent THEN Blank ELSE old
                   bb == IF r.nseg = 1 THEN r.data ELSE base.b
                   cc == IF r.crc THEN r.data ELSE base.crc
        <5>2. base.b \in Payloads \cup {NoData} /\ base.crc \in Payloads \cup {NoData}
          BY <2>1 DEF Blank, MetaRecord
        <5>3. bb \in Payloads \cup {NoData} /\ cc \in Payloads \cup {NoData}
          BY <5>1, <5>2
        <5>4. new = [ready |-> TRUE, nseg |-> r.nseg, md |-> r.data, b |-> bb, crc |-> cc,
                     pin |-> r.pin, ttl |-> r.ttl]
          BY <4>1 DEF MetaPut
        <5> HIDE DEF base, bb, cc, new, old
        <5>5. new \in MetaRecord
          BY <5>1, <5>3, <5>4 DEF MetaRecord
        <5> QED
          BY <5>5, AbsentAssumption
      <4> QED
        BY <4>2, <4>3
    <3>2. r.ttl = Never /\ SegmentsThere(r.key, r.nseg)
      BY <2>4 DEF RequestKept
    <3> HIDE DEF new, old
    <3>3. Grows
      BY <1>1, <2>1, <2>2, <3>1 DEF Grows, exists
    <3>4. \A k \in Keys : EntryKept(k)'
      <4> SUFFICES ASSUME NEW k \in Keys, meta'[k] # Absent PROVE EntryKept(k)'
        BY DEF EntryKept, exists
      <4>1. CASE k = r.key
        BY <1>1, <2>2, <3>1, <3>2, <4>1 DEF SegmentsThere, EntryKept
      <4>2. CASE k # r.key
        BY <1>1, <2>2, <4>2 DEF KeptInv, StoreKept, exists, SegmentsThere, EntryKept
      <4> QED
        BY <4>1, <4>2
    <3> QED
      BY <1>1, <2>4, <3>3, <3>4 DEF KeptInv, StoreKept
  <2>5. CASE r.kind \in {"pin", "touch"}
    <3>1. old # Absent =>
            /\ new.ready = old.ready /\ new.ttl = r.ttl /\ new.nseg = old.nseg
            /\ new # Absent
      <4> SUFFICES ASSUME old # Absent
                   PROVE  /\ new.ready = old.ready /\ new.ttl = r.ttl /\ new.nseg = old.nseg
                          /\ new # Absent
        OBVIOUS
      <4>0. old \in MetaRecord /\ r.ttl \in Int
        BY <1>1, <2>1, <2>5 DEF MetaRequests
      <4>1. \/ new = [old EXCEPT !.pin = r.pin, !.ttl = r.ttl] /\ r.pin \in BOOLEAN
            \/ new = [old EXCEPT !.ttl = r.ttl]
        BY <1>1, <2>5 DEF NewMeta, MetaPin, MetaTouch, MetaRequests
      <4> HIDE DEF new, old
      <4>2. new.ready = old.ready /\ new.ttl = r.ttl /\ new.nseg = old.nseg /\ new \in MetaRecord
        BY <4>0, <4>1 DEF MetaRecord
      <4> QED
        BY <4>2, AbsentAssumption
    <3>2. old = Absent => new = Absent
      BY <2>5 DEF NewMeta, MetaTouch, RequestKept, exists
    <3>3. r.ttl = Never
      BY DEF RequestKept
    <3> HIDE DEF new, old
    <3>4. Grows
      BY <1>1, <2>1, <2>2, <3>1 DEF Grows, exists, old
    <3>5. \A k \in Keys : EntryKept(k)'
      <4> SUFFICES ASSUME NEW k \in Keys, meta'[k] # Absent PROVE EntryKept(k)'
        BY DEF EntryKept, exists
      <4>1. CASE k = r.key
        <5>1. old # Absent /\ old.ready /\ SegmentsThere(k, old.nseg)
          BY <2>1, <2>2, <3>2, <4>1 DEF KeptInv, StoreKept, EntryKept, exists, old
        <5> QED
          BY <1>1, <2>2, <3>1, <3>3, <4>1, <5>1 DEF SegmentsThere, EntryKept
      <4>2. CASE k # r.key
        BY <1>1, <2>2, <4>2 DEF KeptInv, StoreKept, exists, SegmentsThere, EntryKept
      <4> QED
        BY <4>1, <4>2
    <3> QED
      BY <1>1, <2>5, <3>4, <3>5 DEF KeptInv, StoreKept
  <2> QED
    BY <2>3, <2>4, <2>5
<1>2. CASE /\ r \in SegRequests
           /\ seg' = [seg EXCEPT ![r.key][r.i] = NewSegment(r)]
           /\ meta' = meta
  <2>1. r.kind = "seg" /\ r.key \in Keys /\ r.i \in Indices /\ r.ttl = Never
    BY <1>2 DEF SegRequests, RequestKept
  <2> DEFINE s == NewSegment(r)
  <2>2. s \in Segment /\ s.ttl = Never
    BY <1>2, <2>1 DEF SegRequests, NewSegment, Segment
  <2>3. s # Absent
    BY <2>2, AbsentAssumption
  <2> HIDE DEF s
  <2> DEFINE row == [seg[r.key] EXCEPT ![r.i] = s]
  <2>4. seg' = [seg EXCEPT ![r.key] = row]
    BY <1>2 DEF s
  <2>5. row[r.i] = s /\ \A i \in Indices : i # r.i => row[i] = seg[r.key][i]
    BY <1>s, <2>1
  <2> HIDE DEF row
  <2>6. seg'[r.key] = row /\ \A k \in Keys : k # r.key => seg'[k] = seg[k]
    BY <1>s, <2>1, <2>4
  <2>7. \A k \in Keys, i \in Indices : seg'[k][i] = seg[k][i] \/ seg'[k][i] = s
    BY <2>5, <2>6
  <2>8. Grows
    BY <1>2, <2>3, <2>7 DEF Grows, exists
  <2>9. \A k \in Keys : EntryKept(k)'
    <3> SUFFICES ASSUME NEW k \in Keys, meta[k] # Absent PROVE EntryKept(k)'
      BY <1>2 DEF EntryKept, exists
    <3>1. meta[k].ready /\ meta[k].ttl = Never /\ SegmentsThere(k, meta[k].nseg)
      BY DEF KeptInv, StoreKept, EntryKept, exists
    <3>2. meta[k].nseg \in 0 .. MaxSegs
      BY <1>s DEF MetaRecord
    <3> QED
      BY <1>2, <2>8, <3>1, <3>2, GrowsSegments DEF SegmentsThere, EntryKept
  <2> QED
    BY <2>1, <2>2, <2>3, <2>5, <2>6, <2>7, <2>8, <2>9 DEF KeptInv, StoreKept
<1> QED
  BY <1>1, <1>2 DEF Serve

-----------------------------------------------------------------------------
(* A worker's step leaves the other workers alone.                         *)
LEMMA OneMoves ==
  ASSUME IInv, NEW w \in Workers, WorkerStep(w), NEW v \in Workers, v # w
  PROVE  /\ pc'[v] = pc[v] /\ job'[v] = job[v] /\ todo'[v] = todo[v] /\ bins'[v] = bins[v]
         /\ got'[v] = got[v] /\ buf'[v] = buf[v] /\ ret'[v] = ret[v]
<1> DEFINE Same(u) == /\ pc'[u] = pc[u] /\ job'[u] = job[u] /\ todo'[u] = todo[u]
                      /\ bins'[u] = bins[u] /\ got'[u] = got[u]
                      /\ buf'[u] = buf[u] /\ ret'[u] = ret[u]
<1>s. /\ pc \in [Workers -> PcType] /\ job \in [Workers -> JobType]
      /\ todo \in [Workers -> SUBSET Indices]
      /\ bins \in [Workers -> MetaRecord \cup {Absent}]
      /\ got \in [Workers -> [Indices -> Fragment \cup {Absent}]]
      /\ buf \in [Workers -> BufType] /\ ret \in [Workers -> Results]
  BY DEF IInv, LocalOK
<1>1. ASSUME NEW r, NEW b, Return(w, r, b) PROVE Same(v)
  BY <1>s, <1>1 DEF Return
<1>2. CASE EndsWithoutHit(w)
  BY <1>1, <1>2 DEF EndsWithoutHit
<1>3. CASE GoesOn(w)
  <2>1. PICK k, op, n, T : Start(w, k, op, n, T)
    BY <1>3 DEF GoesOn
  <2> QED
    BY <1>s, <2>1 DEF Start
<1>4. ASSUME NEW k \in Keys, NEW d \in Payloads, NEW pinned \in PinnedPuts,
             PutPlan(w, k, d, pinned)
      PROVE  Same(v)
  BY <1>s, <1>4 DEF PutPlan
<1>5. ASSUME NEW i \in Indices, PutSegment(w, i) PROVE Same(v)
  BY <1>s, <1>5 DEF PutSegment
<1>6. ASSUME NEW k \in Keys, GetInline(w, k) PROVE Same(v)
  BY <1>1, <1>6 DEF GetInline, FinishGet
<1>7. ASSUME NEW k \in Keys, GetSharded(w, k) PROVE Same(v)
  BY <1>s, <1>7 DEF GetSharded
<1>8. ASSUME NEW i \in Indices, GetSegment(w, i) PROVE Same(v)
  BY <1>s, <1>8 DEF GetSegment
<1>9. CASE GetCopy(w)
  <2>1. CASE \E r, b : Return(w, r, b)
    BY <1>1, <2>1
  <2>2. CASE \E b : buf' = [buf EXCEPT ![w] = b] /\ UNCHANGED <<pc, job, todo, bins, got, ret>>
    BY <1>s, <2>2
  <2> QED
    BY <1>9, <2>1, <2>2 DEF GetCopy, FinishGet
<1>10. ASSUME NEW i \in Indices, RemoveSegment(w, i) PROVE Same(v)
  BY <1>s, <1>1, <1>10 DEF RemoveSegment
<1> QED
  BY <1>2, <1>3, <1>4, <1>5, <1>6, <1>7, <1>8, <1>9, <1>10 DEF WorkerStep

(* A worker that does not move keeps what it relies on.                    *)
LEMMA OthersKept ==
  ASSUME IInv, NEW v \in Workers, WorkerKept(v), Grows,
         pc'[v] = pc[v], job'[v] = job[v], todo'[v] = todo[v]
  PROVE  WorkerKept(v)'
<1>0. /\ pc[v] # "idle" => job[v].key \in Keys
      /\ job[v].nseg \in 0 .. MaxSegs
  BY DEF IInv, LocalOK, WorkerOK, JobType
<1>1. pc[v] \in {"pinwrite", "unpinwrite"} => meta'[job[v].key] # Absent
  BY <1>0 DEF WorkerKept, Grows, exists
<1>2. pc[v] = "putmeta" => SegmentsThere(job[v].key, job[v].nseg)'
  <2> SUFFICES ASSUME pc[v] = "putmeta", job[v].nseg > 1, NEW i \in 0 .. job[v].nseg - 1
               PROVE  seg'[job[v].key][i] # Absent
    BY DEF SegmentsThere
  <2>1. seg[job[v].key][i] # Absent
    BY DEF WorkerKept, SegmentsThere
  <2> QED
    BY <1>0, <2>1, RecordNumbers DEF Grows
<1>3. pc[v] = "putseg" =>
        \A i \in (0 .. job[v].nseg - 1) \ todo[v] : seg'[job[v].key][i] # Absent
  BY <1>0, RecordNumbers DEF WorkerKept, Grows
<1> QED
  BY <1>1, <1>2, <1>3 DEF WorkerKept, SegmentsThere, exists

(* The moving worker.                                                      *)
LEMMA MoverKept ==
  ASSUME NothingLeaves, IInv, KeptInv, Grows, NEW w \in Workers, WorkerStep(w)
  PROVE  WorkerKept(w)'
<1>s. /\ pc \in [Workers -> PcType] /\ job \in [Workers -> JobType]
      /\ todo \in [Workers -> SUBSET Indices] /\ WorkerKept(w) /\ WorkerOK(w)
  BY DEF IInv, LocalOK, KeptInv
<1>0. ASSUME pc'[w] \in {"idle", "getseg", "getcopy"} PROVE WorkerKept(w)'
  BY <1>0 DEF WorkerKept
<1>1. ASSUME NEW r, NEW b, Return(w, r, b) PROVE WorkerKept(w)'
  BY <1>s, <1>0, <1>1 DEF Return
<1>2. CASE EndsWithoutHit(w)
  BY <1>1, <1>2 DEF EndsWithoutHit
<1>3. CASE GoesOn(w)
  <2>1. PICK k \in Keys, n \in 0 .. MaxSegs, T \in SUBSET Indices,
             op \in {"pinwrite", "unpinwrite", "removemeta", "removeseg"} :
               /\ Start(w, k, op, n, T)
               /\ op \in {"pinwrite", "unpinwrite"} => exists(k)
               /\ op \in {"removemeta", "removeseg"} => "remove" \in Ops \/ pc[w] = "removemeta"
    BY <1>3 DEF GoesOn
  <2>2. op \in {"pinwrite", "unpinwrite"}
    BY <1>s, <2>1 DEF NothingLeaves, WorkerKept
  <2>3. pc'[w] = op /\ job'[w].key = k
    BY <1>s, <2>1 DEF Start
  <2>4. meta'[k] # Absent
    BY <2>1, <2>2 DEF Grows
  <2> QED
    BY <2>2, <2>3, <2>4 DEF WorkerKept, exists
<1>4. ASSUME NEW k \in Keys, NEW d \in Payloads, NEW pinned \in PinnedPuts,
             PutPlan(w, k, d, pinned)
      PROVE  WorkerKept(w)'
  <2> DEFINE n == plan(Size[d], Limits[w]).nseg
  <2>1. /\ pc'[w] = IF n = 1 THEN "putmeta" ELSE "putseg"
        /\ todo'[w] = IF n = 1 THEN {} ELSE 0 .. n - 1
        /\ job'[w].nseg = n
    BY <1>s, <1>4 DEF PutPlan
  <2> HIDE DEF n
  <2> QED
    BY <2>1 DEF WorkerKept, SegmentsThere
<1>5. ASSUME NEW i \in Indices, PutSegment(w, i) PROVE WorkerKept(w)'
  <2> DEFINE k == job[w].key
             n == job[w].nseg
             r == SegRequest(k, job[w].data, plan(Size[job[w].data], Limits[w]), i, job[w].pin)
  <2>1. r \in Outstanding(w) /\ Serve(r) /\ r.kind = "seg" /\ r.key = k /\ r.i = i
    BY <1>5 DEF PutSegment, Outstanding, SegRequest
  <2>2. r \in Requests /\ RequestKept(r)
    <3>1. r \in Asked
      BY <2>1 DEF Asked
    <3> QED
      BY <3>1, AskedIsTyped, AskedIsKept
  <2> HIDE DEF r
  <2>3. seg'[k][i] # Absent
    BY <2>1, <2>2, ServeKept
  <2>4. /\ pc[w] = "putseg" /\ i \in todo[w] /\ k \in Keys /\ n \in 0 .. MaxSegs
    BY <1>s, <1>5 DEF PutSegment, WorkerOK, JobType
  <2>5. /\ pc'[w] = IF todo[w] = {i} THEN "putmeta" ELSE "putseg"
        /\ todo'[w] = todo[w] \ {i} /\ job'[w] = job[w]
    BY <1>s, <1>5 DEF PutSegment, AfterSegment
  <2>6. \A j \in (0 .. n - 1) \ (todo[w] \ {i}) : seg'[k][j] # Absent
    <3> SUFFICES ASSUME NEW j \in (0 .. n - 1) \ (todo[w] \ {i}), j # i
                 PROVE  seg'[k][j] # Absent
      BY <2>3
    <3>1. seg[k][j] # Absent
      BY <1>s, <2>4 DEF WorkerKept
    <3>2. j \in Indices
      BY <2>4, RecordNumbers
    <3> QED
      BY <2>4, <3>1, <3>2 DEF Grows
  <2> HIDE DEF k, n
  <2>7. todo[w] = {i} => \A j \in 0 .. n - 1 : seg'[k][j] # Absent
    BY <2>6
  <2>8. job'[w].key = k /\ job'[w].nseg = n
    BY <2>5 DEF k, n
  <2> QED
    BY <2>5, <2>6, <2>7, <2>8 DEF WorkerKept, SegmentsThere
<1>6. ASSUME NEW k \in Keys, GetInline(w, k) PROVE WorkerKept(w)'
  BY <1>1, <1>6 DEF GetInline, FinishGet
<1>7. ASSUME NEW k \in Keys, GetSharded(w, k) PROVE WorkerKept(w)'
  BY <1>s, <1>0, <1>7 DEF GetSharded
<1>8. ASSUME NEW i \in Indices, GetSegment(w, i) PROVE WorkerKept(w)'
  BY <1>s, <1>0, <1>8 DEF GetSegment
<1>9. CASE GetCopy(w)
  <2>1. CASE \E r, b : Return(w, r, b)
    BY <1>1, <2>1
  <2>2. CASE UNCHANGED pc
    BY <1>0, <1>9, <2>2 DEF GetCopy
  <2> QED
    BY <1>9, <2>1, <2>2 DEF GetCopy, FinishGet
<1>10. ASSUME NEW i \in Indices, RemoveSegment(w, i) PROVE WorkerKept(w)'
  BY <1>s, <1>10 DEF RemoveSegment, WorkerKept
<1> QED
  BY <1>2, <1>3, <1>4, <1>5, <1>6, <1>7, <1>8, <1>9, <1>10 DEF WorkerStep

LEMMA NextKept ==
  ASSUME NothingLeaves, IInv, KeptInv, [Next]_vars
  PROVE  KeptInv'
<1>1. CASE UNCHANGED vars
  <2>1. /\ meta' = meta /\ seg' = seg /\ late' = late
        /\ pc' = pc /\ job' = job /\ todo' = todo
    BY <1>1 DEF vars
  <2> QED
    BY <2>1 DEF KeptInv, StoreKept, WorkerKept, EntryKept, RequestKept, SegmentsThere, exists
<1>2. CASE Next
  <2>1. RecordsStep /\ ((\E w \in Workers : WorkerStep(w)) \/ (UNCHANGED <<local, offered>>))
    BY <1>2, StepForms
  <2>2. ~Expires
    BY DEF Expires, ExpireMeta, ExpireSegment, KeptInv, StoreKept, EntryKept, exists
  <2>3. /\ Grows
        /\ \A k \in Keys : EntryKept(k)'
        /\ \A k \in Keys, i \in Indices : seg'[k][i] # Absent => seg'[k][i].ttl = Never
    <3>1. CASE UNCHANGED <<meta, seg>>
      BY <3>1 DEF Grows, KeptInv, StoreKept, EntryKept, exists, SegmentsThere
    <3>2. CASE \E r \in Asked : Serve(r)
      <4>1. PICK r \in Asked : Serve(r)
        BY <3>2
      <4>2. r \in Requests /\ RequestKept(r)
        BY AskedIsTyped, AskedIsKept
      <4> QED
        BY <4>1, <4>2, ServeKept
    <3> QED
      BY <2>1, <2>2, <3>1, <3>2 DEF RecordsStep
  <2>4. \A r \in late' : RequestKept(r)'
    <3> SUFFICES ASSUME NEW r \in late' PROVE RequestKept(r)'
      OBVIOUS
    <3>1. r \in Asked
      BY <2>1 DEF RecordsStep
    <3> QED
      BY <2>3, <3>1, AskedIsTyped, AskedIsKept, RequestStaysKept
  <2>5. \A v \in Workers : WorkerKept(v)'
    <3> SUFFICES ASSUME NEW v \in Workers PROVE WorkerKept(v)'
      OBVIOUS
    <3>0. WorkerKept(v)
      BY DEF KeptInv
    <3>1. CASE UNCHANGED <<local, offered>>
      BY <2>3, <3>0, <3>1, OthersKept DEF local
    <3>2. CASE \E w \in Workers : WorkerStep(w)
      <4>1. PICK w \in Workers : WorkerStep(w)
        BY <3>2
      <4>2. CASE v = w
        BY <2>3, <4>1, <4>2, MoverKept
      <4>3. CASE v # w
        <5>1. pc'[v] = pc[v] /\ job'[v] = job[v] /\ todo'[v] = todo[v]
          BY <4>1, <4>3, OneMoves
        <5> QED
          BY <2>3, <3>0, <5>1, OthersKept
      <4> QED
        BY <4>2, <4>3
    <3> QED
      BY <2>1, <3>1, <3>2
  <2> QED
    BY <2>3, <2>4, <2>5 DEF KeptInv, StoreKept
<1> QED
  BY <1>1, <1>2

(* While nobody removes entries and records are written without a TTL,     *)
(* exists() and contains() report only entries of which every record is    *)
(* there: what put's order, all segments acknowledged before the meta      *)
(* record, buys, with any number of writers, readers and pinners, with     *)
(* requests that fail, are sent again or are served late, and with workers *)
(* that die between two writes.                                            *)
THEOREM ExistingIsCommitted ==
  ASSUME NothingLeaves
  PROVE  Spec => []ExistsOnlyCommitted
<1>1. Init => KeptInv
  <2> SUFFICES ASSUME Init PROVE KeptInv
    OBVIOUS
  <2> QED
    BY DEF Init, KeptInv, StoreKept, WorkerKept, EntryKept, exists
<1>2. IInv /\ KeptInv /\ [Next]_vars => KeptInv'
  BY NextKept
<1>3. IInv /\ KeptInv => ExistsOnlyCommitted
  <2> SUFFICES ASSUME IInv, KeptInv, NEW k \in Keys, exists(k) PROVE Committed(k)
    BY DEF ExistsOnlyCommitted
  <2>1. /\ meta[k] \in MetaRecord /\ MetaOK(meta[k]) /\ meta[k].ready
        /\ SegmentsThere(k, meta[k].nseg)
    BY DEF IInv, StoreOK, KeptInv, StoreKept, EntryKept, exists
  <2>2. meta[k].nseg \in Nat /\ meta[k].nseg >= 1
    BY <2>1, MaxSegsAssumption DEF MetaOK, MetaRecord
  <2>3. meta[k].nseg = 1 => meta[k].b # NoData
    BY <2>1, SentinelAssumption DEF MetaOK
  <2>4. meta[k].nseg # 1 => \A i \in 0 .. meta[k].nseg - 1 : seg[k][i] # Absent
    BY <2>1, <2>2 DEF SegmentsThere
  <2> QED
    BY <2>1, <2>3, <2>4 DEF Committed, Ready, exists
<1> QED
  BY <1>1, <1>2, <1>3, InductiveInvariant, PTL DEF Spec

-----------------------------------------------------------------------------
(***************************************************************************)
(* Where bytes come from.  Everything the server holds, a client still     *)
(* asks for or a reader has in hand was cut from a payload that was given  *)
(* to put for that key.  D stands for the payloads offered for a key: the  *)
(* operators do not depend on the state, and offering more keeps them      *)
(* true.                                                                   *)
(***************************************************************************)

(* The layout a put of payload d by worker w uses.                         *)
LayoutOf(w, d) == plan(Size[d], Limits[w])

(* n is the number of records some worker's layout of d has.               *)
Laid(D, d, n) ==
    /\ d \in D
    /\ \E w \in Workers : LayoutOf(w, d) # ConfigError /\ n = LayoutOf(w, d).nseg

(* f is segment i of a payload, as some worker cuts it.                    *)
Sliced(D, i, f) ==
    /\ f.data \in D
    /\ \E w \in Workers :
         /\ LayoutOf(w, f.data).nseg > 1
         /\ i \in 0 .. LayoutOf(w, f.data).nseg - 1
         /\ f.lo = SliceLo(Size[f.data], LayoutOf(w, f.data), i)
         /\ f.hi = SliceHi(Size[f.data], LayoutOf(w, f.data), i)

(* Every engine writes and compares checksums.                             *)
AllCheck == CrcWorkers = Workers

(* A key is content addressed: it is given one payload only, and the       *)
(* engines that accept the payload agree on its layout.                    *)
OneLayout ==
    /\ \A k \in Keys : \A d, e \in Rendered[k] : d = e
    /\ \A v, w \in Workers, d \in Payloads :
         LayoutOf(v, d) # ConfigError /\ LayoutOf(w, d) # ConfigError
             => LayoutOf(v, d) = LayoutOf(w, d)

(* What the code relies on for the bytes of a hit: one of the two.         *)
Guarded == OneLayout \/ AllCheck

(* The payloads of a key have one length, or get allocates the buffers.    *)
BuffersFit ==
    \/ "caller" \notin Buffers
    \/ \A k \in Keys : \A d, e \in Rendered[k] : Size[d] = Size[e]

MetaFrom(D, m) ==
    /\ m.md \in D \cup {NoData}
    /\ m.b \in D \cup {NoData}
    /\ m.ready => Laid(D, m.md, m.nseg)
    /\ AllCheck => m.crc = m.md

RequestFrom(D, r) ==
    /\ r.kind = "put" => /\ Laid(D, r.data, r.nseg)
                         /\ AllCheck => r.crc
    /\ r.kind = "seg" => Sliced(D, r.i, r.frag)

StoreFrom ==
    /\ \A k \in Keys : offered[k] \subseteq Rendered[k]
    /\ \A k \in Keys : meta[k] # Absent => MetaFrom(offered[k], meta[k])
    /\ \A k \in Keys, i \in Indices :
         seg[k][i] # Absent => Sliced(offered[k], i, seg[k][i].frag)
    /\ \A r \in late : RequestFrom(offered[r.key], r)

(* The buffer is one get may fill for the entry it has read.               *)
BufferFor(k, m, b) ==
    /\ b.key = k /\ b.whose \in Buffers
    /\ b.whose = "fresh" => b.reshape \/ b.cap = Size[m.md]
    /\ b.whose = "caller" => \E d \in Rendered[k] : b.cap = Size[d]

(* The copy loop has filled the buffer up to its next segment.             *)
FilledTo(m, b) ==
    \E w \in Workers :
        /\ LayoutOf(w, m.md) # ConfigError /\ m.nseg = LayoutOf(w, m.md).nseg
        /\ b.n = SliceLo(Size[m.md], LayoutOf(w, m.md), b.next)
        /\ b.next > 0 => b.of = m.md

(* A get of k in progress: its record, its answers and its buffer.         *)
Reading(D, k, m, g, b) ==
    /\ MetaFrom(D, m) /\ BufferFor(k, m, b)
    /\ \A i \in Indices : g[i] # Absent => Sliced(D, i, g[i])
    /\ OneLayout => FilledTo(m, b)

(* A buffer that get hands out.                                            *)
HitFrom(D, b) ==
    /\ b.of \in D /\ b.n = Size[b.of]
    /\ b.whose \in Buffers
    /\ b.whose = "fresh" => b.reshape \/ b.cap = b.n
    /\ b.whose = "caller" => \E d \in Rendered[b.key] : b.cap = Size[d]

WorkerFrom(w) ==
    /\ pc[w] # "idle" => ret[w] = "none"
    /\ pc[w] \in {"putseg", "putmeta"} => job[w].data \in offered[job[w].key]
    /\ pc[w] \notin {"getseg", "getcopy"} => got[w] = NoGot
    /\ pc[w] \in {"getseg", "getcopy"} =>
         Reading(offered[job[w].key], job[w].key, bins[w], got[w], buf[w])
    /\ ret[w] = "hit" => buf[w].key \in Keys /\ HitFrom(offered[buf[w].key], buf[w])

FromInv == StoreFrom /\ \A w \in Workers : WorkerFrom(w)

(* Offering more payloads keeps what is known of the bytes.                *)
LEMMA MoreOffered ==
  ASSUME NEW D, NEW E, D \subseteq E
  PROVE  /\ \A d, n : Laid(D, d, n) => Laid(E, d, n)
         /\ \A i, f : Sliced(D, i, f) => Sliced(E, i, f)
         /\ \A m : MetaFrom(D, m) => MetaFrom(E, m)
         /\ \A r : RequestFrom(D, r) => RequestFrom(E, r)
         /\ \A b : HitFrom(D, b) => HitFrom(E, b)
         /\ \A k, m, g, b : Reading(D, k, m, g, b) => Reading(E, k, m, g, b)
<1>1. \A d, n : Laid(D, d, n) => Laid(E, d, n)
  BY DEF Laid
<1>2. \A i, f : Sliced(D, i, f) => Sliced(E, i, f)
  BY DEF Sliced
<1>3. \A m : MetaFrom(D, m) => MetaFrom(E, m)
  BY <1>1 DEF MetaFrom
<1>4. \A r : RequestFrom(D, r) => RequestFrom(E, r)
  BY <1>1, <1>2 DEF RequestFrom
<1>5. \A b : HitFrom(D, b) => HitFrom(E, b)
  BY DEF HitFrom
<1>6. \A k, m, g, b : Reading(D, k, m, g, b) => Reading(E, k, m, g, b)
  BY <1>2, <1>3 DEF Reading
<1> QED
  BY <1>1, <1>2, <1>3, <1>4, <1>5, <1>6

(* put is the only operation that offers a payload, and one of its key's.  *)
LEMMA OffersGrow ==
  ASSUME IInv, StoreFrom, (\E w \in Workers : WorkerStep(w)) \/ (UNCHANGED <<local, offered>>)
  PROVE  \A k \in Keys : offered[k] \subseteq offered'[k] /\ offered'[k] \subseteq Rendered[k]
<1>1. CASE offered' = offered
  BY <1>1 DEF StoreFrom
<1>2. ASSUME NEW w \in Workers, NEW k \in Keys, NEW d \in Payloads, NEW pinned \in PinnedPuts,
             PutPlan(w, k, d, pinned)
      PROVE  \A q \in Keys : offered[q] \subseteq offered'[q] /\ offered'[q] \subseteq Rendered[q]
  <2>1. d \in Rendered[k] /\ offered' = [offered EXCEPT ![k] = @ \cup {d}]
    BY <1>2 DEF PutPlan
  <2>2. offered \in [Keys -> SUBSET Payloads] /\ \A q \in Keys : offered[q] \subseteq Rendered[q]
    BY DEF IInv, OfferedOK, StoreFrom
  <2> QED
    BY <2>1, <2>2
<1>3. ASSUME NEW w \in Workers, WorkerStep(w),
             ~ \E k \in Keys, d \in Payloads, pinned \in PinnedPuts : PutPlan(w, k, d, pinned)
      PROVE  offered' = offered
  BY <1>3 DEF WorkerStep, PutSegment, GetInline, GetSharded, GetSegment, GetCopy, RemoveSegment
<1> QED
  BY <1>1, <1>2, <1>3

(* What the server may be asked for.                                       *)
LEMMA AskedFrom ==
  ASSUME IInv, FromInv, NEW r \in Asked
  PROVE  RequestFrom(offered[r.key], r)
<1>1. CASE r \in late
  BY <1>1 DEF FromInv, StoreFrom
<1>2. ASSUME NEW w \in Workers, r \in Outstanding(w) PROVE RequestFrom(offered[r.key], r)
  <2> DEFINE k == job[w].key
             d == job[w].data
             p == LayoutOf(w, d)
  <2>0. pc[w] \in PcType /\ todo[w] \subseteq Indices /\ WorkerOK(w) /\ WorkerFrom(w)
    BY DEF IInv, LocalOK, FromInv
  <2>1. CASE pc[w] = "putseg"
    <3>1. PICK i \in todo[w] : r = SegRequest(k, d, p, i, job[w].pin)
      BY <1>2, <2>1 DEF Outstanding, LayoutOf
    <3>2. /\ d \in offered[k] /\ d \in Payloads /\ p.nseg > 1 /\ i \in 0 .. p.nseg - 1
      BY <2>0, <2>1 DEF WorkerOK, WorkerFrom, LayoutOf
    <3>3. /\ r.kind = "seg" /\ r.key = k /\ r.i = i /\ r.frag.data = d
          /\ r.frag.lo = SliceLo(Size[d], p, i) /\ r.frag.hi = SliceHi(Size[d], p, i)
      BY <3>1 DEF SegRequest
    <3> HIDE DEF k
    <3>4. Sliced(offered[k], i, r.frag)
      BY <3>2, <3>3 DEF Sliced
    <3> QED
      BY <3>3, <3>4 DEF RequestFrom
  <2>2. CASE pc[w] = "putmeta"
    <3>1. r = PutRequest(k, d, job[w].nseg, w \in CrcWorkers, job[w].pin)
      BY <1>2, <2>2 DEF Outstanding
    <3>2. d \in offered[k] /\ p # ConfigError /\ job[w].nseg = p.nseg
      BY <2>0, <2>2 DEF WorkerOK, WorkerFrom, LayoutOf
    <3>3. /\ r.kind = "put" /\ r.key = k /\ r.data = d /\ r.nseg = job[w].nseg
          /\ r.crc = (w \in CrcWorkers)
      BY <3>1 DEF PutRequest
    <3>4. Laid(offered[k], d, job[w].nseg)
      BY <3>2 DEF Laid
    <3>5. AllCheck => r.crc
      BY <3>3 DEF AllCheck
    <3> HIDE DEF k, d
    <3> QED
      BY <3>3, <3>4, <3>5 DEF RequestFrom
  <2>3. CASE pc[w] \notin {"putseg", "putmeta"}
    <3>1. r.kind \in {"pin", "remove", "removeseg"}
      BY <1>2, <2>0, <2>3 DEF Outstanding, PcType, PinRequest, RemoveRequest, RemoveSegRequest
    <3> QED
      BY <3>1 DEF RequestFrom
  <2> QED
    BY <2>1, <2>2, <2>3
<1>3. ASSUME NEW k \in Keys, r = TouchRequest(k) PROVE RequestFrom(offered[r.key], r)
  BY <1>3 DEF TouchRequest, RequestFrom
<1> QED
  BY <1>1, <1>2, <1>3 DEF Asked

(* A served request leaves records cut from what was offered.              *)
LEMMA ServeFrom ==
  ASSUME IInv, FromInv, NEW r \in Requests, RequestFrom(offered[r.key], r), Serve(r)
  PROVE  /\ \A k \in Keys : meta'[k] # Absent => MetaFrom(offered[k], meta'[k])
         /\ \A k \in Keys, i \in Indices :
              seg'[k][i] # Absent => Sliced(offered[k], i, seg'[k][i].frag)
<1>s. /\ meta \in [Keys -> MetaRecord \cup {Absent}]
      /\ seg \in [Keys -> [Indices -> Segment \cup {Absent}]]
      /\ \A k \in Keys : meta[k] # Absent => MetaFrom(offered[k], meta[k])
      /\ \A k \in Keys, i \in Indices :
           seg[k][i] # Absent => Sliced(offered[k], i, seg[k][i].frag)
  BY DEF IInv, StoreOK, FromInv, StoreFrom
<1>1. CASE /\ r \in MetaRequests
           /\ meta' = [meta EXCEPT ![r.key] = NewMeta(@, r)]
           /\ seg' = seg
  <2> DEFINE old == meta[r.key]
             base == IF old = Absent THEN Blank ELSE old
             new == NewMeta(old, r)
             D == offered[r.key]
  <2>1. r.key \in Keys /\ old \in MetaRecord \cup {Absent}
    BY <1>1, <1>s, Zenon DEF MetaRequests
  <2>2. meta'[r.key] = new /\ \A k \in Keys : k # r.key => meta'[k] = meta[k]
    BY <1>1, <1>s, <2>1
  <2>3. base \in MetaRecord /\ MetaFrom(D, base)
    <3>1. Blank \in MetaRecord
      BY MaxSegsAssumption, SMT DEF Blank, MetaRecord, Never
    <3>2. MetaFrom(D, Blank)
      BY DEF MetaFrom, Blank
    <3> QED
      BY <1>s, <2>1, <3>1, <3>2
  <2>4. new # Absent => MetaFrom(D, new)
    <3> HIDE DEF old, D
    <3>1. CASE r.kind = "put"
      <4>1. new = [ready |-> TRUE, nseg |-> r.nseg, md |-> r.data,
                   b |-> IF r.nseg = 1 THEN r.data ELSE base.b,
                   crc |-> IF r.crc THEN r.data ELSE base.crc,
                   pin |-> r.pin, ttl |-> r.ttl]
        BY <3>1 DEF NewMeta, MetaPut
      <4>2. Laid(D, r.data, r.nseg) /\ (AllCheck => r.crc)
        BY <3>1 DEF RequestFrom, D
      <4>3. r.data \in D
        BY <4>2 DEF Laid
      <4>4. base.b \in D \cup {NoData}
        BY <2>3 DEF MetaFrom
      <4> HIDE DEF new, base
      <4> QED
        BY <4>1, <4>2, <4>3, <4>4 DEF MetaFrom
    <3>2. CASE r.kind \in {"pin", "touch"}
      <4>1. \/ new = Absent
            \/ new = [base EXCEPT !.pin = r.pin, !.ttl = r.ttl]
            \/ new = [base EXCEPT !.ttl = r.ttl]
        BY <3>2 DEF NewMeta, MetaPin, MetaTouch
      <4> HIDE DEF new, base
      <4>2. new # Absent => /\ new.md = base.md /\ new.b = base.b /\ new.crc = base.crc
                            /\ new.ready = base.ready /\ new.nseg = base.nseg
        BY <2>3, <4>1 DEF MetaRecord
      <4> QED
        BY <2>3, <4>2 DEF MetaFrom
    <3>3. CASE r.kind \notin {"put", "pin", "touch"}
      BY <3>3 DEF NewMeta
    <3> QED
      BY <3>1, <3>2, <3>3
  <2> HIDE DEF new, old, base
  <2> QED
    BY <1>1, <1>s, <2>1, <2>2, <2>4
<1>2. CASE /\ r \in SegRequests
           /\ seg' = [seg EXCEPT ![r.key][r.i] = NewSegment(r)]
           /\ meta' = meta
  <2>1. r.key \in Keys /\ r.i \in Indices
    BY <1>2 DEF SegRequests
  <2> DEFINE s == NewSegment(r)
  <2>2. s # Absent => Sliced(offered[r.key], r.i, s.frag)
    BY DEF NewSegment, RequestFrom
  <2> HIDE DEF s
  <2> DEFINE row == [seg[r.key] EXCEPT ![r.i] = s]
  <2>4. seg' = [seg EXCEPT ![r.key] = row]
    BY <1>2 DEF s
  <2>5. row[r.i] = s /\ \A i \in Indices : i # r.i => row[i] = seg[r.key][i]
    BY <1>s, <2>1
  <2> HIDE DEF row
  <2>6. seg'[r.key] = row /\ \A k \in Keys : k # r.key => seg'[k] = seg[k]
    BY <1>s, <2>1, <2>4
  <2> SUFFICES ASSUME NEW k \in Keys, NEW i \in Indices, seg'[k][i] # Absent
               PROVE  Sliced(offered[k], i, seg'[k][i].frag)
    BY <1>2, <1>s
  <2>7. CASE k = r.key /\ i = r.i
    BY <2>2, <2>5, <2>6, <2>7
  <2>8. CASE ~(k = r.key /\ i = r.i)
    <3>1. seg'[k][i] = seg[k][i]
      BY <2>5, <2>6, <2>8
    <3> QED
      BY <1>s, <3>1
  <2> QED
    BY <2>7, <2>8
<1> QED
  BY <1>1, <1>2 DEF Serve

(* Every step keeps the records and the held-back requests honest.         *)
LEMMA StoreStaysFrom ==
  ASSUME IInv, FromInv, RecordsStep,
         \A k \in Keys : offered[k] \subseteq offered'[k] /\ offered'[k] \subseteq Rendered[k]
  PROVE  StoreFrom'
<1>s. /\ meta \in [Keys -> MetaRecord \cup {Absent}]
      /\ seg \in [Keys -> [Indices -> Segment \cup {Absent}]]
      /\ StoreFrom
  BY DEF IInv, StoreOK, FromInv
<1>1. /\ \A k \in Keys : meta'[k] # Absent => MetaFrom(offered[k], meta'[k])
      /\ \A k \in Keys, i \in Indices :
           seg'[k][i] # Absent => Sliced(offered[k], i, seg'[k][i].frag)
  <2>1. CASE UNCHANGED <<meta, seg>>
    BY <1>s, <2>1 DEF StoreFrom
  <2>2. CASE \E r \in Asked : Serve(r)
    BY <2>2, AskedIsTyped, AskedFrom, ServeFrom
  <2>3. ASSUME NEW k \in Keys, ExpireMeta(k)
        PROVE  seg' = seg /\ \A q \in Keys : meta'[q] # Absent => meta'[q] = meta[q]
    BY <1>s, <2>3 DEF ExpireMeta
  <2>4. ASSUME NEW k \in Keys, NEW j \in Indices, ExpireSegment(k, j)
        PROVE  /\ meta' = meta
               /\ \A q \in Keys, i \in Indices : seg'[q][i] # Absent => seg'[q][i] = seg[q][i]
    <3> DEFINE row == [seg[k] EXCEPT ![j] = Absent]
    <3>1. meta' = meta /\ seg' = [seg EXCEPT ![k] = row]
      BY <2>4 DEF ExpireSegment
    <3>2. \A i \in Indices : row[i] # Absent => row[i] = seg[k][i]
      BY <1>s
    <3> HIDE DEF row
    <3>3. seg'[k] = row /\ \A q \in Keys : q # k => seg'[q] = seg[q]
      BY <1>s, <3>1
    <3> QED
      BY <3>1, <3>2, <3>3
  <2> QED
    BY <1>s, <2>1, <2>2, <2>3, <2>4 DEF RecordsStep, Expires, StoreFrom
<1>2. \A r \in late' : RequestFrom(offered'[r.key], r)
  <2> SUFFICES ASSUME NEW r \in late' PROVE RequestFrom(offered'[r.key], r)
    OBVIOUS
  <2>1. r \in Asked /\ r \in Requests
    BY AskedIsTyped DEF RecordsStep
  <2>2. r.key \in Keys
    BY <2>1 DEF Requests, MetaRequests, SegRequests
  <2> QED
    BY <2>1, <2>2, AskedFrom, MoreOffered
<1>3. \A k \in Keys : meta'[k] # Absent => MetaFrom(offered'[k], meta'[k])
  BY <1>1, MoreOffered
<1>4. \A k \in Keys, i \in Indices :
        seg'[k][i] # Absent => Sliced(offered'[k], i, seg'[k][i].frag)
  BY <1>1, MoreOffered
<1> QED
  BY <1>2, <1>3, <1>4 DEF StoreFrom

-----------------------------------------------------------------------------
(* One turn of the copy loop, when a payload has one layout: the fragment  *)
(* is the one that belongs at the buffer's end.                            *)
LEMMA CopyInOrder ==
  ASSUME OneLayout, NEW k \in Keys, NEW D, D \subseteq Rendered[k],
         NEW m \in MetaRecord, m.ready, m.nseg >= 2, MetaFrom(D, m),
         NEW b \in BufType, FilledTo(m, b), b.next < m.nseg,
         NEW f \in Fragment, Sliced(D, b.next, f)
  PROVE  /\ Copy(b, f).of = m.md
         /\ b.next + 1 = m.nseg => Copy(b, f).n = Size[m.md]
         /\ b.next + 1 # m.nseg => FilledTo(m, Copy(b, f))
<1>0. /\ m.nseg \in Nat /\ MaxSegs \in Nat /\ m.nseg <= MaxSegs
      /\ b.next \in Nat /\ b.n \in Nat /\ f.lo \in Nat /\ f.hi \in Nat
  BY MaxSegsAssumption DEF MetaRecord, BufType, Fragment
<1>1. m.md \in D /\ m.md \in Payloads /\ f.data = m.md
  <2>1. m.md \in D /\ f.data \in D
    BY DEF MetaFrom, Laid, Sliced
  <2>2. D \subseteq Payloads
    BY RenderedAssumption
  <2> QED
    BY <2>1, <2>2 DEF OneLayout
<1> DEFINE sz == Size[m.md]
<1>2. sz \in Nat
  BY <1>1, SizeAssumption
<1>3. PICK w \in Workers :
        /\ LayoutOf(w, m.md) # ConfigError /\ m.nseg = LayoutOf(w, m.md).nseg
        /\ b.n = SliceLo(sz, LayoutOf(w, m.md), b.next)
        /\ b.next > 0 => b.of = m.md
  BY DEF FilledTo
<1>4. PICK v \in Workers :
        /\ LayoutOf(v, m.md).nseg > 1
        /\ f.lo = SliceLo(sz, LayoutOf(v, m.md), b.next)
        /\ f.hi = SliceHi(sz, LayoutOf(v, m.md), b.next)
  BY <1>1 DEF Sliced
<1> DEFINE p == LayoutOf(w, m.md)
<1>5. LayoutOf(v, m.md) = p
  <2>1. LayoutOf(v, m.md) # ConfigError
    BY <1>4 DEF ConfigError
  <2> QED
    BY <1>1, <1>3, <2>1 DEF OneLayout
<1>6. /\ SliceLo(sz, p, 0) = 0
      /\ SliceLo(sz, p, b.next) \in Nat /\ SliceHi(sz, p, b.next) \in Nat
      /\ b.next < m.nseg - 1 => SliceHi(sz, p, b.next) = SliceLo(sz, p, b.next + 1)
      /\ b.next = m.nseg - 1 => SliceHi(sz, p, b.next) = sz
  <2>1. Limits[w] \in LimitsType /\ Limits[w].target > 0
    BY LimitsAssumption
  <2>2. plan(sz, Limits[w]).nseg > 1 /\ b.next \in 0 .. plan(sz, Limits[w]).nseg - 1
    BY <1>0, <1>3 DEF LayoutOf
  <2> HIDE DEF sz
  <2> QED
    BY <1>2, <1>3, <2>1, <2>2, SlicesTile DEF LayoutOf, sz
<1>7. f.lo = b.n /\ f.hi = SliceHi(sz, p, b.next)
  BY <1>3, <1>4, <1>5
<1>8. b.n = 0 \/ b.of = f.data
  <2>1. CASE b.next = 0
    BY <1>3, <1>6, <2>1
  <2>2. CASE b.next # 0
    BY <1>0, <1>1, <1>3, <2>2
  <2> QED
    BY <2>1, <2>2
<1> DEFINE c == Copy(b, f)
<1>9. c.of = m.md /\ c.n = SliceHi(sz, p, b.next) /\ c.next = b.next + 1
  <2>1. /\ c.next = b.next + 1 /\ c.n = b.n + (f.hi - f.lo)
        /\ c.of = IF f.lo = b.n /\ (b.n = 0 \/ b.of = f.data) THEN f.data ELSE NoData
    BY <1>0, CopyOK
  <2>2. b.n + (f.hi - f.lo) = f.hi
    BY <1>0, <1>7
  <2> QED
    BY <1>1, <1>7, <1>8, <2>1, <2>2
<1> HIDE DEF c, p, sz
<1>10. b.next + 1 = m.nseg => c.n = sz
  BY <1>0, <1>6, <1>9
<1>11. b.next + 1 # m.nseg => FilledTo(m, c)
  <2> SUFFICES ASSUME b.next + 1 # m.nseg PROVE FilledTo(m, c)
    OBVIOUS
  <2>1. c.n = SliceLo(sz, p, c.next)
    BY <1>0, <1>6, <1>9
  <2> QED
    BY <1>3, <1>9, <2>1 DEF FilledTo, p, sz
<1> QED
  BY <1>9, <1>10, <1>11 DEF c, sz

(* A buffer with the bytes of md, handed out.                              *)
LEMMA WholeBuffer ==
  ASSUME NEW D, NEW k, NEW m, NEW b, NEW c, BufferFor(k, m, b), m.md \in D,
         c.of = m.md, c.n = Size[m.md], c.key = b.key, c.whose = b.whose,
         c.cap = b.cap, c.reshape = b.reshape
  PROVE  c.key = k /\ HitFrom(D, c)
  BY DEF BufferFor, HitFrom

(* The checksum compares equal, where every engine writes one.             *)
LEMMA CheckedBytes ==
  ASSUME AllCheck, NEW w \in Workers, NEW D, D \subseteq Payloads, NEW m, m.ready,
         MetaFrom(D, m), NEW b, ~CrcMismatch(w, m, b)
  PROVE  m.md \in D /\ b.of = m.md /\ b.n = Size[m.md]
<1>1. m.crc = m.md /\ m.md \in D
  BY DEF MetaFrom, Laid
<1>2. m.crc # NoData /\ w \in CrcWorkers
  BY <1>1, SentinelAssumption DEF AllCheck
<1> QED
  BY <1>1, <1>2 DEF CrcMismatch

(* An operation that ends leaves its worker as FromInv wants it.           *)
LEMMA ReturnFrom ==
  ASSUME IInv, NEW w \in Workers, NEW r, NEW b, Return(w, r, b),
         r = "hit" => b.key \in Keys /\ HitFrom(offered'[b.key], b)
  PROVE  WorkerFrom(w)'
<1>1. pc'[w] = "idle" /\ ret'[w] = r /\ buf'[w] = b /\ got'[w] = NoGot
  BY DEF Return, IInv, LocalOK
<1> QED
  BY <1>1 DEF WorkerFrom

(* So does a get that has all its bytes in the buffer.                     *)
LEMMA FinishFrom ==
  ASSUME IInv, NEW w \in Workers, NEW k \in Keys, NEW m, NEW b, FinishGet(w, m, b),
         offered' = offered,
         ~CrcMismatch(w, m, b) => b.key = k /\ HitFrom(offered[k], b)
  PROVE  WorkerFrom(w)'
  BY ReturnFrom DEF FinishGet

LEMMA GetInlineFrom ==
  ASSUME Guarded, IInv, FromInv, NEW w \in Workers, NEW k \in Keys, GetInline(w, k)
  PROVE  WorkerFrom(w)'
<1> DEFINE m == meta[k]
           D == offered[k]
<1>1. /\ m \in MetaRecord /\ MetaOK(m) /\ m.ready /\ m.nseg = 1 /\ MetaFrom(D, m)
      /\ D \subseteq Rendered[k] /\ D \subseteq Payloads /\ offered' = offered
  BY DEF IInv, StoreOK, OfferedOK, FromInv, StoreFrom, GetInline, Ready
<1>2. PICK b \in ReadBuffers(k, m) :
        IF m.b = NoData THEN Return(w, "miss", b)
        ELSE IF Overflows(b, Inline(m.b)) THEN Return(w, "error", Release(b))
        ELSE FinishGet(w, m, Copy(b, Inline(m.b)))
  BY DEF GetInline
<1>3. /\ b \in BufType /\ b.next = 0 /\ b.n = 0 /\ BufferFor(k, m, b)
  BY <1>1, ReadBuffersOK DEF BufferFor
<1>4. CASE Return(w, "miss", b) \/ Return(w, "error", Release(b))
  BY <1>4, ReturnFrom
<1>5. CASE m.b # NoData /\ FinishGet(w, m, Copy(b, Inline(m.b)))
  <2> DEFINE f == Inline(m.b)
             c == Copy(b, f)
  <2>1. m.b \in D /\ m.md \in D /\ Size[m.b] \in Nat
    BY <1>1, <1>5, SizeAssumption DEF MetaFrom, Laid
  <2>2. /\ f \in Fragment /\ f.data = m.b /\ f.lo = 0 /\ f.hi = Size[m.b]
    BY <1>1, <2>1 DEF Inline, Fragment
  <2> HIDE DEF f
  <2>3. /\ c.whose = b.whose /\ c.key = b.key /\ c.cap = b.cap /\ c.reshape = b.reshape
        /\ c.n = Size[m.b] /\ c.of = m.b
    <3>1. b.next < MaxSegs
      BY <1>3, MaxSegsAssumption
    <3>2. /\ c.whose = b.whose /\ c.key = b.key /\ c.cap = b.cap /\ c.reshape = b.reshape
          /\ c.n = b.n + (f.hi - f.lo)
          /\ c.of = IF f.lo = b.n /\ (b.n = 0 \/ b.of = f.data) THEN f.data ELSE NoData
      BY <1>3, <2>2, <3>1, CopyOK
    <3> HIDE DEF c
    <3> QED
      BY <1>3, <2>1, <2>2, <3>2
  <2>4. FinishGet(w, m, c)
    BY <1>5 DEF f
  <2> HIDE DEF c
  <2>5. ~CrcMismatch(w, m, c) => c.of = m.md /\ c.n = Size[m.md]
    <3>1. CASE AllCheck
      BY <1>1, <3>1, CheckedBytes
    <3>2. CASE OneLayout
      <4>1. m.b = m.md
        BY <1>1, <2>1, <3>2 DEF OneLayout
      <4> QED
        BY <2>3, <4>1
    <3> QED
      BY <3>1, <3>2 DEF Guarded
  <2>6. ~CrcMismatch(w, m, c) => c.key = k /\ HitFrom(D, c)
    BY <1>3, <2>1, <2>3, <2>5, WholeBuffer
  <2> QED
    BY <1>1, <2>4, <2>6, FinishFrom
<1> QED
  BY <1>2, <1>4, <1>5

LEMMA GetShardedFrom ==
  ASSUME IInv, FromInv, NEW w \in Workers, NEW k \in Keys, GetSharded(w, k)
  PROVE  WorkerFrom(w)'
<1> DEFINE m == meta[k]
           D == offered[k]
<1>s. /\ pc \in [Workers -> PcType] /\ job \in [Workers -> JobType]
      /\ bins \in [Workers -> MetaRecord \cup {Absent}]
      /\ buf \in [Workers -> BufType] /\ ret \in [Workers -> Results]
      /\ WorkerFrom(w)
  BY DEF IInv, LocalOK, FromInv
<1>1. /\ m \in MetaRecord /\ MetaOK(m) /\ m.ready /\ m.nseg # 1 /\ MetaFrom(D, m)
      /\ D \subseteq Payloads /\ offered' = offered
  BY DEF IInv, StoreOK, OfferedOK, FromInv, StoreFrom, GetSharded, Ready
<1>2. PICK b \in ReadBuffers(k, m) : buf' = [buf EXCEPT ![w] = b]
  BY DEF GetSharded
<1>3. /\ b \in BufType /\ b.next = 0 /\ b.n = 0 /\ BufferFor(k, m, b)
  BY <1>1, ReadBuffersOK DEF BufferFor
<1>4. /\ pc'[w] = "getseg" /\ ret'[w] = "none" /\ job'[w].key = k
      /\ bins'[w] = m /\ buf'[w] = b
  BY <1>s, <1>2 DEF GetSharded, NoJob
<1>5. got'[w] = NoGot
  BY <1>s DEF GetSharded, Idle, WorkerFrom
<1>6. FilledTo(m, b)
  <2>1. PICK v \in Workers : LayoutOf(v, m.md) # ConfigError /\ m.nseg = LayoutOf(v, m.md).nseg
    BY <1>1 DEF MetaFrom, Laid
  <2>2. m.md \in Payloads
    BY <1>1 DEF MetaOK
  <2>3. LayoutOf(v, m.md) \in PlanType /\ Size[m.md] \in Nat
    BY <2>1, <2>2, PlanOK DEF LayoutOf
  <2>4. LayoutOf(v, m.md).seg_b \in Nat
    BY <2>3 DEF PlanType
  <2>5. SliceLo(Size[m.md], LayoutOf(v, m.md), 0) = 0
    BY <2>3, <2>4 DEF SliceLo, Least
  <2> QED
    BY <1>3, <2>1, <2>5 DEF FilledTo
<1> HIDE DEF m, D
<1>7. Reading(D, k, m, NoGot, b)
  <2>1. \A i \in Indices : NoGot[i] = Absent
    BY DEF NoGot
  <2> QED
    BY <1>1, <1>3, <1>6, <2>1 DEF Reading
<1>8. offered'[k] = D
  BY <1>1 DEF D
<1> QED
  BY <1>4, <1>5, <1>7, <1>8 DEF WorkerFrom

LEMMA GetSegmentFrom ==
  ASSUME IInv, FromInv, NEW w \in Workers, NEW i \in Indices, GetSegment(w, i)
  PROVE  WorkerFrom(w)'
<1> DEFINE k == job[w].key
           D == offered[k]
           s == seg[k][i]
<1>s. /\ pc \in [Workers -> PcType] /\ got \in [Workers -> [Indices -> Fragment \cup {Absent}]]
      /\ WorkerFrom(w) /\ WorkerOK(w)
  BY DEF IInv, LocalOK, FromInv
<1>1. /\ pc[w] = "getseg" /\ k \in Keys /\ Reading(D, k, bins[w], got[w], buf[w])
      /\ ret[w] = "none"
  BY <1>s DEF GetSegment, WorkerOK, WorkerFrom
<1>2. PICK answer \in {Absent} \cup {t.frag : t \in {s} \ {Absent}} :
        got' = [got EXCEPT ![w][i] = answer]
  BY DEF GetSegment
<1>3. answer # Absent => Sliced(D, i, answer)
  <2>1. s # Absent => Sliced(D, i, s.frag)
    BY <1>1 DEF FromInv, StoreFrom
  <2> QED
    BY <2>1
<1>4. /\ pc'[w] \in {"getseg", "getcopy"} /\ job' = job /\ bins' = bins /\ buf' = buf
      /\ ret' = ret /\ offered' = offered
  BY <1>s DEF GetSegment
<1> DEFINE g == [got[w] EXCEPT ![i] = answer]
<1>5. got'[w] = g
  BY <1>s, <1>2
<1>6. g[i] = answer /\ \A j \in Indices : j # i => g[j] = got[w][j]
  BY <1>s
<1> HIDE DEF g, s
<1>7. \A j \in Indices : g[j] # Absent => Sliced(D, j, g[j])
  BY <1>1, <1>3, <1>6 DEF Reading
<1>8. Reading(D, k, bins[w], g, buf[w])
  BY <1>1, <1>7 DEF Reading
<1> QED
  BY <1>1, <1>4, <1>5, <1>8 DEF WorkerFrom

LEMMA GetCopyFrom ==
  ASSUME Guarded, IInv, FromInv, NEW w \in Workers, GetCopy(w)
  PROVE  WorkerFrom(w)'
<1> DEFINE k == job[w].key
           D == offered[k]
           m == bins[w]
           b == buf[w]
           f == got[w][b.next]
           c == Copy(b, f)
<1>s. /\ buf \in [Workers -> BufType] /\ got[w] \in [Indices -> Fragment \cup {Absent}]
      /\ m \in MetaRecord \cup {Absent} /\ b \in BufType
      /\ WorkerFrom(w) /\ WorkerOK(w) /\ pc[w] = "getcopy" /\ offered' = offered
  BY DEF IInv, LocalOK, FromInv, GetCopy
<1>1. /\ k \in Keys /\ m \in MetaRecord /\ MetaOK(m) /\ m.ready /\ m.nseg = job[w].nseg
      /\ m.nseg >= 2 /\ b.next < m.nseg
      /\ Reading(D, k, m, got[w], b) /\ ret[w] = "none"
  BY <1>s DEF WorkerOK, WorkerFrom
<1>2. D \subseteq Rendered[k] /\ D \subseteq Payloads
  BY <1>1, RenderedAssumption DEF FromInv, StoreFrom
<1>3. /\ MetaFrom(D, m) /\ BufferFor(k, m, b) /\ m.md \in D
      /\ \A i \in Indices : got[w][i] # Absent => Sliced(D, i, got[w][i])
      /\ OneLayout => FilledTo(m, b)
  BY <1>1 DEF Reading, MetaFrom, Laid
<1>4. b.next \in Indices /\ b.next < MaxSegs
  BY <1>s, <1>1, MaxSegsAssumption DEF BufType, MetaRecord, Indices
<1>5. CASE Return(w, "miss", Release(b)) \/ Return(w, "error", Release(b))
  BY <1>5, ReturnFrom
<1>6. CASE f # Absent /\ (IF c.next = job[w].nseg THEN FinishGet(w, m, c)
                          ELSE /\ buf' = [buf EXCEPT ![w] = c]
                               /\ UNCHANGED <<pc, job, todo, bins, got, ret>>)
  <2>1. f \in Fragment /\ Sliced(D, b.next, f)
    BY <1>s, <1>3, <1>4, <1>6
  <2>2. /\ c.whose = b.whose /\ c.key = b.key /\ c.cap = b.cap /\ c.reshape = b.reshape
        /\ c.next = b.next + 1
    BY <1>s, <1>4, <2>1, CopyOK
  <2>3. OneLayout => /\ c.of = m.md
                     /\ b.next + 1 = m.nseg => c.n = Size[m.md]
                     /\ b.next + 1 # m.nseg => FilledTo(m, c)
    <3> SUFFICES ASSUME OneLayout
                 PROVE  /\ c.of = m.md
                        /\ b.next + 1 = m.nseg => c.n = Size[m.md]
                        /\ b.next + 1 # m.nseg => FilledTo(m, c)
      OBVIOUS
    <3> HIDE DEF D, m, b, f
    <3> QED
      BY <1>s, <1>1, <1>2, <1>3, <2>1, CopyInOrder
  <2>4. CASE c.next = job[w].nseg
    <3>1. FinishGet(w, m, c)
      BY <1>6, <2>4
    <3> HIDE DEF D, c, f, b, m
    <3>2. ~CrcMismatch(w, m, c) => c.of = m.md /\ c.n = Size[m.md]
      <4>1. CASE AllCheck
        BY <1>1, <1>2, <1>3, <4>1, CheckedBytes
      <4>2. CASE OneLayout
        BY <1>1, <2>2, <2>3, <2>4, <4>2
      <4> QED
        BY <4>1, <4>2 DEF Guarded
    <3>3. ~CrcMismatch(w, m, c) => c.key = k /\ HitFrom(D, c)
      BY <1>3, <2>2, <3>2, WholeBuffer
    <3> QED
      BY <1>s, <1>1, <3>1, <3>3, FinishFrom DEF D
  <2>5. CASE c.next # job[w].nseg
    <3>1. /\ buf'[w] = c /\ pc'[w] = "getcopy" /\ job' = job /\ bins' = bins
          /\ got' = got /\ ret' = ret
      BY <1>s, <1>6, <2>5
    <3>2. BufferFor(k, m, c)
      BY <1>3, <2>2 DEF BufferFor
    <3>3. OneLayout => FilledTo(m, c)
      BY <1>1, <2>2, <2>3, <2>5
    <3> HIDE DEF c
    <3>4. Reading(D, k, m, got[w], c)
      BY <1>3, <3>2, <3>3 DEF Reading
    <3> QED
      BY <1>s, <1>1, <3>1, <3>4 DEF WorkerFrom
  <2> QED
    BY <2>4, <2>5
<1> QED
  BY <1>5, <1>6 DEF GetCopy

LEMMA MoverFrom ==
  ASSUME Guarded, IInv, FromInv, NEW w \in Workers, WorkerStep(w)
  PROVE  WorkerFrom(w)'
<1>s. /\ pc \in [Workers -> PcType] /\ job \in [Workers -> JobType]
      /\ buf \in [Workers -> BufType] /\ ret \in [Workers -> Results]
      /\ offered \in [Keys -> SUBSET Payloads]
      /\ WorkerFrom(w) /\ WorkerOK(w)
  BY DEF IInv, LocalOK, OfferedOK, FromInv
<1>1. CASE EndsWithoutHit(w)
  BY <1>1, ReturnFrom DEF EndsWithoutHit
<1>2. CASE GoesOn(w)
  <2>1. PICK k \in Keys, n \in 0 .. MaxSegs, T \in SUBSET Indices,
             op \in {"pinwrite", "unpinwrite", "removemeta", "removeseg"} :
               Start(w, k, op, n, T) /\ pc[w] \in {"idle", "removemeta"}
    BY <1>2 DEF GoesOn
  <2>2. pc'[w] = op /\ ret'[w] = "none" /\ got'[w] = got[w] /\ got[w] = NoGot
    BY <1>s, <2>1 DEF Start, WorkerFrom
  <2> QED
    BY <2>2 DEF WorkerFrom
<1>3. ASSUME NEW k \in Keys, NEW d \in Payloads, NEW pinned \in PinnedPuts,
             PutPlan(w, k, d, pinned)
      PROVE  WorkerFrom(w)'
  <2>1. /\ pc'[w] \in {"putmeta", "putseg"} /\ job'[w].key = k /\ job'[w].data = d
        /\ ret'[w] = "none" /\ got'[w] = got[w] /\ got[w] = NoGot
    BY <1>s, <1>3 DEF PutPlan, Idle, WorkerFrom
  <2>2. d \in offered'[k]
    BY <1>s, <1>3 DEF PutPlan
  <2> QED
    BY <2>1, <2>2 DEF WorkerFrom
<1>4. ASSUME NEW i \in Indices, PutSegment(w, i) PROVE WorkerFrom(w)'
  <2>1. /\ pc[w] = "putseg" /\ pc'[w] \in {"putmeta", "putseg"} /\ job' = job /\ got' = got
        /\ ret' = ret /\ offered' = offered
    BY <1>s, <1>4 DEF PutSegment, AfterSegment
  <2> QED
    BY <1>s, <2>1 DEF WorkerFrom
<1>5. ASSUME NEW i \in Indices, RemoveSegment(w, i) PROVE WorkerFrom(w)'
  <2>1. CASE Return(w, "true", NoBuf)
    BY <2>1, ReturnFrom
  <2>2. CASE UNCHANGED <<pc, job, bins, got, buf, ret>>
    BY <1>s, <1>5, <2>2 DEF RemoveSegment, WorkerFrom
  <2> QED
    BY <1>5, <2>1, <2>2 DEF RemoveSegment
<1> QED
  BY <1>1, <1>2, <1>3, <1>4, <1>5, GetInlineFrom, GetShardedFrom, GetSegmentFrom, GetCopyFrom
     DEF WorkerStep

LEMMA OthersFrom ==
  ASSUME IInv, NEW v \in Workers, WorkerFrom(v),
         \A k \in Keys : offered[k] \subseteq offered'[k],
         pc'[v] = pc[v], job'[v] = job[v], bins'[v] = bins[v],
         got'[v] = got[v], buf'[v] = buf[v], ret'[v] = ret[v]
  PROVE  WorkerFrom(v)'
<1>0. pc[v] # "idle" => job[v].key \in Keys
  BY DEF IInv, LocalOK, WorkerOK
<1>1. pc[v] \in {"putseg", "putmeta"} => job[v].data \in offered'[job[v].key]
  BY <1>0 DEF WorkerFrom
<1>2. pc[v] \in {"getseg", "getcopy"} =>
        Reading(offered'[job[v].key], job[v].key, bins[v], got[v], buf[v])
  BY <1>0, MoreOffered DEF WorkerFrom
<1>3. ret[v] = "hit" => buf[v].key \in Keys /\ HitFrom(offered'[buf[v].key], buf[v])
  BY MoreOffered DEF WorkerFrom
<1> QED
  BY <1>1, <1>2, <1>3 DEF WorkerFrom

LEMMA NextFrom ==
  ASSUME Guarded, IInv, FromInv, [Next]_vars
  PROVE  FromInv'
<1>1. CASE UNCHANGED vars
  <2>1. /\ meta' = meta /\ seg' = seg /\ late' = late /\ offered' = offered
        /\ pc' = pc /\ job' = job /\ bins' = bins /\ got' = got /\ buf' = buf /\ ret' = ret
    BY <1>1 DEF vars
  <2> QED
    BY <2>1 DEF FromInv, StoreFrom, WorkerFrom
<1>2. CASE Next
  <2>1. RecordsStep /\ ((\E w \in Workers : WorkerStep(w)) \/ (UNCHANGED <<local, offered>>))
    BY <1>2, StepForms
  <2>2. \A k \in Keys : offered[k] \subseteq offered'[k] /\ offered'[k] \subseteq Rendered[k]
    BY <2>1, OffersGrow DEF FromInv
  <2>3. StoreFrom'
    BY <2>1, <2>2, StoreStaysFrom
  <2>4. ASSUME NEW v \in Workers PROVE WorkerFrom(v)'
    <3>0. WorkerFrom(v)
      BY DEF FromInv
    <3>1. CASE UNCHANGED <<local, offered>>
      BY <2>2, <3>0, <3>1, OthersFrom DEF local
    <3>2. CASE \E w \in Workers : WorkerStep(w)
      <4>1. PICK w \in Workers : WorkerStep(w)
        BY <3>2
      <4>2. CASE v = w
        BY <4>1, <4>2, MoverFrom
      <4>3. CASE v # w
        <5>1. /\ pc'[v] = pc[v] /\ job'[v] = job[v] /\ bins'[v] = bins[v]
              /\ got'[v] = got[v] /\ buf'[v] = buf[v] /\ ret'[v] = ret[v]
          BY <4>1, <4>3, OneMoves
        <5> QED
          BY <2>2, <3>0, <5>1, OthersFrom
      <4> QED
        BY <4>2, <4>3
    <3> QED
      BY <2>1, <3>1, <3>2
  <2> QED
    BY <2>3, <2>4 DEF FromInv
<1> QED
  BY <1>1, <1>2

LEMMA InitFrom == Init => FromInv
<1> SUFFICES ASSUME Init PROVE FromInv
  OBVIOUS
<1>1. StoreFrom
  BY DEF Init, StoreFrom
<1>2. ASSUME NEW w \in Workers PROVE WorkerFrom(w)
  BY DEF Init, WorkerFrom
<1> QED
  BY <1>1, <1>2 DEF FromInv

(* All that is stored, asked for, read or returned comes from payloads     *)
(* that were given to put for the key.                                     *)
LEMMA BytesComeFromPuts ==
  ASSUME Guarded
  PROVE  Spec => [](IInv /\ FromInv)
<1>1. IInv /\ FromInv /\ [Next]_vars => FromInv'
  BY NextFrom
<1> QED
  BY <1>1, InitFrom, InitIInv, NextIInv, PTL DEF Spec

(* A hit returns the bytes of one payload given to put for the key, all of *)
(* them and nothing else, in a memory object of that length: for every     *)
(* number of workers, keys, payloads and segments, with writers that       *)
(* overwrite, fail, die or are served late while get reads, provided that  *)
(* keys are content addressed and the engines agree on the layout, or that *)
(* all engines keep checksums (enable_crc32), and that the buffers callers *)
(* bring have the payload's length.  Without the proviso it is false: see  *)
(* EngineLayoutMix.                                                        *)
THEOREM HitsAreIntact ==
  ASSUME Guarded, BuffersFit
  PROVE  Spec => []HitIntact
<1>1. IInv /\ FromInv => HitIntact
  <2> SUFFICES ASSUME IInv, FromInv, NEW w \in Workers, ret[w] = "hit"
               PROVE  /\ buf[w].of \in offered[buf[w].key]
                      /\ buf[w].n = Size[buf[w].of]
                      /\ buf[w].reshape \/ buf[w].cap = buf[w].n
    BY DEF HitIntact
  <2> DEFINE b == buf[w]
  <2>1. b.key \in Keys /\ HitFrom(offered[b.key], b)
    BY DEF FromInv, WorkerFrom
  <2>2. b.whose \in {"fresh", "caller"}
    BY <2>1, SwitchesAssumption DEF HitFrom
  <2>3. b.whose = "caller" => b.cap = b.n
    <3> SUFFICES ASSUME b.whose = "caller" PROVE b.cap = b.n
      OBVIOUS
    <3>1. b.of \in Rendered[b.key] /\ "caller" \in Buffers
      BY <2>1 DEF HitFrom, FromInv, StoreFrom
    <3>2. PICK d \in Rendered[b.key] : b.cap = Size[d]
      BY <2>1 DEF HitFrom
    <3> QED
      BY <2>1, <3>1, <3>2 DEF HitFrom, BuffersFit
  <2> QED
    BY <2>1, <2>2, <2>3 DEF HitFrom
<1> QED
  BY <1>1, BytesComeFromPuts, PTL

-----------------------------------------------------------------------------
(***************************************************************************)
(* What makes a readable entry unreadable.                                 *)
(***************************************************************************)

(* With one layout, an entry whose records are there is whole.             *)
LEMMA CommittedIsReadable ==
  ASSUME OneLayout, IInv, FromInv, NEW k \in Keys, Committed(k)
  PROVE  Readable(k)
<1> DEFINE m == meta[k]
           D == offered[k]
           n == m.nseg
           sz == Size[m.md]
<1>1. /\ m \in MetaRecord /\ MetaOK(m) /\ m.ready /\ MetaFrom(D, m)
      /\ D \subseteq Rendered[k] /\ D \subseteq Payloads
  BY RenderedAssumption DEF Committed, Ready, IInv, StoreOK, FromInv, StoreFrom
<1>2. PICK w \in Workers : LayoutOf(w, m.md) # ConfigError /\ n = LayoutOf(w, m.md).nseg
  BY <1>1 DEF MetaFrom, Laid
<1> DEFINE p == LayoutOf(w, m.md)
<1>3. m.md \in D /\ m.md \in Payloads /\ sz \in Nat /\ n \in Nat /\ n >= 1 /\ n <= MaxSegs
  BY <1>1, SizeAssumption, MaxSegsAssumption DEF MetaFrom, Laid, MetaOK, MetaRecord
<1> SUFFICES ASSUME n # 1, NEW i \in 0 .. n - 1
             PROVE  LET f == seg[k][i].frag
                    IN  /\ f.data = m.md
                        /\ f.lo = IF i = 0 THEN 0 ELSE seg[k][i - 1].frag.hi
                        /\ i = n - 1 => f.hi = Size[f.data]
  BY DEF Readable
<1>4. ASSUME NEW j \in 0 .. n - 1
      PROVE  /\ seg[k][j].frag.data = m.md
             /\ seg[k][j].frag.lo = SliceLo(sz, p, j)
             /\ seg[k][j].frag.hi = SliceHi(sz, p, j)
  <2> DEFINE f == seg[k][j].frag
  <2>1. j \in Indices
    BY <1>3, MaxSegsAssumption DEF Indices
  <2>2. Sliced(D, j, f)
    BY <2>1 DEF Committed, FromInv, StoreFrom
  <2>3. f.data = m.md
    BY <1>1, <1>3, <2>2 DEF Sliced, OneLayout
  <2>4. PICK v \in Workers : /\ LayoutOf(v, m.md).nseg > 1
                             /\ f.lo = SliceLo(sz, LayoutOf(v, m.md), j)
                             /\ f.hi = SliceHi(sz, LayoutOf(v, m.md), j)
    BY <2>2, <2>3 DEF Sliced
  <2>5. LayoutOf(v, m.md) # ConfigError
    BY <2>4 DEF ConfigError
  <2>6. LayoutOf(v, m.md) = p
    BY <1>2, <1>3, <2>5 DEF OneLayout
  <2> QED
    BY <2>3, <2>4, <2>6
<1>5. ASSUME NEW j \in 0 .. n - 1
      PROVE  /\ SliceLo(sz, p, 0) = 0
             /\ j < n - 1 => SliceHi(sz, p, j) = SliceLo(sz, p, j + 1)
             /\ j = n - 1 => SliceHi(sz, p, j) = sz
  <2>1. Limits[w] \in LimitsType /\ Limits[w].target > 0
    BY LimitsAssumption
  <2>2. plan(sz, Limits[w]).nseg > 1 /\ j \in 0 .. plan(sz, Limits[w]).nseg - 1
        /\ n = plan(sz, Limits[w]).nseg
    BY <1>2, <1>3 DEF LayoutOf
  <2> HIDE DEF sz, n
  <2> QED
    BY <1>3, <2>1, <2>2, SlicesTile DEF LayoutOf, sz
<1>6. CASE i = 0
  BY <1>3, <1>4, <1>5, <1>6
<1>7. CASE i # 0
  <2>1. i - 1 \in 0 .. n - 1 /\ i - 1 < n - 1 /\ (i - 1) + 1 = i
    BY <1>3, <1>7
  <2>2. seg[k][i - 1].frag.hi = SliceHi(sz, p, i - 1)
    BY <1>4, <2>1
  <2>3. SliceHi(sz, p, i - 1) = SliceLo(sz, p, (i - 1) + 1)
    BY <1>5, <2>1
  <2>4. seg[k][i - 1].frag.hi = SliceLo(sz, p, i)
    BY <2>1, <2>2, <2>3
  <2>5. /\ seg[k][i].frag.data = m.md
        /\ seg[k][i].frag.lo = SliceLo(sz, p, i)
        /\ seg[k][i].frag.hi = SliceHi(sz, p, i)
    BY <1>4
  <2>6. i = n - 1 => SliceHi(sz, p, i) = sz
    BY <1>5
  <2> QED
    BY <1>7, <2>4, <2>5, <2>6
<1> QED
  BY <1>6, <1>7

(* A ready record stays ready for as long as it is there.                  *)
LEMMA ReadyStays ==
  ASSUME IInv, RecordsStep, NEW k \in Keys, Ready(k), meta'[k] # Absent
  PROVE  meta'[k].ready
<1>s. meta \in [Keys -> MetaRecord \cup {Absent}] /\ meta[k] \in MetaRecord /\ meta[k].ready
  BY DEF IInv, StoreOK, Ready
<1>1. CASE meta' = meta
  BY <1>s, <1>1
<1>2. ASSUME NEW r \in Asked, Serve(r), meta' # meta PROVE meta'[k].ready
  <2>1. r \in MetaRequests /\ meta' = [meta EXCEPT ![r.key] = NewMeta(@, r)]
    BY <1>2 DEF Serve
  <2>2. CASE k # r.key
    BY <1>s, <2>1, <2>2
  <2>3. CASE k = r.key
    <3> DEFINE new == NewMeta(meta[k], r)
    <3>1. meta'[k] = new
      BY <1>s, <2>1, <2>3
    <3>2. \/ new = Absent
          \/ new = MetaPut(meta[k], r)
          \/ new = [meta[k] EXCEPT !.pin = r.pin, !.ttl = r.ttl]
          \/ new = [meta[k] EXCEPT !.ttl = r.ttl]
      <4>1. meta[k] # Absent
        BY DEF Ready
      <4> QED
        BY <4>1 DEF NewMeta, MetaPin, MetaTouch
    <3>3. MetaPut(meta[k], r).ready
      BY DEF MetaPut
    <3> HIDE DEF new
    <3>4. new # Absent => new.ready
      BY <1>s, <3>2, <3>3 DEF MetaRecord
    <3> QED
      BY <3>1, <3>4
  <2> QED
    BY <2>2, <2>3
<1>3. ASSUME NEW q \in Keys, ExpireMeta(q) PROVE meta'[k].ready
  BY <1>s, <1>3 DEF ExpireMeta
<1>4. ASSUME NEW q \in Keys, NEW i \in Indices, ExpireSegment(q, i) PROVE meta' = meta
  BY <1>4 DEF ExpireSegment
<1> QED
  BY <1>1, <1>2, <1>3, <1>4 DEF RecordsStep, Expires

(* Only the loss of a record makes a readable key unreadable: with content *)
(* addressed keys and one layout, an overwrite is invisible at every point *)
(* of it, also when the writer dies or its requests arrive late, and so    *)
(* are pin and unpin.                                                      *)
THEOREM ReadableUntilLost ==
  ASSUME OneLayout
  PROVE  Spec => ReadableStaysReadable
<1> DEFINE A == \A k \in Keys : Readable(k) => Readable(k)' \/ Vanishes(k)
<1>1. IInv /\ FromInv /\ (IInv /\ FromInv)' /\ [Next]_vars => [A]_vars
  <2> SUFFICES ASSUME IInv, FromInv, IInv', FromInv', Next, NEW k \in Keys, Readable(k),
                      ~Vanishes(k)
               PROVE  Readable(k)'
    OBVIOUS
  <2>1. RecordsStep
    BY StepForms
  <2>2. /\ Ready(k) /\ meta'[k] # Absent
        /\ \A i \in Indices : seg[k][i] # Absent => seg'[k][i] # Absent
    BY DEF Readable, Committed, Ready, Vanishes, exists
  <2>3. meta'[k].ready
    BY <2>1, <2>2, ReadyStays
  <2>4. /\ Laid(offered[k], meta[k].md, meta[k].nseg)
        /\ Laid(offered'[k], meta'[k].md, meta'[k].nseg)
        /\ offered[k] \subseteq Rendered[k] /\ offered'[k] \subseteq Rendered[k]
        /\ Rendered[k] \subseteq Payloads
    BY <2>2, <2>3, RenderedAssumption DEF Ready, FromInv, StoreFrom, MetaFrom
  <2>5. meta'[k].nseg = meta[k].nseg
    BY <2>4 DEF Laid, OneLayout
  <2>6. meta'[k] \in MetaRecord /\ MetaOK(meta'[k]) /\ meta[k].nseg \in 0 .. MaxSegs
    BY <2>2 DEF IInv, StoreOK, Ready, MetaRecord
  <2>7. meta'[k].nseg = 1 => meta'[k].b # NoData
    BY <2>3, <2>6, SentinelAssumption DEF MetaOK
  <2>8. meta'[k].nseg # 1 => \A i \in 0 .. meta'[k].nseg - 1 : seg'[k][i] # Absent
    BY <2>2, <2>5, <2>6, RecordNumbers DEF Readable, Committed
  <2>9. Committed(k)'
    BY <2>2, <2>3, <2>7, <2>8 DEF Committed, Ready
  <2>10. (OneLayout /\ IInv /\ FromInv /\ Committed(k) => Readable(k))'
    BY CommittedIsReadable, PTL
  <2> QED
    BY <2>9, <2>10
<1>2. Guarded
  BY DEF Guarded
<1> QED
  BY <1>1, <1>2, BytesComeFromPuts, PTL DEF Spec, ReadableStaysReadable

-----------------------------------------------------------------------------
(***************************************************************************)
(* The engine implements ChunkCache.                                       *)
(***************************************************************************)

(* The cache's entry of k and the answer of w, as the instance Cache has   *)
(* them.                                                                   *)
EntryOf(k) == IF Readable(k) THEN meta[k].md ELSE Absent
AnswerOf(w) == IF ret[w] = "hit" THEN [key |-> buf[w].key, data |-> Held(buf[w])] ELSE Absent

(* Whether and what k holds depends on its own records alone, and not on   *)
(* their TTL.                                                              *)
LEMMA EntryDepends ==
  ASSUME NEW k \in Keys, seg'[k] = seg[k],
         \/ meta'[k] = meta[k]
         \/ /\ meta[k] # Absent /\ meta'[k] # Absent
            /\ meta'[k].ready = meta[k].ready /\ meta'[k].nseg = meta[k].nseg
            /\ meta'[k].md = meta[k].md /\ meta'[k].b = meta[k].b
  PROVE  EntryOf(k)' = EntryOf(k)
<1>1. Committed(k)' <=> Committed(k)
  BY DEF Committed, Ready
<1>2. Readable(k)' <=> Readable(k)
  <2>1. CASE ~Committed(k)
    BY <1>1, <2>1 DEF Readable
  <2>2. CASE Committed(k)
    <3>1. meta'[k].nseg = meta[k].nseg /\ meta'[k].md = meta[k].md
      OBVIOUS
    <3> QED
      BY <1>1, <2>2, <3>1 DEF Readable
  <2> QED
    BY <2>1, <2>2
<1>3. meta'[k].md = meta[k].md
  OBVIOUS
<1> QED
  BY <1>2, <1>3 DEF EntryOf

(* A step changes the records of one key at most.                          *)
LEMMA OneKeyChanges ==
  ASSUME IInv, RecordsStep, ~ UNCHANGED <<meta, seg>>
  PROVE  \E k \in Keys : \A q \in Keys : q # k => EntryOf(q)' = EntryOf(q)
<1>s. /\ meta \in [Keys -> MetaRecord \cup {Absent}]
      /\ seg \in [Keys -> [Indices -> Segment \cup {Absent}]]
  BY DEF IInv, StoreOK
<1> SUFFICES \E k \in Keys : \A q \in Keys : q # k => meta'[q] = meta[q] /\ seg'[q] = seg[q]
  BY EntryDepends
<1>1. ASSUME NEW r \in Asked, Serve(r)
      PROVE  \E k \in Keys : \A q \in Keys : q # k => meta'[q] = meta[q] /\ seg'[q] = seg[q]
  <2>1. r \in Requests
    BY AskedIsTyped
  <2>2. r.key \in Keys
    BY <2>1 DEF Requests, MetaRequests, SegRequests
  <2>3. \A q \in Keys : q # r.key => meta'[q] = meta[q] /\ seg'[q] = seg[q]
    BY <1>s, <1>1, <2>2 DEF Serve
  <2> QED
    BY <2>2, <2>3
<1>2. ASSUME NEW k \in Keys, NEW i, ExpireMeta(k) \/ ExpireSegment(k, i)
      PROVE  \A q \in Keys : q # k => meta'[q] = meta[q] /\ seg'[q] = seg[q]
  BY <1>s, <1>2 DEF ExpireMeta, ExpireSegment
<1> QED
  BY <1>1, <1>2 DEF RecordsStep, Expires

(* A step that changes records changes no answer and offers nothing,       *)
(* except unpin's touch, which changes no entry.                           *)
LEMMA StoreOrAnswer ==
  ASSUME IInv, FromInv, Next
  PROVE  \/ UNCHANGED <<meta, seg>>
         \/ offered' = offered /\ \A w \in Workers : AnswerOf(w)' = AnswerOf(w)
         \/ offered' = offered /\ \A k \in Keys : EntryOf(k)' = EntryOf(k)
<1>s. /\ pc \in [Workers -> PcType] /\ buf \in [Workers -> BufType]
      /\ ret \in [Workers -> Results]
      /\ meta \in [Keys -> MetaRecord \cup {Absent}]
  BY DEF IInv, StoreOK, LocalOK
<1>1. ASSUME NEW w \in Workers, pc[w] # "idle", offered' = offered,
             \/ \E r \in {"ok", "true", "false", "none"} : Return(w, r, NoBuf)
             \/ \E k, op, n, T : Start(w, k, op, n, T)
             \/ UNCHANGED <<buf, ret>>
      PROVE  offered' = offered /\ \A v \in Workers : AnswerOf(v)' = AnswerOf(v)
  <2>1. CASE UNCHANGED <<buf, ret>>
    BY <1>1, <2>1 DEF AnswerOf, Held
  <2>2. CASE ~ UNCHANGED <<buf, ret>>
    <3>1. ret[w] = "none"
      BY <1>1 DEF FromInv, WorkerFrom
    <3>2. /\ ret'[w] # "hit"
          /\ \A v \in Workers : v # w => ret'[v] = ret[v] /\ buf'[v] = buf[v]
      BY <1>s, <1>1, <2>2 DEF Return, Start
    <3> QED
      BY <1>1, <3>1, <3>2 DEF AnswerOf, Held
  <2> QED
    BY <2>1, <2>2
<1>2. ASSUME NEW w \in Workers, Progress(w),
             ~ \E i \in Indices : GetSegment(w, i),
             ~ GetCopy(w)
      PROVE  offered' = offered /\ \A v \in Workers : AnswerOf(v)' = AnswerOf(v)
  <2>1. ASSUME NEW i \in Indices, PutSegment(w, i) \/ RemoveSegment(w, i)
        PROVE  offered' = offered /\ \A v \in Workers : AnswerOf(v)' = AnswerOf(v)
    BY <1>1, <2>1 DEF PutSegment, RemoveSegment
  <2>2. CASE PutMeta(w) \/ PinWrite(w) \/ UnpinWrite(w)
    BY <1>1, <2>2 DEF PutMeta, PinWrite, UnpinWrite
  <2>3. CASE RemoveMeta(w)
    BY <1>1, <2>3 DEF RemoveMeta
  <2> QED
    BY <1>2, <2>1, <2>2, <2>3 DEF Progress
<1>3. ASSUME NEW w \in Workers, NEW i \in Indices,
             GetSegment(w, i) \/ GetCopy(w) \/ Failure(w) \/ Crash(w)
      PROVE  UNCHANGED <<meta, seg>>
  BY <1>3 DEF GetSegment, GetCopy, Failure, PutFails, GetSegmentsFail, PinWriteFails,
              UnpinWriteFails, RemoveMetaFails, RemoveSegmentsFail, Crash, store
<1>4. ASSUME NEW w \in Workers, NEW k \in Keys, Begin(w, k), ~UnpinTouch(w, k)
      PROVE  UNCHANGED <<meta, seg>>
  BY <1>4 DEF Begin, PutStart, PutPlan, PutRejected, GetNoEntry, GetMetaFails, GetNoBuffer,
              GetInline, GetSharded, PinMiss, PinFound, UnpinTouchFails, RemoveSelect, store
<1>5. ASSUME NEW w \in Workers, NEW k \in Keys, UnpinTouch(w, k)
      PROVE  \/ UNCHANGED <<meta, seg>>
             \/ offered' = offered /\ \A q \in Keys : EntryOf(q)' = EntryOf(q)
  <2>1. CASE ~exists(k)
    BY <1>5, <2>1 DEF UnpinTouch
  <2>2. CASE exists(k)
    <3> DEFINE r == TouchRequest(k)
    <3>1. r.kind = "touch" /\ r.key = k /\ Serve(r) /\ offered' = offered
      BY <1>5, <2>2 DEF UnpinTouch, TouchRequest
    <3>2. r \notin SegRequests
      BY <3>1 DEF SegRequests
    <3>3. meta[k] \in MetaRecord
      BY <1>s, <2>2 DEF exists
    <3> HIDE DEF r
    <3>4. meta' = [meta EXCEPT ![k] = [meta[k] EXCEPT !.ttl = r.ttl]] /\ seg' = seg
      <4>1. NewMeta(meta[k], r) = [meta[k] EXCEPT !.ttl = r.ttl]
        BY <2>2, <3>1 DEF NewMeta, MetaTouch, exists
      <4> QED
        BY <3>1, <3>2, <4>1 DEF Serve
    <3> DEFINE new == [meta[k] EXCEPT !.ttl = r.ttl]
    <3>5. /\ new.ready = meta[k].ready /\ new.nseg = meta[k].nseg
          /\ new.md = meta[k].md /\ new.b = meta[k].b
      BY <3>3 DEF MetaRecord
    <3>6. new # Absent
      <4>1. r.ttl \in Int
        BY TtlOK DEF r, TouchRequest
      <4>2. new \in MetaRecord
        BY <3>3, <4>1 DEF MetaRecord
      <4> QED
        BY <4>2, AbsentAssumption
    <3> HIDE DEF new
    <3>7. meta'[k] = new /\ \A q \in Keys : q # k => meta'[q] = meta[q]
      BY <1>s, <3>4 DEF new
    <3>8. \A q \in Keys : EntryOf(q)' = EntryOf(q)
      BY <2>2, <3>4, <3>5, <3>6, <3>7, EntryDepends DEF exists
    <3> QED
      BY <3>1, <3>8
  <2> QED
    BY <2>1, <2>2
<1>6. ASSUME UNCHANGED <<local, offered>>
      PROVE  offered' = offered /\ \A v \in Workers : AnswerOf(v)' = AnswerOf(v)
  BY <1>6 DEF local, AnswerOf, Held
<1>7. ASSUME NEW r \in late, ServeLate(r) PROVE UNCHANGED <<local, offered>>
  BY <1>7 DEF ServeLate
<1>8. ASSUME Expires PROVE UNCHANGED <<local, offered>>
  BY <1>8 DEF Expires, ExpireMeta, ExpireSegment
<1>9. 0 \in Indices
  BY MaxSegsAssumption DEF Indices
<1> QED
  BY <1>2, <1>3, <1>4, <1>5, <1>6, <1>7, <1>8, <1>9 DEF Next, Environment, Expires

(* A step that changes one answer is the cache's Answer.                   *)
LEMMA AnswerStep ==
  ASSUME IInv, FromInv, FromInv', offered' = offered,
         \A k \in Keys : EntryOf(k)' = EntryOf(k),
         NEW w \in Workers,
         \A v \in Workers : v # w => ret'[v] = ret[v] /\ buf'[v] = buf[v]
  PROVE  Cache!Next \/ UNCHANGED Cache!vars
<1> DEFINE ans == [v \in Workers |-> AnswerOf(v)]
           ent == [k \in Keys |-> EntryOf(k)]
<1>1. ent' = ent
  OBVIOUS
<1>2. \A v \in Workers : v # w => AnswerOf(v)' = AnswerOf(v)
  BY DEF AnswerOf, Held
<1>3. ans' = [ans EXCEPT ![w] = AnswerOf(w)']
  BY <1>2
<1>4. CASE ret'[w] = "hit"
  <2>1. PICK k \in Keys : k = buf'[w].key /\ HitFrom(offered[k], buf'[w])
    BY <1>4 DEF FromInv, WorkerFrom
  <2> DEFINE b == buf'[w]
  <2>2. PICK d \in offered[k] : d = Held(b)
    <3>1. b.of \in offered[k] /\ b.n = Size[b.of]
      BY <2>1 DEF HitFrom
    <3>2. b.of # NoData
      BY <2>1, <3>1, SentinelAssumption DEF IInv, OfferedOK
    <3> QED
      BY <3>1, <3>2 DEF Held
  <2>3. AnswerOf(w)' = [key |-> k, data |-> d]
    BY <1>4, <2>1, <2>2 DEF AnswerOf, Held
  <2>4. [key |-> k, data |-> d] \in [key : {k}, data : offered[k]]
    BY <2>2
  <2>5. Cache!Answer(w, k)
    BY <1>1, <1>3, <2>3, <2>4 DEF Cache!Answer, EntryOf, AnswerOf
  <2> QED
    BY <2>5 DEF Cache!Next
<1>5. CASE ret'[w] # "hit" /\ Keys # {}
  <2>1. PICK k \in Keys : TRUE
    BY <1>5
  <2>2. AnswerOf(w)' = Absent
    BY <1>5 DEF AnswerOf
  <2>3. Cache!Answer(w, k)
    BY <1>1, <1>3, <2>2 DEF Cache!Answer, EntryOf, AnswerOf
  <2> QED
    BY <2>3 DEF Cache!Next
<1>6. CASE ret'[w] # "hit" /\ Keys = {}
  <2>1. ret[w] # "hit"
    BY <1>6 DEF FromInv, WorkerFrom
  <2>2. AnswerOf(w)' = AnswerOf(w)
    BY <1>6, <2>1 DEF AnswerOf
  <2>3. ans' = ans
    BY <1>2, <2>2
  <2> QED
    BY <1>1, <2>3 DEF Cache!vars, EntryOf, AnswerOf
<1> QED
  BY <1>4, <1>5, <1>6

(* A step that changes one entry is the cache's Store or Lose.             *)
LEMMA EntryStep ==
  ASSUME IInv, FromInv, FromInv', offered' = offered,
         \A w \in Workers : AnswerOf(w)' = AnswerOf(w),
         NEW k \in Keys, \A q \in Keys : q # k => EntryOf(q)' = EntryOf(q)
  PROVE  Cache!Next \/ UNCHANGED Cache!vars
<1> DEFINE ans == [v \in Workers |-> AnswerOf(v)]
           ent == [q \in Keys |-> EntryOf(q)]
<1>1. ans' = ans
  OBVIOUS
<1>2. ent' = [ent EXCEPT ![k] = EntryOf(k)']
  OBVIOUS
<1>3. CASE Readable(k)'
  <2>1. meta'[k] # Absent /\ meta'[k].ready
    BY <1>3 DEF Readable, Committed, Ready
  <2>2. Laid(offered[k], meta'[k].md, meta'[k].nseg)
    BY <2>1 DEF FromInv, StoreFrom, MetaFrom
  <2>3. meta'[k].md \in offered[k] /\ Workers # {}
    BY <2>2 DEF Laid
  <2>4. EntryOf(k)' = meta'[k].md
    BY <1>3 DEF EntryOf
  <2>5. Cache!Store(k)
    BY <1>1, <1>2, <2>3, <2>4 DEF Cache!Store, EntryOf, AnswerOf
  <2> QED
    BY <2>3, <2>5 DEF Cache!Next
<1>4. CASE ~Readable(k)' /\ Workers # {}
  <2>1. EntryOf(k)' = Absent
    BY <1>4 DEF EntryOf
  <2>2. Cache!Lose(k)
    BY <1>1, <1>2, <2>1 DEF Cache!Lose, EntryOf, AnswerOf
  <2> QED
    BY <1>4, <2>2 DEF Cache!Next
<1>5. CASE ~Readable(k)' /\ Workers = {}
  <2>1. ~Readable(k)
    BY <1>5 DEF Readable, Committed, Ready, FromInv, StoreFrom, MetaFrom, Laid
  <2>2. EntryOf(k)' = EntryOf(k)
    BY <1>5, <2>1 DEF EntryOf
  <2>3. ent' = ent
    BY <2>2
  <2> QED
    BY <1>1, <2>3 DEF Cache!vars, EntryOf, AnswerOf
<1> QED
  BY <1>3, <1>4, <1>5

(* put's first step is the cache's Offer.                                  *)
LEMMA OfferStep ==
  ASSUME IInv, FromInv, NEW w \in Workers, NEW k \in Keys, NEW d \in Payloads,
         NEW pinned \in PinnedPuts, PutPlan(w, k, d, pinned)
  PROVE  Cache!Next
<1> DEFINE ans == [v \in Workers |-> AnswerOf(v)]
           ent == [q \in Keys |-> EntryOf(q)]
<1>s. ret \in [Workers -> Results] /\ buf \in [Workers -> BufType]
  BY DEF IInv, LocalOK
<1>1. /\ meta' = meta /\ seg' = seg /\ offered' = [offered EXCEPT ![k] = @ \cup {d}]
      /\ ret'[w] = "none"
      /\ \A v \in Workers : v # w => ret'[v] = ret[v] /\ buf'[v] = buf[v]
  BY <1>s DEF PutPlan, store
<1>2. ent' = ent
  BY <1>1, EntryDepends
<1>3. /\ AnswerOf(w)' = Absent
      /\ \A v \in Workers : v # w => AnswerOf(v)' = AnswerOf(v)
  BY <1>1 DEF AnswerOf, Held
<1>4. ans' = [ans EXCEPT ![w] = Absent]
  BY <1>3
<1>5. Cache!Offer(w, k)
  BY <1>1, <1>2, <1>4 DEF Cache!Offer, EntryOf, AnswerOf
<1> QED
  BY <1>5 DEF Cache!Next

(* The engine implements ChunkCache: whatever the workers, the failures,   *)
(* the late requests, expiry and removal do, an entry becomes readable in  *)
(* one step, with a payload that was put for its key, and get returns such *)
(* a payload, whole, or nothing.                                           *)
THEOREM EngineImplementsCache ==
  ASSUME Guarded
  PROVE  Spec => ImplementsCache
<1>1. Init => Cache!Init
  <2> SUFFICES ASSUME Init PROVE Cache!Init
    OBVIOUS
  <2>1. \A k \in Keys : ~Readable(k)
    BY DEF Init, Readable, Committed, Ready
  <2>2. \A w \in Workers : ret[w] # "hit"
    BY DEF Init
  <2> QED
    BY <2>1, <2>2 DEF Init, Cache!Init
<1>2. IInv /\ FromInv /\ (IInv /\ FromInv)' /\ [Next]_vars => [Cache!Next]_(Cache!vars)
  <2> SUFFICES ASSUME IInv, FromInv, FromInv', [Next]_vars
               PROVE  Cache!Next \/ UNCHANGED Cache!vars
    OBVIOUS
  <2>1. CASE UNCHANGED vars
    BY <2>1 DEF vars, Cache!vars, Readable, Committed, Ready, Held
  <2>2. CASE Next
    <3>1. RecordsStep /\ ((\E w \in Workers : WorkerStep(w)) \/ (UNCHANGED <<local, offered>>))
      BY <2>2, StepForms
    <3>2. CASE offered' = offered /\ \A k \in Keys : EntryOf(k)' = EntryOf(k)
      <4>1. CASE UNCHANGED <<local, offered>>
        <5>1. \A w \in Workers : AnswerOf(w)' = AnswerOf(w)
          BY <4>1 DEF local, AnswerOf, Held
        <5>2. [w \in Workers |-> AnswerOf(w)]' = [w \in Workers |-> AnswerOf(w)]
          BY <5>1
        <5>3. [k \in Keys |-> EntryOf(k)]' = [k \in Keys |-> EntryOf(k)]
          BY <3>2
        <5> QED
          BY <3>2, <5>2, <5>3 DEF Cache!vars, EntryOf, AnswerOf
      <4>2. ASSUME NEW w \in Workers, WorkerStep(w) PROVE Cache!Next \/ UNCHANGED Cache!vars
        <5>1. \A v \in Workers : v # w => ret'[v] = ret[v] /\ buf'[v] = buf[v]
          BY <4>2, OneMoves
        <5> QED
          BY <3>2, <5>1, AnswerStep
      <4> QED
        BY <3>1, <4>1, <4>2
    <3>3. CASE /\ offered' = offered /\ \A w \in Workers : AnswerOf(w)' = AnswerOf(w)
               /\ ~ UNCHANGED <<meta, seg>>
      <4>1. PICK k \in Keys : \A q \in Keys : q # k => EntryOf(q)' = EntryOf(q)
        BY <3>1, <3>3, OneKeyChanges
      <4> QED
        BY <3>3, <4>1, EntryStep
    <3>4. CASE UNCHANGED <<meta, seg>>
      <4>1. \A k \in Keys : EntryOf(k)' = EntryOf(k)
        BY <3>4, EntryDepends
      <4>2. CASE offered' = offered
        BY <3>2, <4>1, <4>2
      <4>3. CASE offered' # offered
        <5>1. \E w \in Workers, k \in Keys, d \in Payloads, pinned \in PinnedPuts :
                PutPlan(w, k, d, pinned)
          BY <3>1, <4>3 DEF WorkerStep, PutSegment, GetInline, GetSharded, GetSegment,
                            GetCopy, RemoveSegment
        <5> QED
          BY <5>1, OfferStep
      <4> QED
        BY <4>2, <4>3
    <3> QED
      BY <2>2, <3>2, <3>3, <3>4, StoreOrAnswer
  <2> QED
    BY <2>1, <2>2
<1> QED
  BY <1>1, <1>2, BytesComeFromPuts, PTL DEF Spec, ImplementsCache, Cache!Spec
=============================================================================
