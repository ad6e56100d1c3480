-------------------------- MODULE AerospikeEngine --------------------------
(***************************************************************************)
(* The synchronous storage engine: AerospikeStorageEngine's put, get, pin, *)
(* unpin and remove, run by any number of concurrent workers (executor     *)
(* threads of one process, or processes sharing a namespace) against one   *)
(* set of Aerospike records.                                               *)
(*                                                                         *)
(* A cache entry is a meta record and, when it is sharded, one segment     *)
(* record per slice.  Aerospike makes the update of ONE record atomic and  *)
(* nothing more, so every request to the server is a step of its own, and  *)
(* the sub-requests of a batch are served in any order.  A request that    *)
(* failed at the client may not have been served, or may be served later:  *)
(* late is the set of those the server still holds.                        *)
(*                                                                         *)
(* Bytes are abstracted to where they come from: a stored fragment is a    *)
(* range [lo, hi) of a payload, and a buffer holds either the first n      *)
(* bytes of one payload (of) or n bytes that are no payload's (NoData).    *)
(***************************************************************************)
EXTENDS ShardPlan, FiniteSets

CONSTANTS Keys, Workers,
          Payloads,       \* byte strings LMCache may hand to put
          Size,           \* their lengths
          Rendered,       \* Rendered[k]: the payloads put may be given for k
          Limits,         \* Limits[w]: ResolvedLimits of the worker's engine
          CrcWorkers,     \* workers whose engine has enable_crc32
          SaveChunkMeta,  \* LMCache's save_chunk_meta
          FullChunk,      \* bytes of a buffer of the fixed chunk shape
          DefaultTtl,     \* default_ttl_seconds
          PinTtlOption,   \* the engine's pin_ttl_seconds, 0 when not given
          Ops,            \* operations the callers use
          PinnedPuts,     \* values of put's argument pinned
          Buffers,        \* whose buffer get fills: "fresh", "caller"
          MaxSegs,        \* bound: segment records per key
          MaxLate,        \* bound: requests the server holds back at a time
          Absent, NoData

Never == -1   \* the TTL of a record that does not expire

ASSUME SizeAssumption == Size \in [Payloads -> Nat]
ASSUME RenderedAssumption == Rendered \in [Keys -> SUBSET Payloads]
ASSUME LimitsAssumption ==
    /\ Limits \in [Workers -> LimitsType]
    /\ \A w \in Workers : Limits[w].target > 0
ASSUME MaxSegsAssumption ==
    /\ MaxSegs \in Nat \ {0} /\ MaxLate \in Nat
    /\ \A w \in Workers, d \in Payloads : plan(Size[d], Limits[w]).nseg <= MaxSegs
ASSUME SwitchesAssumption ==
    /\ CrcWorkers \subseteq Workers
    /\ SaveChunkMeta \in BOOLEAN /\ PinnedPuts \subseteq BOOLEAN
    /\ FullChunk \in Nat
    /\ DefaultTtl \in Nat \cup {Never} /\ PinTtlOption \in Nat
    /\ Buffers \subseteq {"fresh", "caller"}
ASSUME SentinelAssumption == NoData \notin Payloads

Indices == 0 .. MaxSegs - 1

VARIABLES meta,     \* meta[k]: the meta record "k|m", or Absent
          seg,      \* seg[k][i]: the segment record "k|s|i", or Absent
          late,     \* requests given up by their client, still to be served
          pc,       \* where each worker is in its operation
          job,      \* the operation's key and arguments
          todo,     \* sub-requests of the current batch not yet served
          bins,     \* the meta record that get read
          got,      \* the answers of get's batch_read
          buf,      \* the memory object that get fills
          ret,      \* what the worker's last operation returned or raised
          offered   \* history: offered[k] are the payloads given to put for k

store == <<meta, seg, late>>
local == <<pc, job, todo, bins, got, buf, ret>>
vars  == <<meta, seg, late, pc, job, todo, bins, got, buf, ret, offered>>

-----------------------------------------------------------------------------
(* Records and requests.                                                   *)

Fragment == {f \in [data : Payloads, lo : Nat, hi : Nat] : f.lo <= f.hi}
Segment  == [frag : Fragment, ttl : Int]
MetaRecord == [ready : BOOLEAN, nseg : 0 .. MaxSegs, md : Payloads \cup {NoData},
               b : Payloads \cup {NoData}, crc : Payloads \cup {NoData},
               pin : BOOLEAN, ttl : Int]

ASSUME AbsentAssumption == Absent \notin MetaRecord /\ Absent \notin Segment

(* What a write of single bins creates where there is no record.           *)
Blank == [ready |-> FALSE, nseg |-> 0, md |-> NoData, b |-> NoData,
          crc |-> NoData, pin |-> FALSE, ttl |-> Never]

_ttl_value(pinned) == IF pinned THEN Never ELSE DefaultTtl

(* pin_ttl_seconds or max(2 * default, default)                            *)
PinTtl == IF PinTtlOption # 0 THEN PinTtlOption
          ELSE IF DefaultTtl * 2 >= DefaultTtl THEN DefaultTtl * 2
          ELSE DefaultTtl

PutRequest(k, d, n, crc, pinned) ==
    [kind |-> "put", key |-> k, data |-> d, nseg |-> n, crc |-> crc,
     pin |-> pinned, ttl |-> _ttl_value(pinned)]
SegRequest(k, d, shard, i, pinned) ==
    [kind |-> "seg", key |-> k, i |-> i, ttl |-> _ttl_value(pinned),
     frag |-> [data |-> d, lo |-> SliceLo(Size[d], shard, i),
                           hi |-> SliceHi(Size[d], shard, i)]]
PinRequest(k, value, ttl) == [kind |-> "pin", key |-> k, pin |-> value, ttl |-> ttl]
TouchRequest(k)           == [kind |-> "touch", key |-> k, ttl |-> DefaultTtl]
RemoveRequest(k)          == [kind |-> "remove", key |-> k]
RemoveSegRequest(k, i)    == [kind |-> "removeseg", key |-> k, i |-> i]

MetaRequests ==
    [kind : {"put"}, key : Keys, data : Payloads, nseg : 1 .. MaxSegs,
     crc : BOOLEAN, pin : BOOLEAN, ttl : Int]
    \cup [kind : {"pin"}, key : Keys, pin : BOOLEAN, ttl : Int]
    \cup [kind : {"touch"}, key : Keys, ttl : Int]
    \cup [kind : {"remove"}, key : Keys]
SegRequests ==
    [kind : {"seg"}, key : Keys, i : Indices, ttl : Int, frag : Fragment]
    \cup [kind : {"removeseg"}, key : Keys, i : Indices]

(* A put writes the bins of serde.meta_bins and leaves the other bins of   *)
(* an existing record as they are: b and crc32 survive a put without them. *)
MetaPut(old, r) ==
    LET base == IF old = Absent THEN Blank ELSE old
    IN  [ready |-> TRUE, nseg |-> r.nseg, md |-> r.data,
         b   |-> IF r.nseg = 1 THEN r.data ELSE base.b,
         crc |-> IF r.crc THEN r.data ELSE base.crc,
         pin |-> r.pin, ttl |-> r.ttl]

(* Fault: the pin write replaces the record instead of updating it.        *)
MetaPinReplace(old, r) == [Blank EXCEPT !.pin = r.pin, !.ttl = r.ttl]

(* Writing the pin bin creates the record where there is none.             *)
MetaPin(old, r) ==
    [(IF old = Absent THEN Blank ELSE old) EXCEPT !.pin = r.pin, !.ttl = r.ttl]

MetaTouch(old, r) == IF old = Absent THEN Absent ELSE [old EXCEPT !.ttl = r.ttl]

NewMeta(old, r) == CASE r.kind = "put"   -> MetaPut(old, r)
                     [] r.kind = "pin"   -> MetaPin(old, r)
                     [] r.kind = "touch" -> MetaTouch(old, r)
                     [] OTHER            -> Absent

NewSegment(r) == IF r.kind = "seg" THEN [frag |-> r.frag, ttl |-> r.ttl] ELSE Absent

(* The server serves one request: an atomic update of one record.          *)
Serve(r) ==
    \/ /\ r \in MetaRequests
       /\ meta' = [meta EXCEPT ![r.key] = NewMeta(@, r)]
       /\ seg' = seg
    \/ /\ r \in SegRequests
       /\ seg' = [seg EXCEPT ![r.key][r.i] = NewSegment(r)]
       /\ meta' = meta

-----------------------------------------------------------------------------
(* Workers.                                                                *)

NoJob == [key |-> Absent, data |-> NoData, pin |-> FALSE, nseg |-> 0]
NoBuf == [whose |-> "none", key |-> Absent, of |-> NoData, n |-> 0, next |-> 0, cap |-> 0,
          reshape |-> FALSE, refs |-> 0]
NoGot == [i \in Indices |-> Absent]

PcType  == {"idle", "putseg", "putmeta", "getseg", "getcopy", "pinwrite",
            "unpinwrite", "removemeta", "removeseg"}
JobType == [key : Keys \cup {Absent}, data : Payloads \cup {NoData},
            pin : BOOLEAN, nseg : 0 .. MaxSegs]
BufType == [whose : {"none", "fresh", "caller"}, key : Keys \cup {Absent},
            of : Payloads \cup {NoData}, n : Nat, next : 0 .. MaxSegs,
            cap : Nat, reshape : BOOLEAN, refs : {0, 1}]
Results == {"none", "ok", "hit", "miss", "true", "false", "error"}

Idle(w) == pc[w] = "idle"

(* The write requests of the call that worker w is blocked in.             *)
Outstanding(w) ==
    LET k == job[w].key
        d == job[w].data
    IN  CASE pc[w] = "putseg"     -> {SegRequest(k, d, plan(Size[d], Limits[w]), i, job[w].pin) :
                                        i \in todo[w]}
          [] pc[w] = "putmeta"    -> {PutRequest(k, d, job[w].nseg, w \in CrcWorkers, job[w].pin)}
          [] pc[w] = "pinwrite"   -> {PinRequest(k, TRUE, PinTtl)}
          [] pc[w] = "unpinwrite" -> {PinRequest(k, FALSE, DefaultTtl)}
          [] pc[w] = "removemeta" -> {RemoveRequest(k)}
          [] pc[w] = "removeseg"  -> {RemoveSegRequest(k, i) : i \in todo[w]}
          [] OTHER                -> {}

(* The operation ends with result r, leaving memory object b behind.       *)
Return(w, r, b) ==
    /\ pc' = [pc EXCEPT ![w] = "idle"]
    /\ ret' = [ret EXCEPT ![w] = r]
    /\ buf' = [buf EXCEPT ![w] = b]
    /\ todo' = [todo EXCEPT ![w] = {}]
    /\ bins' = [bins EXCEPT ![w] = Absent]
    /\ got' = [got EXCEPT ![w] = NoGot]
    /\ job' = [job EXCEPT ![w] = NoJob]

(* The call raised: whatever it asked for and was not served may be served *)
(* later or never.                                                         *)
HoldBack(requests) ==
    \E S \in SUBSET requests :
        /\ Cardinality(late \cup S) <= MaxLate
        /\ late' = late \cup S

(* The client sends a batch again when an attempt breaks (batch_policy     *)
(* leaves max_retries at the library's default; single writes have 0): the *)
(* broken attempt may be served after the answer to the second.            *)
Resent(r) == HoldBack({r})

(* An operation starts with one of its requests still to come.             *)
Start(w, k, op, n, todos) ==
    /\ pc' = [pc EXCEPT ![w] = op]
    /\ job' = [job EXCEPT ![w] = [key |-> k, data |-> NoData, pin |-> FALSE, nseg |-> n]]
    /\ todo' = [todo EXCEPT ![w] = todos]
    /\ ret' = [ret EXCEPT ![w] = "none"]
    /\ buf' = [buf EXCEPT ![w] = NoBuf]
    /\ UNCHANGED <<bins, got>>

-----------------------------------------------------------------------------
(* put                                                                     *)

(* put up to its first request: the payload is planned, the bins are built.*)
PutPlan(w, k, d, pinned) ==
    LET shard == plan(Size[d], Limits[w])
    IN  /\ "put" \in Ops /\ Idle(w) /\ d \in Rendered[k]
        /\ shard # ConfigError
        /\ pc' = [pc EXCEPT ![w] = IF shard.nseg = 1 THEN "putmeta" ELSE "putseg"]
        /\ todo' = [todo EXCEPT ![w] = IF shard.nseg = 1 THEN {} ELSE 0 .. shard.nseg - 1]
        /\ job' = [job EXCEPT ![w] = [key |-> k, data |-> d, pin |-> pinned,
                                      nseg |-> shard.nseg]]
        /\ ret' = [ret EXCEPT ![w] = "none"]
        /\ buf' = [buf EXCEPT ![w] = NoBuf]
        /\ offered' = [offered EXCEPT ![k] = @ \cup {d}]
        /\ UNCHANGED <<store, bins, got>>

(* The planner raises AerospikeConfigError out of put.                     *)
PutRejected(w, k, d) ==
    /\ "put" \in Ops /\ Idle(w) /\ d \in Rendered[k]
    /\ plan(Size[d], Limits[w]) = ConfigError
    /\ Return(w, "error", NoBuf)
    /\ UNCHANGED <<store, offered>>

(* put is called, and goes as far as its limits let it.                    *)
PutStart(w, k, d, pinned) ==
    IF plan(Size[d], Limits[w]) = ConfigError THEN PutRejected(w, k, d)
    ELSE PutPlan(w, k, d, pinned)

(* Fault: put commits on the first acknowledgement of its batch.           *)
AfterAnySegment(w, i) == "putmeta"

(* Where put goes when segment i is acknowledged: it waits for them all.   *)
AfterSegment(w, i) == IF todo[w] = {i} THEN "putmeta" ELSE "putseg"

(* One write of the segment batch is served; after the last of them put    *)
(* goes on to the meta record.                                             *)
PutSegment(w, i) ==
    /\ pc[w] = "putseg" /\ i \in todo[w]
    /\ LET r == SegRequest(job[w].key, job[w].data,
                           plan(Size[job[w].data], Limits[w]), i, job[w].pin)
       IN  Serve(r) /\ Resent(r)
    /\ todo' = [todo EXCEPT ![w] = @ \ {i}]
    /\ pc' = [pc EXCEPT ![w] = AfterSegment(w, i)]
    /\ UNCHANGED <<job, bins, got, buf, ret, offered>>

(* The meta record is written, last (or alone, with the payload inline).   *)
PutMeta(w) ==
    /\ pc[w] = "putmeta"
    /\ \E r \in Outstanding(w) : Serve(r)
    /\ Return(w, "ok", NoBuf)
    /\ UNCHANGED <<late, offered>>

(* A request or a sub-request fails: put raises and writes nothing more.   *)
PutFails(w) ==
    /\ pc[w] \in {"putseg", "putmeta"}
    /\ HoldBack(Outstanding(w))
    /\ Return(w, "error", NoBuf)
    /\ UNCHANGED <<meta, seg, offered>>

-----------------------------------------------------------------------------
(* get                                                                     *)

(* allocate_for_read: a memory object of the shape stored in md, or of the *)
(* fixed chunk shape and then to be reshaped to the bytes read.            *)
FreshBuffer(k, m) ==
    [NoBuf EXCEPT !.whose = "fresh", !.key = k, !.refs = 1,
                  !.cap = IF SaveChunkMeta THEN Size[m.md] ELSE FullChunk,
                  !.reshape = ~SaveChunkMeta]

(* A preallocated memory object, sized by the caller for payload d.        *)
CallerBuffer(k, d) ==
    [NoBuf EXCEPT !.whose = "caller", !.key = k, !.refs = 1, !.cap = Size[d]]

(* The memory objects that get may fill for meta record m.                 *)
ReadBuffers(k, m) ==
    (IF "fresh" \in Buffers THEN {FreshBuffer(k, m)} ELSE {})
    \cup (IF "caller" \in Buffers THEN {CallerBuffer(k, d) : d \in Rendered[k]} ELSE {})

(* serde.write_payload_into at the buffer's current end.                   *)
Copy(b, f) ==
    [b EXCEPT !.of = IF f.lo = b.n /\ (b.n = 0 \/ b.of = f.data) THEN f.data ELSE NoData,
              !.n = b.n + (f.hi - f.lo),
              !.next = b.next + 1]

Overflows(b, f) == b.n + (f.hi - f.lo) > b.cap

Inline(d) == [data |-> d, lo |-> 0, hi |-> Size[d]]

(* Faults: the release is forgotten, or made twice.                        *)
ReleaseForgotten(b) == [b EXCEPT !.of = NoData, !.n = 0, !.next = 0]
ReleaseTwice(b) == [b EXCEPT !.of = NoData, !.n = 0, !.next = 0, !.refs = b.refs - 2]

(* mo.ref_count_down()                                                     *)
Release(b) == [b EXCEPT !.of = NoData, !.n = 0, !.next = 0, !.refs = b.refs - 1]

(* Fault: the checksum is compared on the single-record path only.         *)
CrcMismatchInline(w, m, b) ==
    /\ w \in CrcWorkers /\ m.crc # NoData /\ m.nseg = 1
    /\ ~(b.of = m.crc /\ b.n = Size[m.crc])

(* zlib.crc32 over the bytes read against the crc32 bin, where both the    *)
(* reader checks and the record has one.                                   *)
CrcMismatch(w, m, b) ==
    /\ w \in CrcWorkers /\ m.crc # NoData
    /\ ~(b.of = m.crc /\ b.n = Size[m.crc])

(* The tail of get once all bytes are in the buffer: the checksum, then    *)
(* _reshape of a buffer allocated for a full chunk, which may raise.       *)
FinishGet(w, m, b) ==
    \/ CrcMismatch(w, m, b) /\ Return(w, "miss", Release(b))
    \/ ~CrcMismatch(w, m, b) /\ Return(w, "hit", b)
    \/ ~CrcMismatch(w, m, b) /\ b.reshape /\ Return(w, "error", Release(b))

(* There is a record whose state bin says ready.                           *)
Ready(k) == meta[k] # Absent /\ meta[k].ready

(* No record, or one that is not ready.                                    *)
GetNoEntry(w, k) ==
    /\ "get" \in Ops /\ Idle(w)
    /\ ~Ready(k)
    /\ Return(w, "miss", NoBuf)
    /\ UNCHANGED <<store, offered>>

(* The meta read fails: a timeout counts as a miss, the rest is raised.    *)
GetMetaFails(w, k) ==
    /\ "get" \in Ops /\ Idle(w)
    /\ \E r \in {"miss", "error"} : Return(w, r, NoBuf)
    /\ UNCHANGED <<store, offered>>

(* The CPU backend has no memory: allocate_for_read returns None.          *)
GetNoBuffer(w, k) ==
    /\ "get" \in Ops /\ Idle(w) /\ "fresh" \in Buffers
    /\ Ready(k)
    /\ Return(w, "miss", NoBuf)
    /\ UNCHANGED <<store, offered>>

(* A single-record entry: the payload came with the meta record.  (With no *)
(* b bin the code returns without releasing the memory object.)            *)
GetInline(w, k) ==
    /\ "get" \in Ops /\ Idle(w)
    /\ Ready(k) /\ meta[k].nseg = 1
    /\ \E b \in ReadBuffers(k, meta[k]) :
          LET m == meta[k]
          IN  IF m.b = NoData THEN Return(w, "miss", b)
              ELSE IF Overflows(b, Inline(m.b)) THEN Return(w, "error", Release(b))
              ELSE FinishGet(w, m, Copy(b, Inline(m.b)))
    /\ UNCHANGED <<store, offered>>

(* A sharded entry: the segments are asked for in one batch_read.          *)
GetSharded(w, k) ==
    /\ "get" \in Ops /\ Idle(w)
    /\ Ready(k) /\ meta[k].nseg # 1
    /\ \E b \in ReadBuffers(k, meta[k]) : buf' = [buf EXCEPT ![w] = b]
    /\ pc' = [pc EXCEPT ![w] = "getseg"]
    /\ job' = [job EXCEPT ![w] = [NoJob EXCEPT !.key = k, !.nseg = meta[k].nseg]]
    /\ todo' = [todo EXCEPT ![w] = 0 .. meta[k].nseg - 1]
    /\ bins' = [bins EXCEPT ![w] = meta[k]]
    /\ ret' = [ret EXCEPT ![w] = "none"]
    /\ UNCHANGED <<store, got, offered>>

(* Fault: a segment that is missing is read again until it is there.       *)
ReadsLeftPolling(w, i) ==
    IF seg[job[w].key][i] = Absent THEN todo[w] ELSE todo[w] \ {i}

(* The reads of the batch still unanswered after that of segment i.        *)
ReadsLeft(w, i) == todo[w] \ {i}

(* One read of the batch is answered: the fragment, or nothing when the    *)
(* record is missing or its read failed.                                   *)
GetSegment(w, i) ==
    LET s == seg[job[w].key][i]
    IN  /\ pc[w] = "getseg" /\ i \in todo[w]
        /\ \E answer \in {Absent} \cup {t.frag : t \in {s} \ {Absent}} :
              got' = [got EXCEPT ![w][i] = answer]
        /\ todo' = [todo EXCEPT ![w] = ReadsLeft(w, i)]
        /\ pc' = [pc EXCEPT ![w] = IF ReadsLeft(w, i) = {} THEN "getcopy" ELSE @]
        /\ UNCHANGED <<store, job, bins, buf, ret, offered>>

(* batch_read itself raises: get releases the buffer and re-raises, a      *)
(* timeout like any other exception.                                       *)
GetSegmentsFail(w) ==
    /\ pc[w] = "getseg"
    /\ Return(w, "error", Release(buf[w]))
    /\ UNCHANGED <<store, offered>>

(* One turn of the loop that copies the answers, in segment order, and     *)
(* after the last of them the rest of get.                                 *)
GetCopy(w) ==
    LET f == got[w][buf[w].next]
        b == Copy(buf[w], f)
    IN  /\ pc[w] = "getcopy"
        /\ IF f = Absent THEN Return(w, "miss", Release(buf[w]))
           ELSE IF Overflows(buf[w], f) THEN Return(w, "error", Release(buf[w]))
           ELSE IF b.next = job[w].nseg THEN FinishGet(w, bins[w], b)
           ELSE /\ buf' = [buf EXCEPT ![w] = b]
                /\ UNCHANGED <<pc, job, todo, bins, got, ret>>
        /\ UNCHANGED <<store, offered>>

-----------------------------------------------------------------------------
(* exists, pin and unpin                                                   *)

(* exists and batched_contains look at the presence of the record alone.   *)
exists(k) == meta[k] # Absent

(* pin's exists(): False when the record is not there or the read timed    *)
(* out, and any other failure is raised.                                   *)
PinMiss(w, k) ==
    /\ "pin" \in Ops /\ Idle(w)
    /\ \E r \in {"false", "error"} : Return(w, r, NoBuf)
    /\ UNCHANGED <<store, offered>>

(* pin: the key exists, its record is to be marked.                        *)
PinFound(w, k) ==
    /\ "pin" \in Ops /\ Idle(w) /\ exists(k)
    /\ Start(w, k, "pinwrite", 0, {})
    /\ UNCHANGED <<store, offered>>

(* pin_keys: the write of the pin bin with the pin TTL.                    *)
PinWrite(w) ==
    /\ pc[w] = "pinwrite"
    /\ \E r \in Outstanding(w) : Serve(r) /\ Resent(r)
    /\ Return(w, "true", NoBuf)
    /\ UNCHANGED offered

(* pin_keys logs a failed write and pin reports success.                   *)
PinWriteFails(w) ==
    /\ pc[w] = "pinwrite"
    /\ HoldBack(Outstanding(w))
    /\ Return(w, "true", NoBuf)
    /\ UNCHANGED <<meta, seg, offered>>

(* unpin's touch, which finds the record or not.                           *)
UnpinTouch(w, k) ==
    /\ "unpin" \in Ops /\ Idle(w)
    /\ IF exists(k) THEN Serve(TouchRequest(k)) /\ Start(w, k, "unpinwrite", 0, {})
                    ELSE Return(w, "false", NoBuf) /\ UNCHANGED <<meta, seg>>
    /\ UNCHANGED <<late, offered>>

UnpinTouchFails(w, k) ==
    /\ "unpin" \in Ops /\ Idle(w)
    /\ HoldBack({TouchRequest(k)})
    /\ Return(w, "false", NoBuf)
    /\ UNCHANGED <<meta, seg, offered>>

(* unpin's operate(), a write that creates the record when it is gone.     *)
UnpinWrite(w) ==
    /\ pc[w] = "unpinwrite"
    /\ \E r \in Outstanding(w) : Serve(r)
    /\ Return(w, "true", NoBuf)
    /\ UNCHANGED <<late, offered>>

UnpinWriteFails(w) ==
    /\ pc[w] = "unpinwrite"
    /\ HoldBack(Outstanding(w))
    /\ Return(w, "false", NoBuf)
    /\ UNCHANGED <<meta, seg, offered>>

-----------------------------------------------------------------------------
(* remove                                                                  *)

(* The select of nseg: not found; found, with 1 for a record without the   *)
(* bin; or failed, which is logged and leaves nseg at 1.                   *)
RemoveSelect(w, k) ==
    /\ "remove" \in Ops /\ Idle(w)
    /\ \/ ~exists(k) /\ Return(w, "false", NoBuf)
       \/ exists(k) /\ Start(w, k, "removemeta",
                             IF meta[k].nseg = 0 THEN 1 ELSE meta[k].nseg, {})
       \/ Start(w, k, "removemeta", 1, {})
    /\ UNCHANGED <<store, offered>>

(* The meta record goes first, then the segments it named.                 *)
RemoveMeta(w) ==
    LET k == job[w].key
        n == job[w].nseg
    IN  /\ pc[w] = "removemeta"
        /\ IF ~exists(k) THEN Return(w, "false", NoBuf) /\ UNCHANGED <<meta, seg>>
           ELSE /\ Serve(RemoveRequest(k))
                /\ IF n > 1 THEN Start(w, k, "removeseg", n, 0 .. n - 1)
                            ELSE Return(w, "true", NoBuf)
        /\ UNCHANGED <<late, offered>>

RemoveMetaFails(w) ==
    /\ pc[w] = "removemeta"
    /\ HoldBack(Outstanding(w))
    /\ Return(w, "error", NoBuf)
    /\ UNCHANGED <<meta, seg, offered>>

RemoveSegment(w, i) ==
    /\ pc[w] = "removeseg" /\ i \in todo[w]
    /\ LET r == RemoveSegRequest(job[w].key, i) IN Serve(r) /\ Resent(r)
    /\ IF todo[w] = {i} THEN Return(w, "true", NoBuf)
       ELSE /\ todo' = [todo EXCEPT ![w] = @ \ {i}]
            /\ UNCHANGED <<pc, job, bins, got, buf, ret>>
    /\ UNCHANGED offered

(* Failed segment removes are logged and left to the TTL.                  *)
RemoveSegmentsFail(w) ==
    /\ pc[w] = "removeseg"
    /\ HoldBack(Outstanding(w))
    /\ Return(w, "true", NoBuf)
    /\ UNCHANGED <<meta, seg, offered>>

-----------------------------------------------------------------------------
(* The environment.                                                        *)

(* The process of a worker in the middle of an operation dies.             *)
Crash(w) ==
    /\ ~Idle(w)
    /\ HoldBack(Outstanding(w))
    /\ Return(w, "none", NoBuf)
    /\ UNCHANGED <<meta, seg, offered>>

(* The server gets round to a request its client gave up on.               *)
ServeLate(r) ==
    /\ r \in late
    /\ Serve(r)
    /\ late' = late \ {r}
    /\ UNCHANGED <<local, offered>>

(* Expiry or eviction takes a record with a finite TTL, each on its own.   *)
ExpireMeta(k) ==
    /\ exists(k) /\ meta[k].ttl # Never
    /\ meta' = [meta EXCEPT ![k] = Absent]
    /\ UNCHANGED <<seg, late, local, offered>>

ExpireSegment(k, i) ==
    /\ seg[k][i] # Absent /\ seg[k][i].ttl # Never
    /\ seg' = [seg EXCEPT ![k][i] = Absent]
    /\ UNCHANGED <<meta, late, local, offered>>

-----------------------------------------------------------------------------
Init == /\ meta = [k \in Keys |-> Absent]
        /\ seg = [k \in Keys |-> [i \in Indices |-> Absent]]
        /\ late = {}
        /\ pc = [w \in Workers |-> "idle"]
        /\ job = [w \in Workers |-> NoJob]
        /\ todo = [w \in Workers |-> {}]
        /\ bins = [w \in Workers |-> Absent]
        /\ got = [w \in Workers |-> NoGot]
        /\ buf = [w \in Workers |-> NoBuf]
        /\ ret = [w \in Workers |-> "none"]
        /\ offered = [k \in Keys |-> {}]

(* A worker takes up an operation.                                         *)
Begin(w, k) ==
    \/ \E d \in Payloads, pinned \in PinnedPuts : PutStart(w, k, d, pinned)
    \/ GetNoEntry(w, k) \/ GetMetaFails(w, k) \/ GetNoBuffer(w, k)
    \/ GetInline(w, k) \/ GetSharded(w, k)
    \/ PinMiss(w, k) \/ PinFound(w, k)
    \/ UnpinTouch(w, k) \/ UnpinTouchFails(w, k)
    \/ RemoveSelect(w, k)

(* A worker goes on with the operation it is in: its request is answered.  *)
Progress(w) ==
    \/ \E i \in Indices : PutSegment(w, i) \/ GetSegment(w, i) \/ RemoveSegment(w, i)
    \/ PutMeta(w) \/ GetCopy(w) \/ PinWrite(w) \/ UnpinWrite(w) \/ RemoveMeta(w)

(* The request that a worker waits for fails.                              *)
Failure(w) ==
    \/ PutFails(w) \/ GetSegmentsFail(w) \/ PinWriteFails(w)
    \/ UnpinWriteFails(w) \/ RemoveMetaFails(w) \/ RemoveSegmentsFail(w)

Environment ==
    \/ \E w \in Workers : Crash(w)
    \/ \E r \in late : ServeLate(r)
    \/ \E k \in Keys : ExpireMeta(k)
    \/ \E k \in Keys, i \in Indices : ExpireSegment(k, i)

Next == \/ \E w \in Workers, k \in Keys : Begin(w, k)
        \/ \E w \in Workers : Progress(w) \/ Failure(w)
        \/ Environment

Spec == Init /\ [][Next]_vars

-----------------------------------------------------------------------------
(* Properties.                                                             *)

(* Type correctness of the records, the requests and the workers' state.   *)
TypeOK ==
    /\ meta \in [Keys -> MetaRecord \cup {Absent}]
    /\ seg \in [Keys -> [Indices -> Segment \cup {Absent}]]
    /\ late \subseteq MetaRequests \cup SegRequests
    /\ pc \in [Workers -> PcType]
    /\ job \in [Workers -> JobType]
    /\ todo \in [Workers -> SUBSET Indices]
    /\ bins \in [Workers -> MetaRecord \cup {Absent}]
    /\ got \in [Workers -> [Indices -> Fragment \cup {Absent}]]
    /\ buf \in [Workers -> BufType]
    /\ ret \in [Workers -> Results]
    /\ offered \in [Keys -> SUBSET Payloads]

(* A get that returns a memory object returns the bytes of one payload     *)
(* that was given to put for that key, all of them, in an object of that   *)
(* length: never a mix of two writes, a truncated entry or another key's.  *)
HitIntact ==
    \A w \in Workers :
        ret[w] = "hit" =>
            LET b == buf[w]
            IN  /\ b.of \in offered[b.key]
                /\ b.n = Size[b.of]
                /\ b.reshape \/ b.cap = b.n

(* A memory object that get allocated is owned by exactly one party when   *)
(* get is over: by the caller after a hit (one reference), by nobody after *)
(* a miss or an exception (released, once).                                *)
BufferAccounted ==
    \A w \in Workers :
        Idle(w) /\ buf[w].whose = "fresh" => buf[w].refs = IF ret[w] = "hit" THEN 1 ELSE 0

(* All records of the entry that the meta record describes are there.      *)
Committed(k) ==
    /\ Ready(k)
    /\ IF meta[k].nseg = 1 THEN meta[k].b # NoData
       ELSE \A i \in 0 .. meta[k].nseg - 1 : seg[k][i] # Absent

(* exists() and contains() report only fully committed entries: what the   *)
(* order "segments first, meta record last" of put is for.                 *)
ExistsOnlyCommitted == \A k \in Keys : exists(k) => Committed(k)

(* A get that starts now and is not disturbed returns the whole payload.   *)
Readable(k) ==
    /\ Committed(k)
    /\ meta[k].nseg # 1 =>
          \A i \in 0 .. meta[k].nseg - 1 :
              LET f == seg[k][i].frag
              IN  /\ f.data = meta[k].md
                  /\ f.lo = IF i = 0 THEN 0 ELSE seg[k][i - 1].frag.hi
                  /\ i = meta[k].nseg - 1 => f.hi = Size[f.data]

(* A record of k that was there is gone.                                   *)
Vanishes(k) ==
    \/ exists(k) /\ ~exists(k)'
    \/ \E i \in Indices : seg[k][i] # Absent /\ seg'[k][i] = Absent

(* Only the loss of a record makes a readable key unreadable: storing,     *)
(* pinning and unpinning it never does, not even for the moment an         *)
(* overwrite takes, nor when the writer dies or is served late.            *)
ReadableStaysReadable ==
    [][\A k \in Keys : Readable(k) => Readable(k)' \/ Vanishes(k)]_vars

(* The payload that a buffer holds from its first to its last byte.        *)
Held(b) == IF b.of # NoData /\ b.n = Size[b.of] THEN b.of ELSE NoData

(* The engine's records as ChunkCache sees them.                           *)
Cache == INSTANCE ChunkCache WITH
    Clients <- Workers, Chunks <- Payloads, Nothing <- Absent,
    given   <- offered,
    entry   <- [k \in Keys |-> IF Readable(k) THEN meta[k].md ELSE Absent],
    answer  <- [w \in Workers |-> IF ret[w] = "hit"
                                  THEN [key |-> buf[w].key, data |-> Held(buf[w])]
                                  ELSE Absent]

(* The engine implements ChunkCache: whatever workers, failures and late   *)
(* requests do, an entry becomes readable in one step, with a payload that *)
(* was put for its key, and get returns such a payload or nothing.         *)
ImplementsCache == Cache!Spec

(* An existing meta record is a ready one: what lets batched_contains      *)
(* count records without reading their state bin.                          *)
ExistingIsReady == \A k \in Keys : exists(k) => meta[k].ready

(* Every operation that is started ends, whatever the other workers do.    *)
OperationsEnd == \A w \in Workers : ~Idle(w) ~> Idle(w)
=============================================================================
