---------------------------- MODULE NativeEngine ----------------------------
(***************************************************************************)
(* The native (C++) connector on the records of the Python engine: some    *)
(* workers are threads of an AerospikeNativeConnector, which reads and     *)
(* writes the same meta and segment records with a planner of its own, one *)
(* request after the other and no retries of writes.                       *)
(*                                                                         *)
(* Native entries carry no md and no crc32 bin, so the engines that share  *)
(* them run without save_chunk_meta; the field md of a meta record stands  *)
(* for its tot_b and seg_b bins here.                                      *)
(***************************************************************************)
EXTENDS AerospikeEngine
LOCAL INSTANCE FiniteSetsExt

CONSTANTS Native,             \* the workers of the native connector
          BufferLengths,      \* lengths of the buffers that reads come with
          SafetyMargin,       \* kSafetyMarginBytes
          DefaultRecordCap    \* kDefaultRecordCapBytes

ASSUME NativeAssumption ==
    Native \subseteq Workers /\ BufferLengths \subseteq Nat /\ ~SaveChunkMeta

(* discover_record_cap: the first of two fields of the namespace's info    *)
(* that is a positive number.  (A value that is no number makes the        *)
(* constructor throw, and there is no connector.)                          *)
discover_record_cap(info) ==
    IF info.max_record_size > 0 THEN info.max_record_size
    ELSE IF info.write_block_size > 0 THEN info.write_block_size
    ELSE DefaultRecordCap

(* The limits the constructor derives; 0 stands for an option not given.   *)
(* (With a cap within the margin it throws, and there is no connector.)    *)
NativeLimits(max_record_bytes, target_segment_bytes, info) ==
    LET cap == IF max_record_bytes = 0 THEN discover_record_cap(info) ELSE max_record_bytes
        max == cap - SafetyMargin
        target == IF target_segment_bytes = 0 THEN max ELSE Least(target_segment_bytes, max)
    IN  [target |-> target, max |-> max, min |-> 0, single |-> target]

(* Fault: segments of the target size, the last one shorter.               *)
NativePlanUnbalanced(bytes, lim) ==
    IF bytes <= lim.target THEN [nseg |-> 1, seg_b |-> bytes]
    ELSE [nseg |-> CeilDiv(bytes, lim.target), seg_b |-> lim.target]

(* plan().  Its exception is out of reach: target <= max.                  *)
NativePlan(bytes, lim) ==
    IF bytes <= lim.target THEN [nseg |-> 1, seg_b |-> bytes] ELSE Balanced(bytes, lim.target)

-----------------------------------------------------------------------------
Current(w) == Min(todo[w])

(* The write that native worker w is blocked in.                           *)
Sent(w) ==
    LET k == job[w].key
        d == job[w].data
    IN  CASE pc[w] = "native_segment" ->
                 SegRequest(k, d, NativePlan(Size[d], Limits[w]), Current(w), FALSE)
          [] pc[w] = "native_meta" -> PutRequest(k, d, job[w].nseg, FALSE, FALSE)
          [] pc[w] = "native_delete" -> RemoveRequest(k)
          [] pc[w] = "native_delseg" -> RemoveSegRequest(k, Current(w))

Writing == {"native_segment", "native_meta", "native_delete", "native_delseg"}

(* The current request of a loop is over; next is where the loop leads.    *)
StepOver(w, next) ==
    /\ todo' = [todo EXCEPT ![w] = @ \ {Current(w)}]
    /\ pc' = [pc EXCEPT ![w] = IF todo[w] = {Current(w)} THEN next ELSE @]

-----------------------------------------------------------------------------
(* do_single_set: the segments one by one, the meta record last.           *)
NativeSet(w, k, d) ==
    LET shard == NativePlan(Size[d], Limits[w])
    IN  /\ "put" \in Ops /\ Idle(w) /\ d \in Rendered[k]
        /\ pc' = [pc EXCEPT ![w] = IF shard.nseg = 1 THEN "native_meta" ELSE "native_segment"]
        /\ todo' = [todo EXCEPT ![w] = IF shard.nseg = 1 THEN {} ELSE 0 .. shard.nseg - 1]
        /\ job' = [job EXCEPT ![w] = [key |-> k, data |-> d, pin |-> FALSE,
                                      nseg |-> shard.nseg]]
        /\ ret' = [ret EXCEPT ![w] = "none"]
        /\ buf' = [buf EXCEPT ![w] = NoBuf]
        /\ offered' = [offered EXCEPT ![k] = @ \cup {d}]
        /\ UNCHANGED <<store, bins, got>>

NativeSetSegment(w) ==
    /\ pc[w] = "native_segment"
    /\ Serve(Sent(w))
    /\ StepOver(w, "native_meta")
    /\ UNCHANGED <<late, job, bins, got, buf, ret, offered>>

NativeSetMeta(w) ==
    /\ pc[w] = "native_meta"
    /\ Serve(Sent(w))
    /\ Return(w, "ok", NoBuf)
    /\ UNCHANGED <<late, offered>>

-----------------------------------------------------------------------------
(* Fault: the buffer is taken to be as long as the entry.                  *)
LengthAssumed(m, len) == TRUE

(* tot_b against the length of the caller's buffer.                        *)
LengthAgrees(m, len) == Size[m.md] = len

(* do_single_get up to its first segment, into a buffer of len bytes: a    *)
(* record that is missing, not ready or of another length is an exception. *)
NativeGet(w, k, len) ==
    LET m == meta[k]
        b == [NoBuf EXCEPT !.whose = "caller", !.key = k, !.refs = 1, !.cap = len]
        valid == Ready(k) /\ LengthAgrees(m, len)
    IN  /\ "get" \in Ops /\ Idle(w)
        /\ \/ /\ valid /\ m.nseg = 1 /\ m.b # NoData /\ Size[m.b] = len
              /\ Return(w, "hit", Copy(b, Inline(m.b)))
           \/ /\ valid /\ m.nseg > 1
              /\ pc' = [pc EXCEPT ![w] = "native_get"]
              /\ todo' = [todo EXCEPT ![w] = 0 .. m.nseg - 1]
              /\ job' = [job EXCEPT ![w] = [NoJob EXCEPT !.key = k, !.nseg = m.nseg]]
              /\ bins' = [bins EXCEPT ![w] = m]
              /\ buf' = [buf EXCEPT ![w] = b]
              /\ ret' = [ret EXCEPT ![w] = "none"]
              /\ UNCHANGED got
           \/ Return(w, "error", NoBuf)
        /\ UNCHANGED <<store, offered>>

(* read_payload_record: the segment is there and has the bytes expected of *)
(* it, or get throws.                                                      *)
NativeGetSegment(w) ==
    LET s == seg[job[w].key][Current(w)]
        m == bins[w]
        want == Least(CeilDiv(Size[m.md], m.nseg), buf[w].cap - buf[w].n)
    IN  /\ pc[w] = "native_get"
        /\ \/ /\ s # Absent /\ s.frag.hi - s.frag.lo = want
              /\ IF todo[w] = {Current(w)} THEN Return(w, "hit", Copy(buf[w], s.frag))
                 ELSE /\ buf' = [buf EXCEPT ![w] = Copy(@, s.frag)]
                      /\ StepOver(w, "native_get")
                      /\ UNCHANGED <<job, bins, got, ret>>
           \/ Return(w, "error", NoBuf)
        /\ UNCHANGED <<store, offered>>

-----------------------------------------------------------------------------
(* do_single_delete: nseg is read, the meta record removed, then segments  *)
(* 0 .. nseg - 1, whatever becomes of each.                                *)
NativeDelete(w, k) ==
    /\ "remove" \in Ops /\ Idle(w)
    /\ \/ ~exists(k) /\ Return(w, "false", NoBuf)
       \/ Return(w, "error", NoBuf)
       \/ exists(k) /\ Start(w, k, "native_delete",
                             IF meta[k].nseg = 0 THEN 1 ELSE meta[k].nseg, {})
    /\ UNCHANGED <<store, offered>>

NativeDeleteMeta(w) ==
    LET k == job[w].key
        n == job[w].nseg
    IN  /\ pc[w] = "native_delete"
        /\ IF ~exists(k) THEN Return(w, "false", NoBuf) /\ UNCHANGED <<meta, seg>>
           ELSE Serve(Sent(w)) /\ Start(w, k, "native_delseg", n, 0 .. n - 1)
        /\ UNCHANGED <<late, offered>>

NativeDeleteSegment(w) ==
    /\ pc[w] = "native_delseg"
    /\ \/ Serve(Sent(w)) /\ UNCHANGED late
       \/ HoldBack({Sent(w)}) /\ UNCHANGED <<meta, seg>>
    /\ IF todo[w] = {Current(w)} THEN Return(w, "true", NoBuf)
       ELSE StepOver(w, "native_delseg") /\ UNCHANGED <<job, bins, got, buf, ret>>
    /\ UNCHANGED offered

-----------------------------------------------------------------------------
(* A write of set or of delete fails and the operation throws.             *)
NativeWriteFails(w) ==
    /\ pc[w] \in Writing \ {"native_delseg"}
    /\ HoldBack({Sent(w)})
    /\ Return(w, "error", NoBuf)
    /\ UNCHANGED <<meta, seg, offered>>

(* The process of a native worker dies.                                    *)
NativeCrash(w) ==
    /\ ~Idle(w)
    /\ IF pc[w] \in Writing THEN HoldBack({Sent(w)}) ELSE UNCHANGED late
    /\ Return(w, "none", NoBuf)
    /\ UNCHANGED <<meta, seg, offered>>

NativeStep(w) ==
    \/ \E k \in Keys, d \in Payloads : NativeSet(w, k, d)
    \/ \E k \in Keys, len \in BufferLengths : NativeGet(w, k, len)
    \/ \E k \in Keys : NativeDelete(w, k)
    \/ NativeSetSegment(w) \/ NativeSetMeta(w) \/ NativeGetSegment(w)
    \/ NativeDeleteMeta(w) \/ NativeDeleteSegment(w)
    \/ NativeWriteFails(w) \/ NativeCrash(w)

PythonStep(w) == (\E k \in Keys : Begin(w, k)) \/ Progress(w) \/ Failure(w) \/ Crash(w)

SharedNext ==
    \/ \E w \in Native : NativeStep(w)
    \/ \E w \in Workers \ Native : PythonStep(w)
    \/ \E r \in late : ServeLate(r)
    \/ \E k \in Keys : ExpireMeta(k)
    \/ \E k \in Keys, i \in Indices : ExpireSegment(k, i)

SharedSpec == Init /\ [][SharedNext]_vars
=============================================================================
