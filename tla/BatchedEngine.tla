--------------------------- MODULE BatchedEngine ---------------------------
(***************************************************************************)
(* AerospikeStorageEngine's batched_put and batched_get_preallocated, made *)
(* of the requests and the operations of AerospikeEngine: single-record    *)
(* entries travel in one batch per chunk of the list, and for sharded ones *)
(* the loop calls put or get, key by key.  A worker of Batchers runs such  *)
(* lists, the other workers single operations on the same records.         *)
(***************************************************************************)
EXTENDS AerospikeEngine, Sequences

CONSTANTS Batchers,
          Batches,    \* lists of items [key, data] the callers pass
          ChunkKeys   \* _BATCH_KEYS_CHUNK

ASSUME BatchersAssumption ==
    Batchers \subseteq Workers /\ Buffers = {"caller"} /\ FALSE \in PinnedPuts
(* (An empty list is returned at once.)                                    *)
ASSUME BatchesAssumption ==
    /\ ChunkKeys \in Nat \ {0}
    /\ Batches \subseteq Seq([key : Keys, data : Payloads]) \ {<<>>}
    /\ \A items \in Batches : \A i \in DOMAIN items : items[i].data \in Rendered[items[i].key]

VARIABLE batch   \* batch[w]: the list in work
                 \*   kind, items    the call and its list
                 \*   phase          "chunk" (a chunk is next), "loop", "put",
                 \*                  "write", "read", "get", or one of Over
                 \*   offset, at     items before the chunk, the item in work
                 \*   todo, multi    items of the batch not yet answered, items
                 \*                  left for the loop over get
                 \*   flags          the list of booleans that is returned
                 \*   done, filled   items whose put was acknowledged, what each
                 \*                  caller's buffer holds

bvars == <<vars, batch>>

Over == {"none", "returned", "raised"}

Batch(kind, items, phase) ==
    [kind |-> kind, items |-> items, phase |-> phase, offset |-> 0, at |-> 1,
     todo |-> {}, multi |-> {}, done |-> {},
     flags |-> IF kind = "put" THEN <<>> ELSE [i \in DOMAIN items |-> FALSE],
     filled |-> [i \in DOMAIN items |-> NoData]]

NoBatch == Batch("put", <<>>, "none")

KeyOf(w, i)  == batch[w].items[i].key
DataOf(w, i) == batch[w].items[i].data
PlanOf(w, i) == plan(Size[DataOf(w, i)], Limits[w])

(* items[offset : offset + chunk_size]                                     *)
ChunkEnd(w) == Least(batch[w].offset + ChunkKeys, Len(batch[w].items))
Chunk(w) == batch[w].offset + 1 .. ChunkEnd(w)

Update(w, b) == batch' = [batch EXCEPT ![w] = b]
End(w, how)  == Update(w, [batch[w] EXCEPT !.phase = how])

-----------------------------------------------------------------------------
BeginBatch(w, kind, items) ==
    /\ batch[w].phase \in Over /\ Idle(w)
    /\ Update(w, Batch(kind, items, "chunk"))
    /\ offered' = IF kind = "get" THEN offered
                  ELSE [k \in Keys |-> offered[k] \cup
                          {items[i].data : i \in {j \in DOMAIN items : items[j].key = k}}]
    /\ UNCHANGED <<store, local>>

(* The next chunk: all items are planned (an exception of the planner ends *)
(* the call), and one sharded item sends them all through the loop.        *)
OpenChunk(w) ==
    /\ batch[w].phase = "chunk"
    /\ Update(w, [batch[w] EXCEPT
          !.at = batch[w].offset + 1, !.todo = Chunk(w),
          !.phase = IF batch[w].kind = "get" THEN "read"
                    ELSE IF \E i \in Chunk(w) : PlanOf(w, i) = ConfigError THEN "raised"
                    ELSE IF \E i \in Chunk(w) : PlanOf(w, i).nseg > 1 THEN "loop"
                    ELSE "write"])
    /\ UNCHANGED vars

(* After the last item of a chunk: the flags of a batch_write are listed,  *)
(* and the next chunk or the caller follows.                               *)
CloseChunk(w) ==
    LET b == batch[w]
    IN  /\ \/ b.phase = "loop" /\ b.at \notin Chunk(w)
           \/ b.phase \in {"write", "read"} /\ b.todo = {} /\ b.multi = {}
        /\ Update(w, [b EXCEPT
              !.offset = ChunkEnd(w),
              !.flags = IF b.phase = "write"
                        THEN @ \o [j \in 1 .. ChunkEnd(w) - b.offset |-> b.offset + j \in b.done]
                        ELSE @,
              !.phase = IF ChunkEnd(w) = Len(b.items) THEN "returned" ELSE "chunk"])
        /\ UNCHANGED vars

-----------------------------------------------------------------------------
(* batched_put, the loop over put.                                         *)
CallPut(w) ==
    /\ batch[w].phase = "loop" /\ batch[w].at \in Chunk(w)
    /\ PutPlan(w, KeyOf(w, batch[w].at), DataOf(w, batch[w].at), FALSE)
    /\ End(w, "put")

(* Fault: a put that failed is passed over without a flag.                 *)
FlagsAfterFailureDropped(b) == b.flags

FlagsAfterFailure(b) == Append(b.flags, FALSE)

(* put returned; or it raised one of the errors the loop turns into False; *)
(* or another (a timeout, a lost connection), which ends the call.         *)
AfterPut(w) ==
    LET b == batch[w]
    IN  /\ b.phase = "put" /\ Idle(w)
        /\ \/ /\ ret[w] = "ok"
              /\ Update(w, [b EXCEPT !.phase = "loop", !.at = @ + 1,
                                     !.flags = Append(@, TRUE), !.done = @ \cup {b.at}])
           \/ /\ ret[w] = "error"
              /\ Update(w, [b EXCEPT !.phase = "loop", !.at = @ + 1,
                                     !.flags = FlagsAfterFailure(b)])
           \/ ret[w] = "error" /\ End(w, "raised")
        /\ UNCHANGED vars

(* batched_put, the batch_write of a chunk of single records: each write   *)
(* is served or fails on its own, or the whole call raises.                *)
BatchWrite(w, i) == PutRequest(KeyOf(w, i), DataOf(w, i), 1, w \in CrcWorkers, FALSE)

WriteItem(w, i) ==
    /\ batch[w].phase = "write" /\ i \in batch[w].todo
    /\ \/ /\ Serve(BatchWrite(w, i)) /\ Resent(BatchWrite(w, i))
          /\ Update(w, [batch[w] EXCEPT !.todo = @ \ {i}, !.done = @ \cup {i}])
       \/ /\ HoldBack({BatchWrite(w, i)}) /\ UNCHANGED <<meta, seg>>
          /\ Update(w, [batch[w] EXCEPT !.todo = @ \ {i}])
    /\ UNCHANGED <<local, offered>>

WriteFails(w) ==
    /\ batch[w].phase = "write" /\ batch[w].todo # {}
    /\ HoldBack({BatchWrite(w, i) : i \in batch[w].todo})
    /\ End(w, "raised")
    /\ UNCHANGED <<meta, seg, local, offered>>

-----------------------------------------------------------------------------
(* Fault: the flags of every chunk are written from the front.             *)
PlaceInChunk(b, i) == i - b.offset

(* offset + j: the place of the chunk's item in the list of flags.         *)
Place(b, i) == i

(* batched_get_preallocated, the batch_read of a chunk's meta records: an  *)
(* inline payload goes to the caller's buffer, a sharded entry to the      *)
(* loop; no record, one that is not ready, an oversized payload and a      *)
(* checksum mismatch leave the flag down.                                  *)
ReadItem(w, i) ==
    LET b == batch[w]
        k == KeyOf(w, i)
        m == meta[k]
        into == CallerBuffer(k, DataOf(w, i))
        copy == Copy(into, Inline(m.b))
    IN  /\ b.phase = "read" /\ i \in b.todo
        /\ \/ Update(w, [b EXCEPT !.todo = @ \ {i}])
           \/ /\ Ready(k) /\ m.nseg # 1
              /\ Update(w, [b EXCEPT !.todo = @ \ {i}, !.multi = @ \cup {i}])
           \/ /\ Ready(k) /\ m.nseg = 1 /\ m.b # NoData
              /\ ~Overflows(into, Inline(m.b)) /\ ~CrcMismatch(w, m, copy)
              /\ Update(w, [b EXCEPT !.todo = @ \ {i}, !.filled[i] = Held(copy),
                                     !.flags[Place(b, i)] = TRUE])
        /\ UNCHANGED vars

(* batch_read raises: a timeout returns the flags as they are.             *)
ReadFails(w) ==
    /\ batch[w].phase = "read" /\ batch[w].todo # {}
    /\ \E how \in {"returned", "raised"} : End(w, how)
    /\ UNCHANGED vars

(* The loop over get, with the caller's buffer, in the order of the list.  *)
CallGet(w) ==
    /\ batch[w].phase = "read" /\ batch[w].todo = {}
    /\ \E i \in batch[w].multi :
          LET k == KeyOf(w, i)
          IN  /\ \A j \in batch[w].multi : i <= j
              /\ GetNoEntry(w, k) \/ GetMetaFails(w, k) \/ GetInline(w, k) \/ GetSharded(w, k)
              /\ Update(w, [batch[w] EXCEPT !.phase = "get", !.at = i])

(* Fault: an entry that get does not find is asked for again.              *)
LeftToGetRetry(w) == IF ret[w] = "miss" THEN batch[w].multi ELSE batch[w].multi \ {batch[w].at}

LeftToGet(w) == batch[w].multi \ {batch[w].at}

(* get returned the buffer, or None; or it raised: a timeout of its        *)
(* batch_read, which returns the flags, or anything else, which is raised. *)
AfterGet(w) ==
    LET b == batch[w]
    IN  /\ b.phase = "get" /\ Idle(w)
        /\ \/ /\ ret[w] = "hit"
              /\ Update(w, [b EXCEPT !.phase = "read", !.multi = LeftToGet(w),
                                     !.flags[b.at] = TRUE, !.filled[b.at] = Held(buf[w])])
           \/ ret[w] = "miss" /\ Update(w, [b EXCEPT !.phase = "read", !.multi = LeftToGet(w)])
           \/ ret[w] = "error" /\ \E how \in {"returned", "raised"} : End(w, how)
        /\ UNCHANGED vars

-----------------------------------------------------------------------------
BatchStep(w) ==
    \/ OpenChunk(w) \/ CloseChunk(w)
    \/ CallPut(w) \/ AfterPut(w) \/ CallGet(w) \/ AfterGet(w)
    \/ \E i \in DOMAIN batch[w].items : WriteItem(w, i) \/ ReadItem(w, i)
    \/ Progress(w) /\ UNCHANGED batch

BatchTrouble(w) ==
    \/ WriteFails(w) \/ ReadFails(w)
    \/ Failure(w) /\ UNCHANGED batch
    \/ Crash(w) /\ Update(w, NoBatch)

BInit == Init /\ batch = [w \in Batchers |-> NoBatch]

BNext ==
    \/ \E w \in Batchers, kind \in {"put", "get"}, items \in Batches : BeginBatch(w, kind, items)
    \/ \E w \in Batchers : BatchStep(w) \/ BatchTrouble(w)
    \/ \E w \in Workers \ Batchers :
          /\ (\E k \in Keys : Begin(w, k)) \/ Progress(w) \/ Failure(w) \/ Crash(w)
          /\ UNCHANGED batch
    \/ (\/ \E r \in late : ServeLate(r)
        \/ \E k \in Keys : ExpireMeta(k)
        \/ \E k \in Keys, i \in Indices : ExpireSegment(k, i)) /\ UNCHANGED batch

(* Every request is answered or ends by the policies' total_timeout, and   *)
(* the thread that issued it goes on.                                      *)
BSpec == /\ BInit /\ [][BNext]_bvars
         /\ \A w \in Batchers : WF_bvars(BatchStep(w))
         /\ \A w \in Workers \ Batchers : WF_bvars(Progress(w) /\ UNCHANGED batch)

-----------------------------------------------------------------------------
(* A flag that batched_get_preallocated raised stands for a buffer at the  *)
(* same place of the list that holds, whole, a payload put for that key,   *)
(* whatever was read from which chunk, and also when a timeout cut the     *)
(* call short.                                                             *)
FlaggedIsFilled ==
    \A w \in Batchers : batch[w].kind = "get" =>
        \A i \in DOMAIN batch[w].flags : batch[w].flags[i] =>
            batch[w].filled[i] \in offered[KeyOf(w, i)]

(* batched_put returns one flag per item, in order, and it is up exactly   *)
(* when that item's last write was acknowledged, through batches and loop. *)
FlagsTellWhatIsStored ==
    \A w \in Batchers : batch[w].kind = "put" /\ batch[w].phase = "returned" =>
        /\ DOMAIN batch[w].flags = DOMAIN batch[w].items
        /\ \A i \in DOMAIN batch[w].items : batch[w].flags[i] <=> i \in batch[w].done

(* Every batched call ends, whatever other workers do to its records.      *)
BatchesEnd == \A w \in Batchers : batch[w].phase \notin Over ~> batch[w].phase \in Over
=============================================================================
