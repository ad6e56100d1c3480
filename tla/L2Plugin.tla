------------------------------ MODULE L2Plugin ------------------------------
(***************************************************************************)
(* The multiprocess adapter: AerospikeL2Plugin's store, lookup and load    *)
(* tasks, from submission to the poll that collects their results, and its *)
(* close.                                                                  *)
(*                                                                         *)
(* A task is queued on the plugin's executor.  A store or load of more     *)
(* than chunk_size objects is cut into chunks which a second pool, the     *)
(* batch executor, works on; the task's own thread gathers their results   *)
(* as they finish.  The result goes into a dictionary and an event         *)
(* notifier wakes the caller, who consumes the event and then pops.        *)
(*                                                                         *)
(* An object is its position in the caller's list; what one engine call    *)
(* does to one object (hit, miss, failure half way) is left open here and  *)
(* is the subject of AerospikeEngine.  submit_unlock, the lock counters    *)
(* and delete() keep no task and are not part of this module.              *)
(***************************************************************************)
EXTENDS Integers, Sequences, FiniteSets

CONSTANTS Threads,       \* the executor's threads
          BatchThreads,  \* how many threads the batch executor has
          ChunkSize,     \* chunk_size of _parallel_chunks
          Requests,      \* what callers submit: a kind and a number of objects
          MaxTasks,      \* bound: tasks submitted
          None

Kinds == {"store", "lookup", "load"}
Ids   == 0 .. MaxTasks - 1

ASSUME PoolAssumption == BatchThreads \in Nat \ {0} /\ ChunkSize \in Nat \ {0}
ASSUME TasksAssumption == Requests \subseteq [kind : Kinds, n : Nat] /\ MaxTasks \in Nat
ASSUME SentinelAssumption == None \notin Requests /\ None \notin Ids

VARIABLES next_id,    \* the next task id
          task,       \* task[id]: kind and number of objects, once accepted
          work,       \* the executor's queue
          pc, cur,    \* where each executor thread is, and on which task
          chunk,      \* chunk[id][c]: the future of a chunk
          hit,        \* hit[id][c]: positions its engine call counts as done
          served,     \* served[id]: objects an engine call filled, stored or found
          jobs,       \* the batch executor's queue of <<id, chunk>>
          seen,       \* chunks a thread has gathered, in order of completion
          failed,     \* whether the task's try block raised
          result,     \* result[id]: what was recorded (kept after the pop)
          done,       \* ids in _done_store, _done_lookup and _done_load
          signalled,  \* which event notifiers are readable
          poller,     \* the caller's poll loop for each notifier
          aborted,    \* ids of the tasks that an uncaught exception ended
          stage       \* how far close() has come

queues   == <<next_id, task, work>>
threads  == <<pc, cur, seen, failed>>
chunks   == <<chunk, hit, served, jobs>>
answers  == <<result, done, signalled, poller, aborted>>
vars     == <<next_id, task, work, pc, cur, seen, failed, chunk, hit,
              served, jobs, result, done, signalled, poller, aborted, stage>>

-----------------------------------------------------------------------------
(* Chunks: items[i : i + chunk_size], numbered from 0; a list that fits    *)
(* into one is passed to the engine by the task's own thread.              *)

NChunks(n) == IF n <= ChunkSize THEN 1 ELSE (n + ChunkSize - 1) \div ChunkSize
ChunkIds   == UNION {0 .. NChunks(r.n) - 1 : r \in Requests}

(* Fault: the last chunk counted as a full one.                            *)
ChunkLenFull(n, c) == ChunkSize

ChunkLen(n, c) == IF n - c * ChunkSize < ChunkSize THEN n - c * ChunkSize ELSE ChunkSize
Positions(n, c) == 0 .. ChunkLen(n, c) - 1

Inline(id)   == task[id].n <= ChunkSize
ChunksOf(id) == 0 .. NChunks(task[id].n) - 1
Objects(id)  == 0 .. task[id].n - 1

(* Chunks the batch executor's threads are busy with.                      *)
InPool == {e \in Ids \X ChunkIds :
             /\ task[e[1]] # None /\ ~Inline(e[1])
             /\ chunk[e[1]][e[2]] = "running"}

Init ==
    /\ next_id = 0 /\ task = [id \in Ids |-> None] /\ work = <<>>
    /\ pc = [t \in Threads |-> "idle"] /\ cur = [t \in Threads |-> None]
    /\ seen = [t \in Threads |-> <<>>] /\ failed = [t \in Threads |-> FALSE]
    /\ chunk = [id \in Ids |-> [c \in ChunkIds |-> "none"]]
    /\ hit = [id \in Ids |-> [c \in ChunkIds |-> {}]]
    /\ served = [id \in Ids |-> {}] /\ jobs = <<>>
    /\ result = [id \in Ids |-> None] /\ done = {} /\ aborted = {}
    /\ signalled = [k \in Kinds |-> FALSE] /\ poller = [k \in Kinds |-> "wait"]
    /\ stage = "open"

-----------------------------------------------------------------------------
(* submit_store_task, submit_lookup_and_lock_task, submit_load_task.  The  *)
(* id is taken first; an executor that was shut down then refuses the task *)
(* and the caller gets the exception instead of an id.                     *)
Submit(r) ==
    /\ next_id < MaxTasks
    /\ next_id' = next_id + 1
    /\ \/ /\ stage \in {"open", "closing_batch"}
          /\ task' = [task EXCEPT ![next_id] = r]
          /\ work' = Append(work, next_id)
       \/ /\ stage \notin {"open", "closing_batch"}
          /\ UNCHANGED <<task, work>>
    /\ UNCHANGED <<threads, chunks, answers, stage>>

GoTo(t, label) == pc' = [pc EXCEPT ![t] = label]
LeaveTask(t) == /\ GoTo(t, "idle")
                /\ cur' = [cur EXCEPT ![t] = None]
                /\ seen' = [seen EXCEPT ![t] = <<>>]
                /\ failed' = [failed EXCEPT ![t] = FALSE]

(* A thread takes the next task.                                           *)
Start(t) ==
    /\ pc[t] = "idle" /\ work # <<>>
    /\ work' = Tail(work)
    /\ cur' = [cur EXCEPT ![t] = Head(work)]
    /\ LET id == Head(work)
       IN  \/ /\ task[id].kind = "lookup"
              /\ GoTo(t, "mask") /\ chunk' = chunk
           \/ /\ task[id].kind # "lookup" /\ Inline(id)
              /\ chunk' = [chunk EXCEPT ![id][0] = "running"]
              /\ GoTo(t, "gather")
           \/ /\ task[id].kind # "lookup" /\ ~Inline(id)
              /\ GoTo(t, "submit") /\ chunk' = chunk
    /\ UNCHANGED <<next_id, task, seen, failed, hit, served, jobs, answers, stage>>

IsNextChunk(id, c) == /\ chunk[id][c] = "none"
                      /\ \A b \in ChunksOf(id) : b < c => chunk[id][b] # "none"
HandOver(id, c) == /\ chunk' = [chunk EXCEPT ![id][c] = "queued"]
                   /\ jobs' = Append(jobs, <<id, c>>)

(* Fault: the exception of a refused chunk is not caught by the task.      *)
SubmitChunkUncaught(t) ==
    /\ pc[t] = "submit"
    /\ \/ /\ stage = "open"
          /\ \E c \in ChunksOf(cur[t]) :
               /\ IsNextChunk(cur[t], c)
               /\ HandOver(cur[t], c)
               /\ GoTo(t, IF c + 1 \in ChunksOf(cur[t]) THEN "submit" ELSE "gather")
          /\ UNCHANGED <<cur, seen, failed>>
       \/ stage # "open" /\ LeaveTask(t) /\ UNCHANGED <<chunk, jobs>>
    /\ UNCHANGED <<queues, hit, served, answers, stage>>

(* _parallel_chunks hands the next chunk to the batch executor, which      *)
(* raises RuntimeError once close() has shut it down.                      *)
SubmitChunk(t) ==
    /\ pc[t] = "submit"
    /\ \/ /\ stage = "open"
          /\ \E c \in ChunksOf(cur[t]) :
               /\ IsNextChunk(cur[t], c)
               /\ HandOver(cur[t], c)
               /\ GoTo(t, IF c + 1 \in ChunksOf(cur[t]) THEN "submit" ELSE "gather")
          /\ failed' = failed
       \/ /\ stage # "open"
          /\ failed' = [failed EXCEPT ![t] = TRUE]
          /\ GoTo(t, "record")
          /\ UNCHANGED <<chunk, jobs>>
    /\ UNCHANGED <<queues, cur, seen, hit, served, answers, stage>>

(* A thread of the batch executor takes the next chunk.                    *)
StartChunk ==
    /\ jobs # <<>> /\ Cardinality(InPool) < BatchThreads
    /\ chunk' = [chunk EXCEPT ![Head(jobs)[1]][Head(jobs)[2]] = "running"]
    /\ jobs' = Tail(jobs)
    /\ UNCHANGED <<queues, threads, hit, served, answers, stage>>

(* The engine call (batched_put, batched_get_preallocated) on one chunk    *)
(* returns which of its objects it stored or filled, or raises.            *)
EndChunk(id, c) ==
    /\ task[id] # None /\ c \in ChunksOf(id) /\ chunk[id][c] = "running"
    /\ \/ \E some \in SUBSET Positions(task[id].n, c) :
            /\ chunk' = [chunk EXCEPT ![id][c] = "done"]
            /\ hit' = [hit EXCEPT ![id][c] = some]
            /\ served' = [served EXCEPT ![id] = @ \cup {c * ChunkSize + p : p \in some}]
       \/ /\ chunk' = [chunk EXCEPT ![id][c] = "raised"]
          /\ UNCHANGED <<hit, served>>
    /\ UNCHANGED <<queues, threads, jobs, answers, stage>>

(* Fault: the first finished chunk ends the gathering.                     *)
AnyGathered(t) == TRUE

(* The chunk in hand is the last one as_completed had to yield.            *)
AllGathered(t) == Len(seen[t]) + 1 = NChunks(task[cur[t]].n)

(* as_completed yields a finished future; its result() is the chunk's list *)
(* or its exception, which ends the gathering.                             *)
Gather(t) ==
    /\ pc[t] = "gather"
    /\ \E c \in ChunksOf(cur[t]) :
         /\ \A i \in DOMAIN seen[t] : seen[t][i] # c
         /\ \/ /\ chunk[cur[t]][c] = "raised"
               /\ failed' = [failed EXCEPT ![t] = TRUE]
               /\ GoTo(t, "record") /\ seen' = seen
            \/ /\ chunk[cur[t]][c] = "done"
               /\ seen' = [seen EXCEPT ![t] = Append(@, c)]
               /\ GoTo(t, IF AllGathered(t) THEN "record" ELSE "gather")
               /\ failed' = failed
    /\ UNCHANGED <<queues, cur, chunks, answers, stage>>

(* _lookup_sync: batched_exists_mask, where an error counts as no hits,    *)
(* and pin_keys for the hits, whose errors the engine swallows.            *)
Mask(t) ==
    /\ pc[t] = "mask"
    /\ \E found \in SUBSET Objects(cur[t]) :
         /\ served' = [served EXCEPT ![cur[t]] = found]
         /\ GoTo(t, IF found = {} THEN "record" ELSE "pin")
    /\ UNCHANGED <<queues, cur, seen, failed, chunk, hit, jobs, answers, stage>>

PinHits(t) ==
    /\ pc[t] = "pin"
    /\ GoTo(t, "record")
    /\ UNCHANGED <<queues, cur, seen, failed, chunks, answers, stage>>

(* Fault: the parts are joined in the order in which they finished.        *)
AssembledAsFinished(t) ==
    LET Ahead(c) == {b \in ChunksOf(cur[t]) : \E i, j \in DOMAIN seen[t] :
                        i < j /\ seen[t][i] = b /\ seen[t][j] = c}
        Place(c) == Cardinality(UNION {{b} \X Positions(task[cur[t]].n, b) : b \in Ahead(c)})
    IN  UNION {{Place(c) + p : p \in hit[cur[t]][c]} : c \in ChunksOf(cur[t])}

(* ordered[idx] = fut.result(), joined in the order of the chunks.         *)
Assembled(t) ==
    UNION {{c * ChunkSize + p : p \in hit[cur[t]][c]} : c \in ChunksOf(cur[t])}

(* The bitmap of a lookup or load, or the objects a store counts.          *)
Bits(t) == IF task[cur[t]].kind = "lookup" THEN served[cur[t]]
           ELSE IF failed[t] THEN {}
           ELSE Assembled(t)

(* Fault: a store is successful unless its engine call raised.             *)
SuccessUnlessRaised(t) == ~failed[t]

(* ok of L2StoreResult: no exception, and every object stored.             *)
Success(t) == ~failed[t] /\ Bits(t) = Objects(cur[t])

(* Fault: the notifier is signalled before the result is in the            *)
(* dictionary (Record and Notify exchanged).                               *)
RecordAfterNotify(t) ==
    /\ pc[t] \in {"record", "notify"}
    /\ \/ /\ pc[t] = "record"
          /\ signalled' = [signalled EXCEPT ![task[cur[t]].kind] = TRUE]
          /\ GoTo(t, "notify")
          /\ UNCHANGED <<result, done, cur, seen, failed>>
       \/ /\ pc[t] = "notify"
          /\ result' = [result EXCEPT ![cur[t]] = [ok |-> Success(t), bits |-> Bits(t)]]
          /\ done' = done \cup {cur[t]}
          /\ LeaveTask(t)
          /\ signalled' = signalled
    /\ UNCHANGED <<queues, chunks, poller, aborted, stage>>

(* The result is recorded under _lock; then LMCache's listeners hear of    *)
(* the stored keys, and the event is signalled.                            *)
Report(t) ==
    /\ pc[t] \in {"record", "notify"}
    /\ \/ /\ pc[t] = "record"
          /\ result' = [result EXCEPT ![cur[t]] = [ok |-> Success(t), bits |-> Bits(t)]]
          /\ done' = done \cup {cur[t]}
          /\ GoTo(t, "notify")
          /\ UNCHANGED <<cur, seen, failed, signalled>>
       \/ /\ pc[t] = "notify"
          /\ signalled' = [signalled EXCEPT ![task[cur[t]].kind] = TRUE]
          /\ LeaveTask(t)
          /\ UNCHANGED <<result, done>>
    /\ UNCHANGED <<queues, chunks, poller, aborted, stage>>

(* A lookup, outside its only try, and a store whose listeners hear of     *)
(* stored keys: an exception of the key conversion, of pin_keys or of a    *)
(* listener is not caught here.                                            *)
Unguarded(t) ==
    \/ pc[t] \in {"mask", "pin"}
    \/ /\ pc[t] = "notify" /\ task[cur[t]].kind = "store"
       /\ Success(t) /\ Bits(t) # {}

(* It ends the task without a result, or without an event for it; only the *)
(* future, at which nobody looks, knows.                                   *)
Abort(t) ==
    /\ Unguarded(t)
    /\ LeaveTask(t)
    /\ aborted' = aborted \cup {cur[t]}
    /\ UNCHANGED <<queues, chunks, result, done, signalled, poller, stage>>

-----------------------------------------------------------------------------
(* The caller's poll loop: consume the event, then pop_completed_store_    *)
(* tasks, or query_..._result for every task it waits for.                 *)
Wake(k) ==
    /\ stage # "closed"
    /\ poller[k] = "wait" /\ signalled[k]
    /\ signalled' = [signalled EXCEPT ![k] = FALSE]
    /\ poller' = [poller EXCEPT ![k] = "pop"]
    /\ UNCHANGED <<queues, threads, chunks, result, done, aborted, stage>>

Pop(k) ==
    /\ poller[k] = "pop"
    /\ done' = {id \in done : task[id].kind # k}
    /\ poller' = [poller EXCEPT ![k] = "wait"]
    /\ UNCHANGED <<queues, threads, chunks, result, signalled, aborted, stage>>

(* Fault: shutdown(wait=False) on the batch executor.                      *)
BatchDrainedAtOnce == TRUE

(* shutdown(wait=True) returns when every submitted job has run.           *)
BatchDrained == jobs = <<>> /\ InPool = {}
Drained == work = <<>> /\ \A t \in Threads : pc[t] = "idle"

(* close(): shut down the batch executor, then the executor, release the   *)
(* client, close the notifiers.                                            *)
BeginClose ==
    /\ stage = "open" /\ stage' = "closing_batch"
    /\ UNCHANGED <<queues, threads, chunks, answers>>

Close ==
    /\ \/ stage = "closing_batch" /\ BatchDrained /\ stage' = "closing"
       \/ stage = "closing" /\ Drained /\ stage' = "released"
       \/ stage = "released" /\ stage' = "closed"
    /\ UNCHANGED <<queues, threads, chunks, answers>>

(* A closed plugin does nothing more.                                      *)
Stopped == stage = "closed" /\ UNCHANGED vars

ThreadStep(t) == \/ Start(t) \/ SubmitChunk(t) \/ Gather(t)
                 \/ Mask(t) \/ PinHits(t) \/ Report(t) \/ Abort(t)
PollStep(k) == Wake(k) \/ Pop(k)

Next == \/ \E r \in Requests : Submit(r)
        \/ \E t \in Threads : ThreadStep(t)
        \/ StartChunk
        \/ \E id \in Ids, c \in ChunkIds : EndChunk(id, c)
        \/ \E k \in Kinds : PollStep(k)
        \/ BeginClose \/ Close \/ Stopped

(* Threads are scheduled, and an engine call ends: every client request    *)
(* has a total_timeout.  The caller keeps polling.                         *)
Fairness == /\ \A t \in Threads : WF_vars(ThreadStep(t))
            /\ WF_vars(StartChunk)
            /\ \A id \in Ids, c \in ChunkIds : WF_vars(EndChunk(id, c))
            /\ \A k \in Kinds : WF_vars(PollStep(k))
            /\ WF_vars(Close)

Spec == Init /\ [][Next]_vars /\ Fairness

-----------------------------------------------------------------------------
(* The shape of the state; a reported bit is a bit of the caller's list.   *)
TypeOK ==
    /\ next_id \in 0 .. MaxTasks
    /\ task \in [Ids -> Requests \cup {None}]
    /\ work \in Seq(Ids) /\ jobs \in Seq(Ids \X ChunkIds)
    /\ pc \in [Threads -> {"idle", "submit", "gather", "mask", "pin", "record", "notify"}]
    /\ cur \in [Threads -> Ids \cup {None}]
    /\ seen \in [Threads -> Seq(ChunkIds)] /\ failed \in [Threads -> BOOLEAN]
    /\ chunk \in [Ids -> [ChunkIds -> {"none", "queued", "running", "done", "raised"}]]
    /\ \A id \in Ids, c \in ChunkIds :
         hit[id][c] \subseteq 0 .. ChunkSize - 1
    /\ \A id \in Ids :
         \/ result[id] = None
         \/ result[id].ok \in BOOLEAN /\ result[id].bits \subseteq Objects(id)
    /\ done \subseteq Ids /\ aborted \subseteq Ids
    /\ signalled \in [Kinds -> BOOLEAN] /\ poller \in [Kinds -> {"wait", "pop"}]
    /\ stage \in {"open", "closing_batch", "closing", "released", "closed"}

(* A bit set in the bitmap of a load, and an object a store counts as      *)
(* stored, is one the engine really filled or wrote, at that place of the  *)
(* caller's list, whatever order the chunks finished in; a store reported  *)
(* successful has written all of them (_parallel_chunks, _store_sync,      *)
(* _load_sync).                                                            *)
ReportsAreTrue ==
    \A id \in Ids : result[id] # None =>
        /\ result[id].bits \subseteq served[id]
        /\ task[id].kind = "store" /\ result[id].ok => served[id] = Objects(id)

(* Once a task has reported a hit no chunk of it is queued or running: no  *)
(* thread writes to a buffer the caller was told is filled, nor reads one  *)
(* the caller was told is stored and may reuse (_parallel_chunks).         *)
HitsAreSettled ==
    \A id \in Ids : result[id] # None /\ result[id].bits # {} =>
        \A c \in ChunkIds : chunk[id][c] \notin {"queued", "running"}

(* When close() has released the client and closes the notifiers, no       *)
(* thread of either pool is at work or has work left, chunks of tasks that *)
(* failed and were reported before included (close).                       *)
NoUseAfterRelease ==
    stage \in {"released", "closed"} =>
        /\ work = <<>> /\ jobs = <<>>
        /\ \A t \in Threads : pc[t] = "idle"
        /\ \A id \in Ids, c \in ChunkIds : chunk[id][c] \notin {"queued", "running"}

(* Every accepted task ends with a recorded result, also when close() runs *)
(* while it is queued or half way and whatever its engine calls raise      *)
(* (_store_sync, _lookup_sync, _load_sync); the one exception is a lookup  *)
(* whose key conversion or listener raises.                                *)
AcceptedIsRecorded ==
    \A id \in Ids : task[id] # None ~>
        (result[id] # None \/ (id \in aborted /\ task[id].kind = "lookup"))

(* The caller's poll loop gets the result of every accepted task, unless   *)
(* the plugin is closed first or a listener raised: no wake-up is lost     *)
(* between the dictionary and the notifier.                                *)
ResultsArrive ==
    \A id \in Ids : task[id] # None ~>
        ((result[id] # None /\ id \notin done) \/ stage # "open" \/ id \in aborted)

=============================================================================
