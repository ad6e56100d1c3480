--------------------------- MODULE L2PluginProofs ---------------------------
(***************************************************************************)
(* What L2Plugin guarantees for every number of threads, tasks, objects    *)
(* and every chunk size.                                                   *)
(***************************************************************************)
EXTENDS L2Plugin, FiniteSetTheorems, TLAPS

-----------------------------------------------------------------------------
(* The inductive invariant.                                                *)

ChunkStates == {"none", "queued", "running", "done", "raised"}

Shape ==
    /\ next_id \in Nat
    /\ task \in [Ids -> Requests \cup {None}]
    /\ \A id \in Ids : id >= next_id => task[id] = None
    /\ work \in Seq(Ids) /\ jobs \in Seq(Ids \X ChunkIds)
    /\ pc \in [Threads -> {"idle", "submit", "gather", "mask", "pin", "record", "notify"}]
    /\ cur \in [Threads -> Ids \cup {None}]
    /\ chunk \in [Ids -> [ChunkIds -> ChunkStates]]
    /\ stage \in {"open", "closing_batch", "closing", "released", "closed"}

(* Whatever is queued or in hand is an accepted task; chunks are handed to *)
(* the batch executor only for tasks that do not fit into one.             *)
WorkOK == \A i \in 1 .. Len(work) : task[work[i]] # None
CurOK  == \A t \in Threads : pc[t] # "idle" =>
             /\ cur[t] \in Ids /\ task[cur[t]] # None
             /\ pc[t] = "submit" => ~Inline(cur[t])
JobsOK == \A i \in 1 .. Len(jobs), id \in Ids, c \in ChunkIds :
             jobs[i] = <<id, c>> => task[id] # None /\ ~Inline(id)

(* A queued chunk is in the batch executor's queue.                        *)
QueuedOK == \A id \in Ids, c \in ChunkIds : chunk[id][c] = "queued" =>
               \E i \in 1 .. Len(jobs) : jobs[i] = <<id, c>>

(* A running chunk is run by the batch executor, or it is the only chunk   *)
(* of a task whose own thread runs it.                                     *)
RunningOK == \A id \in Ids, c \in ChunkIds : chunk[id][c] = "running" =>
                /\ task[id] # None
                /\ Inline(id) => /\ c = 0
                                 /\ \E t \in Threads : cur[t] = id /\ pc[t] = "gather"

(* What close() has waited for stays done.                                 *)
StageOK ==
    /\ stage \in {"closing", "released", "closed"} => BatchDrained
    /\ stage \in {"released", "closed"} => Drained

CloseInv == Shape /\ WorkOK /\ CurOK /\ JobsOK /\ QueuedOK /\ RunningOK /\ StageOK

-----------------------------------------------------------------------------
(* The chunks of a task are among ChunkIds.                                *)
LEMMA ChunksKnown ==
    ASSUME NEW id \in Ids, task \in [Ids -> Requests \cup {None}], task[id] # None
    PROVE  /\ ChunksOf(id) \subseteq ChunkIds
           /\ task[id] \in Requests
           /\ Inline(id) => ChunksOf(id) = {0}
<1>1. task[id] \in Requests
  OBVIOUS
<1>2. ChunksOf(id) \subseteq ChunkIds
  BY <1>1 DEF ChunksOf, ChunkIds
<1>3. Inline(id) => ChunksOf(id) = {0}
  BY DEF Inline, ChunksOf, NChunks
<1> QED
  BY <1>1, <1>2, <1>3

(* What changing one chunk's state leaves alone.                           *)
LEMMA ChunkUpdate ==
    ASSUME NEW id \in Ids, NEW c \in ChunkIds, NEW v \in ChunkStates,
           chunk \in [Ids -> [ChunkIds -> ChunkStates]],
           chunk' = [chunk EXCEPT ![id][c] = v]
    PROVE  /\ chunk' \in [Ids -> [ChunkIds -> ChunkStates]]
           /\ chunk'[id][c] = v
           /\ \A x \in Ids, d \in ChunkIds :
                x # id \/ d # c => chunk'[x][d] = chunk[x][d]
  OBVIOUS

LEMMA InitCloseInv == Init => CloseInv
<1> SUFFICES ASSUME Init PROVE CloseInv
  OBVIOUS
<1> USE DEF Init
<1>1. Shape
  BY TasksAssumption DEF Shape, ChunkStates
<1>2. WorkOK /\ CurOK /\ JobsOK
  BY DEF WorkOK, CurOK, JobsOK
<1>3. QueuedOK /\ RunningOK
  BY DEF QueuedOK, RunningOK
<1>4. StageOK
  BY DEF StageOK
<1> QED
  BY <1>1, <1>2, <1>3, <1>4 DEF CloseInv

(* A new task disturbs nothing that speaks of older ones.                  *)
LEMMA SubmitCloseInv ==
    ASSUME CloseInv, NEW r \in Requests, Submit(r)
    PROVE  CloseInv'
<1> USE DEF CloseInv, Submit, threads, chunks, answers
<1>a. next_id \in Ids /\ task[next_id] = None
  BY TasksAssumption DEF Shape, Ids
<1>b. \A id \in Ids : task[id] # None => task'[id] = task[id] /\ Inline(id)' = Inline(id)
  BY <1>a DEF Shape, Inline
<1>c. r # None
  BY SentinelAssumption
<1>d. work' \in Seq(Ids) /\ task' \in [Ids -> Requests \cup {None}]
  <2>1. work' \in Seq(Ids)
    <3>1. Append(work, next_id) \in Seq(Ids)
      BY <1>a DEF Shape
    <3> QED
      BY <3>1 DEF Shape
  <2>2. [task EXCEPT ![next_id] = r] \in [Ids -> Requests \cup {None}]
    BY <1>a DEF Shape
  <2> QED
    BY <2>1, <2>2 DEF Shape
<1>e. \A id \in Ids : id >= next_id' => task'[id] = None
  <2> SUFFICES ASSUME NEW id \in Ids, id >= next_id' PROVE task'[id] = None
    OBVIOUS
  <2>1. id >= next_id /\ id # next_id
    BY TasksAssumption DEF Shape, Ids
  <2> QED
    BY <2>1, <1>a DEF Shape
<1>1. Shape'
  BY <1>d, <1>e DEF Shape
<1>2. WorkOK'
  <2>1. CASE work' = Append(work, next_id) /\ task'[next_id] = r
    <3> SUFFICES ASSUME NEW i \in 1 .. Len(work') PROVE task'[work'[i]] # None
      BY DEF WorkOK
    <3>1. CASE i \in 1 .. Len(work)
      BY <2>1, <3>1, <1>b DEF WorkOK, Shape
    <3>2. CASE i = Len(work) + 1
      BY <2>1, <3>2, <1>c DEF Shape
    <3> QED
      BY <2>1, <3>1, <3>2 DEF Shape
  <2>2. CASE UNCHANGED <<work, task>>
    BY <2>2 DEF WorkOK
  <2> QED
    BY <2>1, <2>2, <1>a DEF Shape
<1>3. CurOK'
  BY <1>b DEF CurOK, Shape
<1>4. JobsOK'
  BY <1>b DEF JobsOK, Shape
<1>5. QueuedOK'
  BY DEF QueuedOK
<1>6. RunningOK'
  BY <1>b DEF RunningOK, Shape
<1>7. StageOK'
  <2>1. BatchDrained => BatchDrained'
    BY <1>b DEF BatchDrained, InPool, RunningOK, Shape
  <2>2. stage \in {"released", "closed"} => UNCHANGED <<work, pc>>
    OBVIOUS
  <2> QED
    BY <2>1, <2>2 DEF StageOK, Drained
<1> QED
  BY <1>1, <1>2, <1>3, <1>4, <1>5, <1>6, <1>7

(* Taking a task starts at most its single inline chunk.                   *)
LEMMA StartCloseInv ==
    ASSUME CloseInv, NEW t \in Threads, Start(t)
    PROVE  CloseInv'
<1> USE DEF CloseInv, answers
<1> DEFINE id == Head(work)
<1>a. id \in Ids /\ task[id] # None /\ work' = Tail(work) /\ work # <<>>
  BY DEF Start, Shape, WorkOK
<1>b. Inline(id) => ChunksOf(id) = {0} /\ 0 \in ChunkIds
  BY <1>a, ChunksKnown DEF Shape
<1>c. UNCHANGED <<next_id, task, jobs, stage>> /\ cur' = [cur EXCEPT ![t] = id]
  BY DEF Start
<1>d. \/ chunk' = chunk
      \/ /\ Inline(id) /\ chunk' = [chunk EXCEPT ![id][0] = "running"]
         /\ pc' = [pc EXCEPT ![t] = "gather"]
  BY DEF Start, GoTo
<1>e. \E l \in {"mask", "gather", "submit"} :
         pc' = [pc EXCEPT ![t] = l] /\ (l = "submit" => ~Inline(id))
  BY DEF Start, GoTo
<1>f. \A x \in Ids : Inline(x)' = Inline(x)
  BY <1>c DEF Inline
<1>g. pc[t] = "idle"
  BY DEF Start
<1>h. /\ chunk' \in [Ids -> [ChunkIds -> ChunkStates]]
      /\ \A x \in Ids, d \in ChunkIds : chunk'[x][d] = "queued" => chunk[x][d] = "queued"
  <2>1. CASE chunk' = chunk
    BY <2>1 DEF Shape
  <2>2. CASE Inline(id) /\ chunk' = [chunk EXCEPT ![id][0] = "running"]
    <3>1. 0 \in ChunkIds /\ "running" \in ChunkStates
      BY <2>2, <1>b DEF ChunkStates
    <3> HIDE DEF id
    <3>2. /\ chunk' \in [Ids -> [ChunkIds -> ChunkStates]]
          /\ chunk'[id][0] = "running"
          /\ \A x \in Ids, d \in ChunkIds :
               x # id \/ d # 0 => chunk'[x][d] = chunk[x][d]
      BY <2>2, <3>1, <1>a, ChunkUpdate DEF Shape
    <3> QED
      BY <3>2
  <2> QED
    BY <2>1, <2>2, <1>d
<1>1. Shape'
  BY <1>a, <1>c, <1>e, <1>h DEF Shape
<1>2. WorkOK'
  BY <1>a, <1>c DEF WorkOK, Shape
<1>3. CurOK'
  BY <1>a, <1>c, <1>e, <1>f DEF CurOK, Shape
<1>4. JobsOK'
  BY <1>c, <1>f DEF JobsOK
<1>5. QueuedOK'
  BY <1>c, <1>h DEF QueuedOK
<1>6. RunningOK'
  <2> SUFFICES ASSUME NEW x \in Ids, NEW c \in ChunkIds, chunk'[x][c] = "running"
               PROVE  /\ task'[x] # None
                      /\ Inline(x)' => /\ c = 0
                                       /\ \E u \in Threads : cur'[u] = x /\ pc'[u] = "gather"
    BY DEF RunningOK
  <2>1. CASE chunk[x][c] = "running"
    <3>1. \A u \in Threads : pc[u] = "gather" => u # t /\ cur'[u] = cur[u] /\ pc'[u] = pc[u]
      BY <1>c, <1>e, <1>g DEF Shape
    <3> QED
      BY <2>1, <3>1, <1>c, <1>f DEF RunningOK
  <2>2. CASE chunk[x][c] # "running"
    <3>1. x = id /\ c = 0 /\ pc'[t] = "gather" /\ cur'[t] = id
      BY <2>2, <1>a, <1>c, <1>d DEF Shape
    <3> QED
      BY <3>1, <1>a, <1>c
  <2> QED
    BY <2>1, <2>2
<1>7. StageOK'
  <2>1. InPool' = InPool
    BY <1>a, <1>c, <1>d, <1>f DEF InPool, Shape
  <2>2. stage \notin {"released", "closed"}
    BY <1>a DEF StageOK, Drained
  <2> QED
    BY <2>1, <2>2, <1>c DEF StageOK, BatchDrained
<1> QED
  BY <1>1, <1>2, <1>3, <1>4, <1>5, <1>6, <1>7

(* The batch executor takes chunks only while it is open.                  *)
LEMMA SubmitChunkCloseInv ==
    ASSUME CloseInv, NEW t \in Threads, SubmitChunk(t)
    PROVE  CloseInv'
<1> USE DEF CloseInv, queues, answers
<1>a. /\ UNCHANGED <<next_id, task, work, cur, stage>>
      /\ pc[t] = "submit" /\ cur[t] \in Ids /\ task[cur[t]] # None /\ ~Inline(cur[t])
  BY DEF SubmitChunk, CurOK
<1>b. \A x \in Ids : Inline(x)' = Inline(x)
  BY <1>a DEF Inline
<1>c. \E l \in {"submit", "gather", "record"} : pc' = [pc EXCEPT ![t] = l]
  BY DEF SubmitChunk, GoTo
<1>d. \/ UNCHANGED <<chunk, jobs>>
      \/ /\ stage = "open"
         /\ \E c \in ChunkIds : /\ chunk' = [chunk EXCEPT ![cur[t]][c] = "queued"]
                                /\ jobs' = Append(jobs, <<cur[t], c>>)
  BY <1>a, ChunksKnown DEF SubmitChunk, HandOver, Shape
<1>e. \A u \in Threads : pc[u] = "gather" => pc'[u] = "gather"
  BY <1>a, <1>c DEF Shape
<1>f. /\ chunk' \in [Ids -> [ChunkIds -> ChunkStates]]
      /\ \A x \in Ids, d \in ChunkIds : chunk'[x][d] = "running" => chunk[x][d] = "running"
  <2>1. CASE UNCHANGED <<chunk, jobs>>
    BY <2>1 DEF Shape
  <2>2. CASE \E c \in ChunkIds : chunk' = [chunk EXCEPT ![cur[t]][c] = "queued"]
    <3>1. PICK c \in ChunkIds : chunk' = [chunk EXCEPT ![cur[t]][c] = "queued"]
      BY <2>2
    <3>2. "queued" \in ChunkStates
      BY DEF ChunkStates
    <3>3. /\ chunk' \in [Ids -> [ChunkIds -> ChunkStates]]
          /\ chunk'[cur[t]][c] = "queued"
          /\ \A x \in Ids, d \in ChunkIds :
               x # cur[t] \/ d # c => chunk'[x][d] = chunk[x][d]
      BY <3>1, <3>2, <1>a, ChunkUpdate DEF Shape
    <3> QED
      BY <3>3
  <2> QED
    BY <2>1, <2>2, <1>d
<1>g. jobs' \in Seq(Ids \X ChunkIds)
  <2>1. \A c \in ChunkIds : Append(jobs, <<cur[t], c>>) \in Seq(Ids \X ChunkIds)
    BY <1>a DEF Shape
  <2> QED
    BY <2>1, <1>d DEF Shape
<1>1. Shape'
  BY <1>a, <1>c, <1>f, <1>g DEF Shape
<1>2. WorkOK'
  BY <1>a DEF WorkOK
<1>3. CurOK'
  BY <1>a, <1>b, <1>c DEF CurOK, Shape
<1>4. JobsOK'
  <2>1. CASE UNCHANGED jobs
    BY <2>1, <1>a, <1>b DEF JobsOK
  <2>2. CASE \E c \in ChunkIds : jobs' = Append(jobs, <<cur[t], c>>)
    <3> SUFFICES ASSUME NEW i \in 1 .. Len(jobs'), NEW x \in Ids, NEW d \in ChunkIds,
                        jobs'[i] = <<x, d>>
                 PROVE  task[x] # None /\ ~Inline(x)
      BY <1>a, <1>b DEF JobsOK
    <3>1. CASE i \in 1 .. Len(jobs)
      <4>1. jobs[i] = <<x, d>>
        BY <2>2, <3>1 DEF Shape
      <4> QED
        BY <3>1, <4>1 DEF JobsOK
    <3>2. CASE i = Len(jobs) + 1
      <4>1. x = cur[t]
        BY <2>2, <3>2 DEF Shape
      <4> QED
        BY <4>1, <1>a
    <3> QED
      BY <2>2, <3>1, <3>2 DEF Shape
  <2> QED
    BY <2>1, <2>2, <1>d
<1>5. QueuedOK'
  <2>1. CASE UNCHANGED <<chunk, jobs>>
    BY <2>1 DEF QueuedOK
  <2>2. CASE ~UNCHANGED <<chunk, jobs>>
    <3>1. PICK c \in ChunkIds : /\ chunk' = [chunk EXCEPT ![cur[t]][c] = "queued"]
                                /\ jobs' = Append(jobs, <<cur[t], c>>)
      BY <2>2, <1>d
    <3> SUFFICES ASSUME NEW x \in Ids, NEW d \in ChunkIds, chunk'[x][d] = "queued"
                 PROVE  \E i \in 1 .. Len(jobs') : jobs'[i] = <<x, d>>
      BY DEF QueuedOK
    <3>2. CASE x = cur[t] /\ d = c
      <4>1. Len(jobs) + 1 \in 1 .. Len(jobs') /\ jobs'[Len(jobs) + 1] = <<cur[t], c>>
        BY <3>1 DEF Shape
      <4> QED
        BY <4>1, <3>2
    <3>3. CASE x # cur[t] \/ d # c
      <4>1. chunk[x][d] = "queued"
        BY <3>1, <3>3, <1>a, ChunkUpdate DEF Shape, ChunkStates
      <4>2. PICK i \in 1 .. Len(jobs) : jobs[i] = <<x, d>>
        BY <4>1 DEF QueuedOK
      <4>3. i \in 1 .. Len(jobs') /\ jobs'[i] = jobs[i]
        BY <3>1 DEF Shape
      <4> QED
        BY <4>2, <4>3
    <3> QED
      BY <3>2, <3>3
  <2> QED
    BY <2>1, <2>2
<1>6. RunningOK'
  BY <1>a, <1>b, <1>e, <1>f DEF RunningOK
<1>7. StageOK'
  <2>1. stage # "open" => InPool' = InPool /\ jobs' = jobs
    BY <1>a, <1>b, <1>d DEF InPool
  <2>2. stage \notin {"released", "closed"}
    BY <1>a DEF StageOK, Drained
  <2> QED
    BY <2>1, <2>2, <1>a DEF StageOK, BatchDrained
<1> QED
  BY <1>1, <1>2, <1>3, <1>4, <1>5, <1>6, <1>7

LEMMA StartChunkCloseInv ==
    ASSUME CloseInv, StartChunk
    PROVE  CloseInv'
<1> USE DEF CloseInv, queues, threads, answers
<1> DEFINE id == Head(jobs)[1]
           c  == Head(jobs)[2]
<1>a. /\ UNCHANGED <<next_id, task, work, pc, cur, stage>>
      /\ jobs # <<>> /\ jobs' = Tail(jobs)
      /\ chunk' = [chunk EXCEPT ![id][c] = "running"]
  BY DEF StartChunk
<1>b. \A x \in Ids : Inline(x)' = Inline(x)
  BY <1>a DEF Inline
<1>c. id \in Ids /\ c \in ChunkIds /\ Head(jobs) = <<id, c>> /\ task[id] # None /\ ~Inline(id)
  <2>1. Head(jobs) \in Ids \X ChunkIds /\ 1 \in 1 .. Len(jobs) /\ Head(jobs) = jobs[1]
    BY <1>a DEF Shape
  <2>2. id \in Ids /\ c \in ChunkIds /\ Head(jobs) = <<id, c>>
    BY <2>1
  <2> QED
    BY <2>1, <2>2 DEF JobsOK
<1>d. "running" \in ChunkStates
  BY DEF ChunkStates
<1>e. chunk' \in [Ids -> [ChunkIds -> ChunkStates]]
  <2> HIDE DEF id, c
  <2> QED
    BY <1>a, <1>c, <1>d, ChunkUpdate DEF Shape
<1>f. jobs' \in Seq(Ids \X ChunkIds)
  BY <1>a DEF Shape
<1>1. Shape'
  BY <1>a, <1>e, <1>f DEF Shape
<1>2. WorkOK' /\ CurOK'
  BY <1>a, <1>b DEF WorkOK, CurOK
<1>3. JobsOK'
  <2>1. \A i \in 1 .. Len(jobs') : i + 1 \in 1 .. Len(jobs) /\ jobs'[i] = jobs[i + 1]
    BY <1>a DEF Shape
  <2> QED
    BY <2>1, <1>a, <1>b DEF JobsOK
<1>4. QueuedOK'
  <2> SUFFICES ASSUME NEW x \in Ids, NEW d \in ChunkIds, chunk'[x][d] = "queued"
               PROVE  \E i \in 1 .. Len(jobs') : jobs'[i] = <<x, d>>
    BY DEF QueuedOK
  <2>1. chunk[x][d] = "queued" /\ <<x, d>> # Head(jobs)
    BY <1>a, <1>c DEF Shape
  <2>2. PICK i \in 1 .. Len(jobs) : jobs[i] = <<x, d>>
    BY <2>1 DEF QueuedOK
  <2>3. i # 1 /\ i - 1 \in 1 .. Len(jobs') /\ jobs'[i - 1] = jobs[i]
    BY <2>1, <2>2, <1>a DEF Shape
  <2> QED
    BY <2>2, <2>3
<1>5. RunningOK'
  BY <1>a, <1>b, <1>c DEF RunningOK, Shape
<1>6. StageOK'
  BY <1>a DEF StageOK, BatchDrained
<1> QED
  BY <1>1, <1>2, <1>3, <1>4, <1>5, <1>6

LEMMA EndChunkCloseInv ==
    ASSUME CloseInv, NEW id \in Ids, NEW c \in ChunkIds, EndChunk(id, c)
    PROVE  CloseInv'
<1> USE DEF CloseInv, queues, threads, answers
<1>a. /\ UNCHANGED <<next_id, task, work, pc, cur, stage, jobs>>
      /\ \E s \in {"done", "raised"} : chunk' = [chunk EXCEPT ![id][c] = s]
  BY DEF EndChunk
<1>b. \A x \in Ids : Inline(x)' = Inline(x)
  BY <1>a DEF Inline
<1>c. \A s \in {"done", "raised"} : s \in ChunkStates
  BY DEF ChunkStates
<1>d. chunk' \in [Ids -> [ChunkIds -> ChunkStates]]
  BY <1>a, <1>c, ChunkUpdate DEF Shape
<1>1. Shape'
  BY <1>a, <1>d DEF Shape
<1>2. WorkOK' /\ CurOK' /\ JobsOK'
  BY <1>a, <1>b DEF WorkOK, CurOK, JobsOK
<1>3. QueuedOK'
  <2>1. \A x \in Ids, d \in ChunkIds : chunk'[x][d] = "queued" => chunk[x][d] = "queued"
    BY <1>a, ChunkUpdate DEF Shape, ChunkStates
  <2> QED
    BY <2>1, <1>a DEF QueuedOK
<1>4. RunningOK'
  BY <1>a, <1>b DEF RunningOK, Shape
<1>5. StageOK'
  <2>1. InPool' \subseteq InPool
    BY <1>a, <1>b DEF InPool, Shape
  <2> QED
    BY <2>1, <1>a DEF StageOK, BatchDrained, Drained
<1> QED
  BY <1>1, <1>2, <1>3, <1>4, <1>5

(* A thread leaves its inline chunk only when the chunk has ended.         *)
LEMMA GatherCloseInv ==
    ASSUME CloseInv, NEW t \in Threads, Gather(t)
    PROVE  CloseInv'
<1> USE DEF CloseInv, queues, chunks, answers
<1>a. /\ UNCHANGED <<next_id, task, work, cur, stage, jobs, chunk>>
      /\ pc[t] = "gather" /\ cur[t] \in Ids /\ task[cur[t]] # None
      /\ \E l \in {"gather", "record"} : pc' = [pc EXCEPT ![t] = l]
  BY DEF Gather, GoTo, CurOK
<1>b. \A x \in Ids : Inline(x)' = Inline(x)
  BY <1>a DEF Inline
<1>c. Inline(cur[t]) => chunk[cur[t]][0] \in {"done", "raised"}
  BY <1>a, ChunksKnown DEF Gather, Shape
<1>1. Shape'
  BY <1>a DEF Shape
<1>2. WorkOK' /\ JobsOK'
  BY <1>a, <1>b DEF WorkOK, JobsOK
<1>q. QueuedOK'
  BY <1>a DEF QueuedOK
<1>3. CurOK'
  BY <1>a, <1>b DEF CurOK, Shape
<1>4. RunningOK'
  <2> SUFFICES ASSUME NEW x \in Ids, NEW c \in ChunkIds, chunk[x][c] = "running", Inline(x)
               PROVE  c = 0 /\ \E u \in Threads : cur'[u] = x /\ pc'[u] = "gather"
    BY <1>a, <1>b DEF RunningOK
  <2>1. PICK u \in Threads : c = 0 /\ cur[u] = x /\ pc[u] = "gather"
    BY DEF RunningOK
  <2>2. u # t
    BY <2>1, <1>c
  <2> QED
    BY <2>1, <2>2, <1>a DEF Shape
<1>5. StageOK'
  <2>1. stage \notin {"released", "closed"}
    BY <1>a DEF StageOK, Drained
  <2>2. InPool' = InPool
    BY <1>a, <1>b DEF InPool
  <2> QED
    BY <2>1, <2>2, <1>a DEF StageOK, BatchDrained
<1> QED
  BY <1>1, <1>2, <1>q, <1>3, <1>4, <1>5

(* The steps of a lookup, the report and its failure run no chunk.         *)
LEMMA OtherThreadStepCloseInv ==
    ASSUME CloseInv, NEW t \in Threads, Mask(t) \/ PinHits(t) \/ Report(t) \/ Abort(t)
    PROVE  CloseInv'
<1> USE DEF CloseInv, queues, chunks, answers
<1>a. /\ UNCHANGED <<next_id, task, work, stage, jobs, chunk>>
      /\ pc[t] \notin {"idle", "gather"}
      /\ \/ cur' = cur /\ \E l \in {"pin", "record", "notify"} : pc' = [pc EXCEPT ![t] = l]
         \/ pc' = [pc EXCEPT ![t] = "idle"] /\ cur' = [cur EXCEPT ![t] = None]
  BY DEF Mask, PinHits, Report, Abort, Unguarded, GoTo, LeaveTask
<1>b. \A x \in Ids : Inline(x)' = Inline(x)
  BY <1>a DEF Inline
<1>1. Shape'
  BY <1>a DEF Shape
<1>2. WorkOK' /\ JobsOK'
  BY <1>a, <1>b DEF WorkOK, JobsOK
<1>q. QueuedOK'
  BY <1>a DEF QueuedOK
<1>3. CurOK'
  BY <1>a, <1>b DEF CurOK, Shape
<1>4. RunningOK'
  <2>1. \A u \in Threads : pc[u] = "gather" => pc'[u] = pc[u] /\ cur'[u] = cur[u]
    BY <1>a DEF Shape
  <2> QED
    BY <2>1, <1>a, <1>b DEF RunningOK
<1>5. StageOK'
  <2>1. stage \notin {"released", "closed"}
    BY <1>a DEF StageOK, Drained
  <2>2. InPool' = InPool
    BY <1>a, <1>b DEF InPool
  <2> QED
    BY <2>1, <2>2, <1>a DEF StageOK, BatchDrained
<1> QED
  BY <1>1, <1>2, <1>q, <1>3, <1>4, <1>5

(* Polling and close change nothing but the answers and the stage.         *)
LEMMA CallerStepCloseInv ==
    ASSUME CloseInv,
           \/ \E k \in Kinds : PollStep(k)
           \/ BeginClose \/ Close \/ UNCHANGED vars
    PROVE  CloseInv'
<1> USE DEF CloseInv
<1>a. UNCHANGED <<next_id, task, work, pc, cur, chunk, jobs>>
  BY DEF PollStep, Wake, Pop, BeginClose, Close, vars, queues, threads, chunks
<1>b. \A x \in Ids : Inline(x)' = Inline(x)
  BY <1>a DEF Inline
<1>c. \/ stage' = stage
      \/ stage' = "closing_batch"
      \/ stage' = "closing" /\ BatchDrained
      \/ stage' = "released" /\ stage = "closing" /\ Drained
      \/ stage' = "closed" /\ stage = "released"
  BY DEF PollStep, Wake, Pop, BeginClose, Close, vars
<1>1. Shape'
  BY <1>a, <1>c DEF Shape
<1>2. WorkOK' /\ CurOK' /\ JobsOK'
  BY <1>a, <1>b DEF WorkOK, CurOK, JobsOK
<1>3. QueuedOK' /\ RunningOK'
  BY <1>a, <1>b DEF QueuedOK, RunningOK
<1>4. StageOK'
  <2>1. BatchDrained' = BatchDrained /\ Drained' = Drained
    BY <1>a, <1>b DEF BatchDrained, Drained, InPool
  <2> QED
    BY <2>1, <1>c DEF StageOK
<1> QED
  BY <1>1, <1>2, <1>3, <1>4

LEMMA NextCloseInv == CloseInv /\ [Next]_vars => CloseInv'
<1> SUFFICES ASSUME CloseInv, [Next]_vars PROVE CloseInv'
  OBVIOUS
<1>1. CASE \E r \in Requests : Submit(r)
  BY <1>1, SubmitCloseInv
<1>2. CASE \E t \in Threads : ThreadStep(t)
  BY <1>2, StartCloseInv, SubmitChunkCloseInv, GatherCloseInv, OtherThreadStepCloseInv
     DEF ThreadStep
<1>3. CASE StartChunk
  BY <1>3, StartChunkCloseInv
<1>4. CASE \E id \in Ids, c \in ChunkIds : EndChunk(id, c)
  BY <1>4, EndChunkCloseInv
<1>5. CASE (\E k \in Kinds : PollStep(k)) \/ BeginClose \/ Close \/ UNCHANGED vars
  BY <1>5, CallerStepCloseInv
<1> QED
  BY <1>1, <1>2, <1>3, <1>4, <1>5 DEF Next, Stopped

(* After close() has released the client no thread of either pool is at    *)
(* work: AerospikeL2Plugin.close waits for both executors, and nothing     *)
(* that was accepted before or refused meanwhile starts afterwards.        *)
THEOREM ReleasedIsQuiet == Spec => []NoUseAfterRelease
<1>1. CloseInv => NoUseAfterRelease
  <2> SUFFICES ASSUME CloseInv, stage \in {"released", "closed"},
                      NEW id \in Ids, NEW c \in ChunkIds
               PROVE  /\ work = <<>> /\ jobs = <<>>
                      /\ \A t \in Threads : pc[t] = "idle"
                      /\ chunk[id][c] \notin {"queued", "running"}
    BY DEF NoUseAfterRelease, CloseInv, StageOK, Drained, BatchDrained
  <2>1. Drained /\ BatchDrained
    BY DEF CloseInv, StageOK
  <2>2. chunk[id][c] # "queued"
    BY <2>1 DEF CloseInv, QueuedOK, BatchDrained
  <2>3. chunk[id][c] # "running"
    <3> SUFFICES ASSUME chunk[id][c] = "running" PROVE FALSE
      OBVIOUS
    <3>1. task[id] # None /\ ~Inline(id)
      BY <2>1 DEF CloseInv, RunningOK, Drained
    <3>2. <<id, c>> \in InPool
      BY <3>1 DEF InPool
    <3> QED
      BY <2>1, <3>2 DEF BatchDrained
  <2> QED
    BY <2>1, <2>2, <2>3 DEF Drained, BatchDrained
<1> QED
  BY InitCloseInv, NextCloseInv, <1>1, PTL DEF Spec

-----------------------------------------------------------------------------
(* What the reports rest on.  The rest of the type invariant:              *)
AnswerTypes ==
    /\ next_id <= MaxTasks
    /\ seen \in [Threads -> Seq(ChunkIds)] /\ failed \in [Threads -> BOOLEAN]
    /\ hit \in [Ids -> [ChunkIds -> SUBSET (0 .. ChunkSize - 1)]]
    /\ served \in [Ids -> SUBSET Nat]
    /\ DOMAIN result = Ids /\ done \subseteq Ids /\ aborted \subseteq Ids
    /\ signalled \in [Kinds -> BOOLEAN] /\ poller \in [Kinds -> {"wait", "pop"}]

(* A task is queued at most once, or held by one thread.                   *)
HeldOnce ==
    /\ \A i, j \in 1 .. Len(work) : work[i] = work[j] => i = j
    /\ \A t \in Threads, i \in 1 .. Len(work) : pc[t] # "idle" => work[i] # cur[t]
    /\ \A t, u \in Threads : pc[t] # "idle" /\ pc[u] # "idle" /\ cur[t] = cur[u] => t = u

(* It has no result before its thread records one.                         *)
NoResultYet ==
    /\ \A i \in 1 .. Len(work) : result[work[i]] = None
    /\ \A t \in Threads : pc[t] \notin {"idle", "notify"} => result[cur[t]] = None
    /\ \A id \in Ids : task[id] = None => result[id] = None

(* Only the chunks of a store or load leave the state "none".              *)
ChunksOwned ==
    \A id \in Ids, c \in ChunkIds : chunk[id][c] # "none" =>
        task[id] # None /\ task[id].kind # "lookup" /\ c \in ChunksOf(id)

(* An entry of the batch executor's queue is there once, and queued.       *)
JobsQueued ==
    /\ \A i, j \in 1 .. Len(jobs) : jobs[i] = jobs[j] => i = j
    /\ \A i \in 1 .. Len(jobs), id \in Ids, c \in ChunkIds :
         jobs[i] = <<id, c>> => chunk[id][c] = "queued"

(* Which steps belong to which kind of task.                               *)
StepKinds ==
    \A t \in Threads :
        /\ pc[t] \in {"submit", "gather"} => task[cur[t]].kind # "lookup"
        /\ pc[t] \in {"mask", "pin"} => task[cur[t]].kind = "lookup"
        /\ pc[t] \in {"idle", "submit"} => seen[t] = <<>>

(* What a thread has gathered are different chunks of its task, finished   *)
(* and none raised; at the end they are all of them.                       *)
SeenDone(t) ==
    /\ \A i, j \in 1 .. Len(seen[t]) : seen[t][i] = seen[t][j] => i = j
    /\ \A i \in 1 .. Len(seen[t]) : /\ seen[t][i] \in ChunksOf(cur[t])
                                    /\ chunk[cur[t]][seen[t][i]] = "done"
AllDone(id) == \A c \in ChunksOf(id) : chunk[id][c] = "done"
GatheredOK ==
    \A t \in Threads :
        /\ pc[t] = "gather" => SeenDone(t)
        /\ pc[t] = "record" /\ ~failed[t] /\ task[cur[t]].kind # "lookup" => AllDone(cur[t])

(* What a chunk's call counts as done was served, at its place.            *)
ServedOK ==
    \A id \in Ids :
        /\ served[id] # {} => task[id] # None /\ served[id] \subseteq Objects(id)
        /\ \A c \in ChunkIds : hit[id][c] # {} =>
             /\ task[id] # None /\ task[id].kind # "lookup"
             /\ \A p \in hit[id][c] : c * ChunkSize + p \in served[id]

(* A recorded result is about a list of the caller's length.               *)
ResultsInRange ==
    \A id \in Ids : result[id] # None =>
        result[id].ok \in BOOLEAN /\ result[id].bits \subseteq Objects(id)

ReportInv == /\ AnswerTypes /\ HeldOnce /\ NoResultYet /\ ChunksOwned /\ JobsQueued
             /\ StepKinds /\ GatheredOK /\ ServedOK
             /\ ResultsInRange /\ ReportsAreTrue /\ HitsAreSettled
-----------------------------------------------------------------------------
(* As many different chunks as there are, are all of them.                 *)
LEMMA AllAreSeen ==
    ASSUME NEW S, NEW s \in Seq(S), Len(s) \in Nat,
           \A i, j \in 1 .. Len(s) : s[i] = s[j] => i = j,
           \A i \in 1 .. Len(s) : s[i] \in 0 .. Len(s) - 1
    PROVE  \A c \in 0 .. Len(s) - 1 : \E i \in 1 .. Len(s) : s[i] = c
<1> DEFINE N == Len(s)
<1>1. s \in Injection(1 .. N, 0 .. N - 1)
  BY DEF Injection, IsInjective
<1>0. N \in Nat /\ 0 \in Int /\ 1 \in Int /\ N \in Int /\ N - 1 \in Int
  OBVIOUS
<1>2. /\ IsFiniteSet(0 .. N - 1)
      /\ Cardinality(1 .. N) = N /\ Cardinality(0 .. N - 1) = N
  <2> HIDE DEF N
  <2>1. /\ IsFiniteSet(0 .. N - 1)
        /\ Cardinality(0 .. N - 1) = IF 0 > N - 1 THEN 0 ELSE (N - 1) - 0 + 1
    BY <1>0, FS_Interval
  <2>2. Cardinality(1 .. N) = IF 1 > N THEN 0 ELSE N - 1 + 1
    BY <1>0, FS_Interval
  <2> QED
    BY <1>0, <2>1, <2>2
<1>3. s \in Surjection(1 .. N, 0 .. N - 1)
  BY <1>1, <1>2, FS_Injection
<1> QED
  BY <1>3 DEF Surjection

(* A place of a chunk is a place of the list.                              *)
LEMMA PlaceInList ==
    ASSUME NEW n \in Nat, NEW c \in Nat, NEW p \in Positions(n, c)
    PROVE  p \in 0 .. ChunkSize - 1 /\ c * ChunkSize + p \in 0 .. n - 1
<1>1. ChunkSize \in Nat /\ c * ChunkSize \in Nat
  BY PoolAssumption
<1> HIDE DEF Positions
<1>2. p \in Nat /\ p < ChunkLen(n, c)
  BY <1>1 DEF Positions, ChunkLen
<1>3. ChunkLen(n, c) <= ChunkSize /\ ChunkLen(n, c) <= n - c * ChunkSize
  BY <1>1 DEF ChunkLen
<1>4. ChunkLen(n, c) \in Int
  BY <1>1 DEF ChunkLen
<1> QED
  BY <1>1, <1>2, <1>3, <1>4

(* The chunks of an accepted task are numbered from 0.                     *)
LEMMA ChunkNumbers ==
    ASSUME NEW id \in Ids, task \in [Ids -> Requests \cup {None}], task[id] # None
    PROVE  /\ NChunks(task[id].n) \in Nat \ {0}
           /\ ChunksOf(id) = 0 .. NChunks(task[id].n) - 1
           /\ task[id].n \in Nat /\ task[id].kind \in Kinds
<1>1. task[id] \in [kind : Kinds, n : Nat]
  BY TasksAssumption
<1>2. task[id].n \in Nat /\ task[id].kind \in Kinds
  BY <1>1
<1> DEFINE n == task[id].n
<1> HIDE DEF n
<1>3. n \in Nat
  BY <1>2 DEF n
<1>4. NChunks(n) \in Nat \ {0}
  <2>1. CASE n <= ChunkSize
    BY <2>1, <1>3, PoolAssumption DEF NChunks
  <2>2. CASE ~(n <= ChunkSize)
    <3>1. NChunks(n) = (n + ChunkSize - 1) \div ChunkSize
      BY <2>2 DEF NChunks
    <3>2. n + ChunkSize - 1 \in Nat /\ n + ChunkSize - 1 >= ChunkSize
      BY <2>2, <1>3, PoolAssumption
    <3>3. \A a \in Nat : a >= ChunkSize => a \div ChunkSize \in Nat \ {0}
      BY PoolAssumption
    <3> QED
      BY <3>1, <3>2, <3>3
  <2> QED
    BY <2>1, <2>2
<1> QED
  BY <1>2, <1>4 DEF n, ChunksOf

LEMMA ChunkIdsNat == ChunkIds \subseteq Nat
<1> SUFFICES ASSUME NEW c \in ChunkIds PROVE c \in Nat
  OBVIOUS
<1>1. PICK r \in Requests : c \in 0 .. NChunks(r.n) - 1
  BY DEF ChunkIds
<1> QED
  BY <1>1

LEMMA InitReportInv == Init => ReportInv
<1> SUFFICES ASSUME Init PROVE ReportInv
  OBVIOUS
<1> USE DEF Init
<1>1. AnswerTypes
  BY TasksAssumption DEF AnswerTypes
<1>2. HeldOnce /\ NoResultYet /\ ChunksOwned
  BY DEF HeldOnce, NoResultYet, ChunksOwned
<1>3. JobsQueued /\ StepKinds /\ GatheredOK
  BY DEF JobsQueued, StepKinds, GatheredOK
<1>4. ServedOK /\ ResultsInRange /\ ReportsAreTrue /\ HitsAreSettled
  BY DEF ServedOK, ResultsInRange, ReportsAreTrue, HitsAreSettled
<1> QED
  BY <1>1, <1>2, <1>3, <1>4 DEF ReportInv

(* A new task has no history.                                              *)
LEMMA SubmitReportInv ==
    ASSUME CloseInv, ReportInv, NEW r \in Requests, Submit(r)
    PROVE  ReportInv'
<1> USE DEF ReportInv
<1>s. Shape
  BY DEF CloseInv
<1>a. next_id \in Ids /\ task[next_id] = None /\ next_id' = next_id + 1 /\ next_id' <= MaxTasks
  BY <1>s, TasksAssumption DEF Shape, Ids, Submit
<1>b. \A id \in Ids : task[id] # None =>
         task'[id] = task[id] /\ ChunksOf(id)' = ChunksOf(id) /\ Objects(id)' = Objects(id)
  BY <1>a, <1>s DEF Shape, ChunksOf, Objects, Submit
<1>c. /\ UNCHANGED <<pc, cur, seen, failed, chunk, hit, served, jobs,
                     result, done, signalled, poller, aborted>>
      /\ \/ UNCHANGED <<task, work>>
         \/ work' = Append(work, next_id) /\ task' = [task EXCEPT ![next_id] = r]
  BY DEF Submit, threads, chunks, answers
<1>d. /\ \A i \in 1 .. Len(work) : work[i] \in Ids /\ task[work[i]] # None /\ work[i] # next_id
      /\ \A t \in Threads : pc[t] # "idle" =>
           cur[t] \in Ids /\ task[cur[t]] # None /\ cur[t] # next_id
  BY <1>a, <1>s DEF CloseInv, Shape, WorkOK, CurOK
<1>e. \A i \in 1 .. Len(work') :
         \/ i \in 1 .. Len(work) /\ work'[i] = work[i]
         \/ i = Len(work) + 1 /\ i \notin 1 .. Len(work) /\ work'[i] = next_id
  <2>1. CASE work' = work
    BY <2>1
  <2>2. CASE work' = Append(work, next_id)
    <3>1. work \in Seq(Ids) /\ Len(work) \in Nat /\ Len(work') = Len(work) + 1
      BY <2>2, <1>s DEF Shape
    <3> SUFFICES ASSUME NEW i \in 1 .. Len(work')
                 PROVE  \/ i \in 1 .. Len(work) /\ work'[i] = work[i]
                        \/ i = Len(work) + 1 /\ i \notin 1 .. Len(work) /\ work'[i] = next_id
      OBVIOUS
    <3> QED
      BY <2>2, <3>1, <1>a
  <2> QED
    BY <2>1, <2>2, <1>c
<1>1. AnswerTypes'
  BY <1>a, <1>c DEF AnswerTypes
<1>2. HeldOnce'
  <2>1. \A i, j \in 1 .. Len(work') : work'[i] = work'[j] => i = j
    BY <1>d, <1>e DEF HeldOnce
  <2>2. \A t \in Threads, i \in 1 .. Len(work') : pc[t] # "idle" => work'[i] # cur[t]
    BY <1>d, <1>e DEF HeldOnce
  <2> QED
    BY <2>1, <2>2, <1>c DEF HeldOnce
<1>3. NoResultYet'
  <2>1. \A i \in 1 .. Len(work') : result[work'[i]] = None
    BY <1>a, <1>e DEF NoResultYet
  <2>2. \A id \in Ids : task'[id] = None => task[id] = None
    BY <1>b, <1>s DEF Shape
  <2> QED
    BY <2>1, <2>2, <1>c DEF NoResultYet
<1>4. ChunksOwned'
  BY <1>b, <1>c DEF ChunksOwned
<1>5. JobsQueued'
  BY <1>c DEF JobsQueued
<1>6. StepKinds'
  <2> SUFFICES ASSUME NEW t \in Threads
               PROVE  /\ pc[t] \in {"submit", "gather"} => task'[cur[t]].kind # "lookup"
                      /\ pc[t] \in {"mask", "pin"} => task'[cur[t]].kind = "lookup"
                      /\ pc[t] \in {"idle", "submit"} => seen[t] = <<>>
    BY <1>c DEF StepKinds
  <2>1. pc[t] # "idle" => task'[cur[t]] = task[cur[t]]
    BY <1>b, <1>d
  <2> QED
    BY <2>1 DEF StepKinds
<1>7. GatheredOK'
  <2> SUFFICES ASSUME NEW t \in Threads, pc[t] # "idle"
               PROVE  /\ pc[t] = "gather" => SeenDone(t)'
                      /\ pc[t] = "record" /\ ~failed[t] /\ task'[cur[t]].kind # "lookup"
                           => AllDone(cur[t])'
    BY <1>c DEF GatheredOK
  <2>1. task'[cur[t]] = task[cur[t]] /\ ChunksOf(cur[t])' = ChunksOf(cur[t])
    BY <1>b, <1>c, <1>d
  <2>2. SeenDone(t)' = SeenDone(t) /\ AllDone(cur[t])' = AllDone(cur[t])
    BY <2>1, <1>c DEF SeenDone, AllDone
  <2> QED
    BY <2>1, <2>2 DEF GatheredOK
<1>8. ServedOK'
  BY <1>b, <1>c DEF ServedOK
<1>9. ResultsInRange' /\ ReportsAreTrue'
  BY <1>b, <1>c DEF ResultsInRange, ReportsAreTrue, NoResultYet
<1>10. HitsAreSettled'
  BY <1>c DEF HitsAreSettled
<1> QED
  BY <1>1, <1>2, <1>3, <1>4, <1>5, <1>6, <1>7, <1>8, <1>9, <1>10

(* Polling and close() touch nothing a report is made of.                  *)
LEMMA CallerStepReportInv ==
    ASSUME CloseInv, ReportInv,
           \/ \E k \in Kinds : PollStep(k)
           \/ BeginClose \/ Close \/ UNCHANGED vars
    PROVE  ReportInv'
<1> USE DEF ReportInv
<1>a. UNCHANGED <<next_id, task, work, pc, cur, seen, failed, chunk, hit, served, jobs, result>>
  BY DEF PollStep, Wake, Pop, BeginClose, Close, vars, queues, threads, chunks, answers
<1>b. \A id : ChunksOf(id)' = ChunksOf(id) /\ Objects(id)' = Objects(id)
  BY <1>a DEF ChunksOf, Objects
<1>1. AnswerTypes'
  <2>1. /\ done' \subseteq Ids /\ aborted' \subseteq Ids
        /\ signalled' \in [Kinds -> BOOLEAN] /\ poller' \in [Kinds -> {"wait", "pop"}]
    <3>1. CASE \E k \in Kinds : PollStep(k)
      BY <3>1 DEF PollStep, Wake, Pop, AnswerTypes
    <3>2. CASE BeginClose \/ Close \/ UNCHANGED vars
      BY <3>2 DEF BeginClose, Close, answers, vars, AnswerTypes
    <3> QED
      BY <3>1, <3>2
  <2> QED
    BY <2>1, <1>a DEF AnswerTypes
<1>2. HeldOnce' /\ NoResultYet' /\ JobsQueued' /\ StepKinds'
  BY <1>a DEF HeldOnce, NoResultYet, JobsQueued, StepKinds
<1>3. ChunksOwned' /\ GatheredOK' /\ ServedOK'
  BY <1>a, <1>b DEF ChunksOwned, GatheredOK, SeenDone, AllDone, ServedOK
<1>4. ResultsInRange' /\ ReportsAreTrue' /\ HitsAreSettled'
  BY <1>a, <1>b DEF ResultsInRange, ReportsAreTrue, HitsAreSettled
<1> QED
  BY <1>1, <1>2, <1>3, <1>4

(* The batch executor runs each queued chunk once.                         *)
LEMMA StartChunkReportInv ==
    ASSUME CloseInv, ReportInv, StartChunk
    PROVE  ReportInv'
<1> USE DEF ReportInv
<1> DEFINE id == Head(jobs)[1]
           c  == Head(jobs)[2]
<1>s. Shape
  BY DEF CloseInv
<1>a. /\ UNCHANGED <<next_id, task, work, pc, cur, seen, failed, hit, served, result,
                     done, signalled, poller, aborted>>
      /\ jobs # <<>> /\ jobs' = Tail(jobs)
      /\ chunk' = [chunk EXCEPT ![id][c] = "running"]
  BY DEF StartChunk, queues, threads, answers
<1>b. id \in Ids /\ c \in ChunkIds /\ jobs[1] = <<id, c>> /\ chunk[id][c] = "queued"
  <2>1. Head(jobs) \in Ids \X ChunkIds /\ 1 \in 1 .. Len(jobs) /\ Head(jobs) = jobs[1]
    BY <1>a, <1>s DEF Shape
  <2>2. id \in Ids /\ c \in ChunkIds /\ jobs[1] = <<id, c>>
    BY <2>1
  <2> QED
    BY <2>1, <2>2 DEF JobsQueued
<1>c. /\ chunk'[id][c] = "running"
      /\ \A x \in Ids, d \in ChunkIds : x # id \/ d # c => chunk'[x][d] = chunk[x][d]
  <2> HIDE DEF id, c
  <2> QED
    BY <1>a, <1>b, <1>s, ChunkUpdate DEF Shape, ChunkStates
<1> HIDE DEF id, c
<1>d. \A x : ChunksOf(x)' = ChunksOf(x) /\ Objects(x)' = Objects(x)
  BY <1>a DEF ChunksOf, Objects
<1>1. AnswerTypes' /\ HeldOnce' /\ NoResultYet' /\ StepKinds'
  BY <1>a DEF AnswerTypes, HeldOnce, NoResultYet, StepKinds
<1>2. ChunksOwned'
  BY <1>a, <1>b, <1>c, <1>d DEF ChunksOwned
<1>3. JobsQueued'
  <2>1. \A i \in 1 .. Len(jobs') : i + 1 \in 1 .. Len(jobs) /\ jobs'[i] = jobs[i + 1] /\ i + 1 # 1
    BY <1>a, <1>s DEF Shape
  <2>2. \A i, j \in 1 .. Len(jobs') : jobs'[i] = jobs'[j] => i = j
    <3> SUFFICES ASSUME NEW i \in 1 .. Len(jobs'), NEW j \in 1 .. Len(jobs'), jobs'[i] = jobs'[j]
                 PROVE  i = j
      OBVIOUS
    <3>1. i + 1 = j + 1
      BY <2>1 DEF JobsQueued
    <3> QED
      BY <3>1
  <2>3. ASSUME NEW i \in 1 .. Len(jobs'), NEW x \in Ids, NEW d \in ChunkIds, jobs'[i] = <<x, d>>
        PROVE  chunk'[x][d] = "queued"
    <3>1. jobs[i + 1] = <<x, d>> /\ i + 1 \in 1 .. Len(jobs) /\ i + 1 # 1 /\ 1 \in 1 .. Len(jobs)
      BY <2>1, <2>3, <1>a, <1>s DEF Shape
    <3>2. jobs[i + 1] # jobs[1]
      BY <3>1 DEF JobsQueued
    <3>3. x # id \/ d # c
      BY <3>1, <3>2, <1>b
    <3> QED
      BY <3>1, <3>3, <1>c DEF JobsQueued
  <2> QED
    BY <2>2, <2>3 DEF JobsQueued
<1>4. GatheredOK'
  <2> SUFFICES ASSUME NEW t \in Threads, pc[t] # "idle"
               PROVE  /\ pc[t] = "gather" => SeenDone(t)'
                      /\ pc[t] = "record" /\ ~failed[t] /\ task[cur[t]].kind # "lookup"
                           => AllDone(cur[t])'
    BY <1>a DEF GatheredOK
  <2>1. cur[t] \in Ids /\ ChunksOf(cur[t]) \subseteq ChunkIds
    BY <1>s, ChunksKnown DEF CloseInv, CurOK, Shape
  <2>2. \A d \in ChunksOf(cur[t]) : chunk[cur[t]][d] = "done" => chunk'[cur[t]][d] = "done"
    BY <2>1, <1>b, <1>c
  <2>3. pc[t] = "gather" => SeenDone(t)'
    BY <2>2, <1>a, <1>d DEF GatheredOK, SeenDone
  <2>4. AllDone(cur[t]) => AllDone(cur[t])'
    BY <2>2, <1>a, <1>d DEF AllDone
  <2> QED
    BY <2>3, <2>4 DEF GatheredOK
<1>5. ServedOK' /\ ResultsInRange' /\ ReportsAreTrue'
  BY <1>a, <1>d DEF ServedOK, ResultsInRange, ReportsAreTrue
<1>6. HitsAreSettled'
  BY <1>a, <1>b, <1>c DEF HitsAreSettled
<1> QED
  BY <1>1, <1>2, <1>3, <1>4, <1>5, <1>6

(* A chunk's call marks what it has served, and only while it runs.        *)
LEMMA EndChunkReportInv ==
    ASSUME CloseInv, ReportInv, NEW id \in Ids, NEW c \in ChunkIds, EndChunk(id, c)
    PROVE  ReportInv'
<1> USE DEF ReportInv
<1>s. Shape
  BY DEF CloseInv
<1>a. /\ UNCHANGED <<next_id, task, work, pc, cur, seen, failed, jobs, result,
                     done, signalled, poller, aborted>>
      /\ chunk[id][c] = "running" /\ task[id] # None /\ c \in ChunksOf(id)
  BY DEF EndChunk, queues, threads, answers
<1>b. \E v \in {"done", "raised"} : chunk' = [chunk EXCEPT ![id][c] = v]
  BY DEF EndChunk
<1>c. /\ chunk'[id][c] \in {"done", "raised"}
      /\ \A x \in Ids, d \in ChunkIds : x # id \/ d # c => chunk'[x][d] = chunk[x][d]
  BY <1>b, <1>s, ChunkUpdate DEF Shape, ChunkStates
<1>d. \A x : ChunksOf(x)' = ChunksOf(x) /\ Objects(x)' = Objects(x)
  BY <1>a DEF ChunksOf, Objects
<1>e. PICK some \in SUBSET Positions(task[id].n, c) :
         \/ UNCHANGED <<hit, served>>
         \/ /\ hit' = [hit EXCEPT ![id][c] = some]
            /\ served' = [served EXCEPT ![id] = @ \cup {c * ChunkSize + p : p \in some}]
  BY DEF EndChunk
<1>f. /\ \A p \in some : p \in 0 .. ChunkSize - 1 /\ c * ChunkSize + p \in Objects(id)
      /\ task[id].kind # "lookup"
  <2>1. task[id].n \in Nat /\ c \in Nat
    BY <1>a, <1>s, ChunkNumbers, ChunkIdsNat DEF Shape
  <2> QED
    BY <2>1, <1>a, PlaceInList DEF Objects, ChunksOwned
<1>g. Objects(id) \subseteq Nat
  BY DEF Objects
<1>h. /\ served' \in [Ids -> SUBSET Nat]
      /\ hit' \in [Ids -> [ChunkIds -> SUBSET (0 .. ChunkSize - 1)]]
      /\ \A x \in Ids : /\ served[x] \subseteq served'[x]
                        /\ served'[x] # served[x] => x = id
                        /\ served'[x] \subseteq served[x] \cup Objects(x)
      /\ \A x \in Ids, d \in ChunkIds :
           hit'[x][d] # hit[x][d] => /\ x = id /\ d = c
                                     /\ \A p \in hit'[x][d] : c * ChunkSize + p \in served'[x]
  <2>1. CASE UNCHANGED <<hit, served>>
    BY <2>1 DEF AnswerTypes
  <2>2. CASE /\ hit' = [hit EXCEPT ![id][c] = some]
             /\ served' = [served EXCEPT ![id] = @ \cup {c * ChunkSize + p : p \in some}]
    <3> DEFINE new == {c * ChunkSize + p : p \in some}
               row == [hit[id] EXCEPT ![c] = some]
    <3>1. new \subseteq Objects(id) /\ some \in SUBSET (0 .. ChunkSize - 1)
      BY <1>f
    <3>2. \A p \in some : c * ChunkSize + p \in new
      OBVIOUS
    <3>3. /\ row \in [ChunkIds -> SUBSET (0 .. ChunkSize - 1)] /\ row[c] = some
          /\ \A d \in ChunkIds : d # c => row[d] = hit[id][d]
      BY <3>1 DEF AnswerTypes
    <3>4. hit' = [hit EXCEPT ![id] = row] /\ served' = [served EXCEPT ![id] = served[id] \cup new]
      BY <2>2
    <3> HIDE DEF new, row
    <3>5. /\ hit' \in [Ids -> [ChunkIds -> SUBSET (0 .. ChunkSize - 1)]]
          /\ hit'[id] = row /\ \A x \in Ids : x # id => hit'[x] = hit[x]
      BY <3>3, <3>4 DEF AnswerTypes
    <3>6. served[id] \cup new \in SUBSET Nat
      BY <3>1, <1>g DEF AnswerTypes
    <3>7. /\ served' \in [Ids -> SUBSET Nat]
          /\ served'[id] = served[id] \cup new
          /\ \A x \in Ids : x # id => served'[x] = served[x]
      BY <3>4, <3>6 DEF AnswerTypes
    <3> QED
      BY <3>1, <3>2, <3>3, <3>5, <3>7
  <2> QED
    BY <2>1, <2>2, <1>e
<1>1. AnswerTypes'
  BY <1>a, <1>h DEF AnswerTypes
<1>2. HeldOnce' /\ NoResultYet' /\ StepKinds'
  BY <1>a DEF HeldOnce, NoResultYet, StepKinds
<1>3. ChunksOwned'
  BY <1>a, <1>c, <1>d DEF ChunksOwned
<1>4. JobsQueued'
  BY <1>a, <1>c DEF JobsQueued
<1>5. GatheredOK'
  <2> SUFFICES ASSUME NEW t \in Threads, pc[t] # "idle"
               PROVE  /\ pc[t] = "gather" => SeenDone(t)'
                      /\ pc[t] = "record" /\ ~failed[t] /\ task[cur[t]].kind # "lookup"
                           => AllDone(cur[t])'
    BY <1>a DEF GatheredOK
  <2>1. cur[t] \in Ids /\ ChunksOf(cur[t]) \subseteq ChunkIds
    BY <1>s, ChunksKnown DEF CloseInv, CurOK, Shape
  <2>2. \A d \in ChunksOf(cur[t]) : chunk[cur[t]][d] = "done" => chunk'[cur[t]][d] = "done"
    BY <2>1, <1>a, <1>c
  <2>3. pc[t] = "gather" => SeenDone(t)'
    BY <2>2, <1>a, <1>d DEF GatheredOK, SeenDone
  <2>4. AllDone(cur[t]) => AllDone(cur[t])'
    BY <2>2, <1>a, <1>d DEF AllDone
  <2> QED
    BY <2>3, <2>4 DEF GatheredOK
<1>6. ServedOK'
  <2> SUFFICES ASSUME NEW x \in Ids
               PROVE  /\ served'[x] # {} => task[x] # None /\ served'[x] \subseteq Objects(x)
                      /\ \A d \in ChunkIds : hit'[x][d] # {} =>
                           /\ task[x] # None /\ task[x].kind # "lookup"
                           /\ \A p \in hit'[x][d] : d * ChunkSize + p \in served'[x]
    BY <1>a, <1>d DEF ServedOK
  <2>1. served'[x] # {} => task[x] # None /\ served'[x] \subseteq Objects(x)
    BY <1>a, <1>h DEF ServedOK
  <2>2. ASSUME NEW d \in ChunkIds, hit'[x][d] # {}
        PROVE  /\ task[x] # None /\ task[x].kind # "lookup"
               /\ \A p \in hit'[x][d] : d * ChunkSize + p \in served'[x]
    <3>1. CASE hit'[x][d] = hit[x][d]
      BY <2>2, <3>1, <1>h DEF ServedOK
    <3>2. CASE hit'[x][d] # hit[x][d]
      BY <3>2, <1>a, <1>f, <1>h
    <3> QED
      BY <3>1, <3>2
  <2> QED
    BY <2>1, <2>2
<1>7. ResultsInRange'
  BY <1>a, <1>d DEF ResultsInRange
<1>8. ReportsAreTrue'
  <2> SUFFICES ASSUME NEW x \in Ids, result[x] # None
               PROVE  /\ result[x].bits \subseteq served'[x]
                      /\ task[x].kind = "store" /\ result[x].ok => served'[x] = Objects(x)
    BY <1>a, <1>d DEF ReportsAreTrue
  <2>1. served[x] \subseteq served'[x] /\ served'[x] \subseteq served[x] \cup Objects(x)
    BY <1>h
  <2> QED
    BY <2>1 DEF ReportsAreTrue
<1>9. HitsAreSettled'
  BY <1>a, <1>c DEF HitsAreSettled
<1> QED
  BY <1>1, <1>2, <1>3, <1>4, <1>5, <1>6, <1>7, <1>8, <1>9

(* Facts about the task a busy thread holds.                               *)
LEMMA HeldTask ==
    ASSUME CloseInv, NEW t \in Threads, pc[t] # "idle"
    PROVE  /\ cur[t] \in Ids /\ task[cur[t]] # None
           /\ ChunksOf(cur[t]) \subseteq ChunkIds
           /\ ChunksOf(cur[t]) = 0 .. NChunks(task[cur[t]].n) - 1
           /\ NChunks(task[cur[t]].n) \in Nat \ {0}
           /\ task[cur[t]].kind \in Kinds
<1>1. task \in [Ids -> Requests \cup {None}] /\ cur[t] \in Ids /\ task[cur[t]] # None
  BY DEF CloseInv, CurOK, Shape
<1> QED
  BY <1>1, ChunksKnown, ChunkNumbers

(* Steps that leave every other thread's task alone keep what was          *)
(* gathered there.                                                         *)
LEMMA OthersGathered ==
    ASSUME CloseInv, GatheredOK, NEW t \in Threads,
           UNCHANGED task,
           \A u \in Threads : u # t => /\ pc'[u] = pc[u] /\ cur'[u] = cur[u]
                                       /\ seen'[u] = seen[u] /\ failed'[u] = failed[u],
           \A u \in Threads : u # t /\ pc[u] # "idle" =>
             \A d \in ChunkIds : chunk[cur[u]][d] = "done" => chunk'[cur[u]][d] = "done",
           pc'[t] = "gather" => SeenDone(t)',
           pc'[t] = "record" /\ ~failed'[t] /\ task[cur'[t]].kind # "lookup" => AllDone(cur[t])',
           cur'[t] = cur[t] \/ pc'[t] # "record"
    PROVE  GatheredOK'
<1> SUFFICES ASSUME NEW u \in Threads
             PROVE  /\ pc'[u] = "gather" => SeenDone(u)'
                    /\ pc'[u] = "record" /\ ~failed'[u] /\ task'[cur'[u]].kind # "lookup"
                         => AllDone(cur[u])'
  BY DEF GatheredOK
<1>1. CASE u = t
  BY <1>1
<1>2. CASE u # t /\ pc[u] # "idle"
  <2>0. /\ pc'[u] = pc[u] /\ cur'[u] = cur[u] /\ seen'[u] = seen[u] /\ failed'[u] = failed[u]
        /\ task'[cur'[u]] = task[cur[u]]
    BY <1>2
  <2>1. cur[u] \in Ids /\ ChunksOf(cur[u]) \subseteq ChunkIds
    BY <1>2, HeldTask
  <2>2. \A d \in ChunksOf(cur[u]) : chunk[cur[u]][d] = "done" => chunk'[cur[u]][d] = "done"
    BY <1>2, <2>1
  <2>3. ChunksOf(cur[u])' = ChunksOf(cur[u])
    BY <2>0 DEF ChunksOf
  <2>4. SeenDone(u) => SeenDone(u)'
    BY <2>0, <2>2, <2>3 DEF SeenDone
  <2>5. AllDone(cur[u]) => AllDone(cur[u])'
    BY <2>0, <2>2, <2>3 DEF AllDone
  <2> QED
    BY <2>0, <2>4, <2>5 DEF GatheredOK
<1>3. CASE u # t /\ pc[u] = "idle"
  BY <1>3
<1> QED
  BY <1>1, <1>2, <1>3

(* A thread that takes a task is the only one that holds it.               *)
LEMMA StartReportInv ==
    ASSUME CloseInv, ReportInv, NEW t \in Threads, Start(t)
    PROVE  ReportInv'
<1> USE DEF ReportInv
<1> DEFINE id == Head(work)
<1>s. Shape
  BY DEF CloseInv
<1>a. /\ UNCHANGED <<next_id, task, seen, failed, hit, served, jobs, result, done,
                     signalled, poller, aborted>>
      /\ pc[t] = "idle" /\ work # <<>> /\ work' = Tail(work)
      /\ cur' = [cur EXCEPT ![t] = id]
  BY DEF Start, answers
<1>b. /\ id \in Ids /\ id = work[1] /\ 1 \in 1 .. Len(work) /\ task[id] # None
      /\ \A i \in 1 .. Len(work') : i + 1 \in 1 .. Len(work) /\ work'[i] = work[i + 1] /\ i + 1 # 1
  BY <1>a, <1>s DEF Shape, CloseInv, WorkOK
<1>c. PICK l \in {"mask", "gather", "submit"} :
         /\ pc' = [pc EXCEPT ![t] = l]
         /\ l = "mask" <=> task[id].kind = "lookup"
  BY DEF Start, GoTo
<1>d. \/ chunk' = chunk
      \/ /\ Inline(id) /\ task[id].kind # "lookup" /\ 0 \in ChunksOf(id) /\ 0 \in ChunkIds
         /\ chunk' = [chunk EXCEPT ![id][0] = "running"]
  BY <1>b, <1>s, ChunksKnown DEF Start, Shape
<1> HIDE DEF id
<1>e. /\ pc'[t] = l /\ cur'[t] = id
      /\ \A u \in Threads : u # t => pc'[u] = pc[u] /\ cur'[u] = cur[u]
  BY <1>a, <1>c, <1>s DEF Shape
<1>f. /\ \A u \in Threads : pc[u] # "idle" => cur[u] # id
      /\ \A i \in 1 .. Len(work') : work'[i] # id
      /\ result[id] = None
  BY <1>b DEF HeldOnce, NoResultYet
<1>g. /\ \A x \in Ids, d \in ChunkIds : x # id => chunk'[x][d] = chunk[x][d]
      /\ \A d \in ChunkIds : chunk'[id][d] # chunk[id][d] =>
           /\ Inline(id) /\ chunk'[id][d] = "running"
           /\ task[id].kind # "lookup" /\ d \in ChunksOf(id)
  <2>1. CASE chunk' = chunk
    BY <2>1
  <2>2. CASE /\ Inline(id) /\ task[id].kind # "lookup" /\ 0 \in ChunksOf(id) /\ 0 \in ChunkIds
             /\ chunk' = [chunk EXCEPT ![id][0] = "running"]
    <3>1. /\ chunk'[id][0] = "running"
          /\ \A x \in Ids, d \in ChunkIds : x # id \/ d # 0 => chunk'[x][d] = chunk[x][d]
      BY <2>2, <1>b, <1>s, ChunkUpdate DEF Shape, ChunkStates
    <3> QED
      BY <3>1, <2>2
  <2> QED
    BY <2>1, <2>2, <1>d
<1>h. \A x : ChunksOf(x)' = ChunksOf(x) /\ Objects(x)' = Objects(x)
  BY <1>a DEF ChunksOf, Objects
<1>1. AnswerTypes'
  BY <1>a DEF AnswerTypes
<1>2. HeldOnce'
  <2>1. \A i, j \in 1 .. Len(work') : work'[i] = work'[j] => i = j
    <3> SUFFICES ASSUME NEW i \in 1 .. Len(work'), NEW j \in 1 .. Len(work'), work'[i] = work'[j]
                 PROVE  i = j
      OBVIOUS
    <3>1. i + 1 = j + 1
      BY <1>b DEF HeldOnce
    <3> QED
      BY <3>1
  <2>2. \A u \in Threads, i \in 1 .. Len(work') : pc'[u] # "idle" => work'[i] # cur'[u]
    BY <1>b, <1>e, <1>f DEF HeldOnce
  <2>3. \A u, v \in Threads : pc'[u] # "idle" /\ pc'[v] # "idle" /\ cur'[u] = cur'[v] => u = v
    BY <1>e, <1>f DEF HeldOnce
  <2> QED
    BY <2>1, <2>2, <2>3 DEF HeldOnce
<1>3. NoResultYet'
  BY <1>a, <1>b, <1>e, <1>f DEF NoResultYet
<1>4. ChunksOwned'
  BY <1>a, <1>b, <1>g, <1>h DEF ChunksOwned
<1>5. JobsQueued'
  BY <1>a, <1>b, <1>g DEF JobsQueued, CloseInv, JobsOK
<1>6. StepKinds'
  <2> SUFFICES ASSUME NEW u \in Threads
               PROVE  /\ pc'[u] \in {"submit", "gather"} => task[cur'[u]].kind # "lookup"
                      /\ pc'[u] \in {"mask", "pin"} => task[cur'[u]].kind = "lookup"
                      /\ pc'[u] \in {"idle", "submit"} => seen[u] = <<>>
    BY <1>a DEF StepKinds
  <2>1. CASE u = t
    <3>1. seen[t] = <<>>
      BY <1>a DEF StepKinds
    <3> QED
      BY <2>1, <3>1, <1>c, <1>e
  <2>2. CASE u # t
    <3>1. pc'[u] = pc[u] /\ cur'[u] = cur[u]
      BY <2>2, <1>e
    <3> QED
      BY <3>1 DEF StepKinds
  <2> QED
    BY <2>1, <2>2
<1>7. GatheredOK'
  <2>1. SeenDone(t)'
    BY <1>a DEF SeenDone, StepKinds
  <2>2. \A u \in Threads : u # t /\ pc[u] # "idle" =>
          \A d \in ChunkIds : chunk[cur[u]][d] = "done" => chunk'[cur[u]][d] = "done"
    BY <1>f, <1>g, HeldTask
  <2>3. pc'[t] # "record"
    BY <1>e
  <2> QED
    BY <2>1, <2>2, <2>3, <1>a, <1>e, OthersGathered
<1>8. ServedOK' /\ ResultsInRange' /\ ReportsAreTrue'
  BY <1>a, <1>h DEF ServedOK, ResultsInRange, ReportsAreTrue
<1>9. HitsAreSettled'
  BY <1>a, <1>f, <1>g DEF HitsAreSettled
<1> QED
  BY <1>1, <1>2, <1>3, <1>4, <1>5, <1>6, <1>7, <1>8, <1>9

(* A thread that goes on with its task still holds it alone, and a task    *)
(* without a result keeps none.                                            *)
LEMMA SameTask ==
    ASSUME ReportInv, NEW t \in Threads, NEW l,
           pc \in [Threads -> {"idle", "submit", "gather", "mask", "pin", "record", "notify"}],
           UNCHANGED <<task, work, cur>>, pc[t] # "idle", pc' = [pc EXCEPT ![t] = l],
           l # "idle"
    PROVE  /\ HeldOnce'
           /\ UNCHANGED result /\ pc[t] # "notify" => NoResultYet'
<1>1. pc'[t] = l /\ \A u \in Threads : u # t => pc'[u] = pc[u]
  OBVIOUS
<1>2. HeldOnce'
  BY <1>1 DEF ReportInv, HeldOnce
<1>3. ASSUME UNCHANGED result, pc[t] # "notify" PROVE NoResultYet'
  BY <1>1, <1>3 DEF ReportInv, NoResultYet
<1> QED
  BY <1>2, <1>3

(* A chunk is handed over once, by the thread that holds its task.         *)
LEMMA SubmitChunkReportInv ==
    ASSUME CloseInv, ReportInv, NEW t \in Threads, SubmitChunk(t)
    PROVE  ReportInv'
<1> USE DEF ReportInv
<1> DEFINE id == cur[t]
<1>s. Shape
  BY DEF CloseInv
<1>a. /\ UNCHANGED <<next_id, task, work, cur, seen, hit, served, result, done,
                     signalled, poller, aborted>>
      /\ pc[t] = "submit"
  BY DEF SubmitChunk, queues, answers
<1>b. /\ id \in Ids /\ task[id] # None /\ ChunksOf(id) \subseteq ChunkIds
      /\ task[id].kind # "lookup" /\ seen[t] = <<>> /\ result[id] = None
      /\ \A u \in Threads : u # t /\ pc[u] # "idle" => cur[u] # id
  BY <1>a, HeldTask DEF StepKinds, NoResultYet, HeldOnce
<1>c. PICK l \in {"submit", "gather", "record"} :
         /\ pc' = [pc EXCEPT ![t] = l]
         /\ \/ l = "record" /\ failed' = [failed EXCEPT ![t] = TRUE] /\ UNCHANGED <<chunk, jobs>>
            \/ /\ l # "record" /\ failed' = failed
               /\ \E c \in ChunksOf(id) :
                    /\ chunk[id][c] = "none"
                    /\ chunk' = [chunk EXCEPT ![id][c] = "queued"]
                    /\ jobs' = Append(jobs, <<id, c>>)
  BY DEF SubmitChunk, GoTo, IsNextChunk, HandOver
<1> HIDE DEF id
<1>d. /\ pc'[t] = l /\ \A u \in Threads : u # t => pc'[u] = pc[u]
      /\ failed' \in [Threads -> BOOLEAN]
      /\ l = "record" => failed'[t]
      /\ \A u \in Threads : u # t => failed'[u] = failed[u]
  BY <1>c, <1>s DEF Shape, AnswerTypes
<1>e. \/ UNCHANGED <<chunk, jobs>>
      \/ \E c \in ChunksOf(id) :
           /\ chunk[id][c] = "none" /\ chunk'[id][c] = "queued"
           /\ \A x \in Ids, d \in ChunkIds : x # id \/ d # c => chunk'[x][d] = chunk[x][d]
           /\ jobs' = Append(jobs, <<id, c>>)
  BY <1>b, <1>c, <1>s, ChunkUpdate DEF Shape, ChunkStates
<1>h. \A x : ChunksOf(x)' = ChunksOf(x) /\ Objects(x)' = Objects(x)
  BY <1>a DEF ChunksOf, Objects
<1>1. AnswerTypes'
  BY <1>a, <1>d DEF AnswerTypes
<1>2. HeldOnce' /\ NoResultYet'
  <2>1. l # "idle" /\ pc[t] # "idle" /\ pc[t] # "notify"
    BY <1>a
  <2> QED
    BY <2>1, <1>a, <1>c, <1>s, SameTask DEF Shape
<1>3. ChunksOwned'
  BY <1>a, <1>b, <1>e, <1>h DEF ChunksOwned
<1>4. JobsQueued'
  <2>1. CASE UNCHANGED <<chunk, jobs>>
    BY <2>1 DEF JobsQueued
  <2>2. CASE ~UNCHANGED <<chunk, jobs>>
    <3>1. PICK c \in ChunksOf(id) :
            /\ chunk[id][c] = "none" /\ chunk'[id][c] = "queued"
            /\ \A x \in Ids, d \in ChunkIds : x # id \/ d # c => chunk'[x][d] = chunk[x][d]
            /\ jobs' = Append(jobs, <<id, c>>)
      BY <2>2, <1>e
    <3>2. \A i \in 1 .. Len(jobs) : jobs[i] \in Ids \X ChunkIds /\ jobs[i] # <<id, c>>
      BY <3>1, <1>b, <1>s DEF JobsQueued, Shape
    <3>3. \A i \in 1 .. Len(jobs') :
             \/ i \in 1 .. Len(jobs) /\ jobs'[i] = jobs[i]
             \/ i = Len(jobs) + 1 /\ i \notin 1 .. Len(jobs) /\ jobs'[i] = <<id, c>>
      <4>1. jobs \in Seq(Ids \X ChunkIds) /\ Len(jobs) \in Nat /\ Len(jobs') = Len(jobs) + 1
        BY <3>1, <1>s DEF Shape
      <4> SUFFICES ASSUME NEW i \in 1 .. Len(jobs')
                   PROVE  \/ i \in 1 .. Len(jobs) /\ jobs'[i] = jobs[i]
                          \/ i = Len(jobs) + 1 /\ i \notin 1 .. Len(jobs) /\ jobs'[i] = <<id, c>>
        OBVIOUS
      <4> QED
        BY <3>1, <4>1
    <3>4. \A i, j \in 1 .. Len(jobs') : jobs'[i] = jobs'[j] => i = j
      BY <3>2, <3>3 DEF JobsQueued
    <3>5. ASSUME NEW i \in 1 .. Len(jobs'), NEW x \in Ids, NEW d \in ChunkIds, jobs'[i] = <<x, d>>
          PROVE  chunk'[x][d] = "queued"
      <4>1. CASE i \in 1 .. Len(jobs) /\ jobs'[i] = jobs[i]
        <5>1. chunk[x][d] = "queued"
          BY <3>5, <4>1 DEF JobsQueued
        <5> QED
          BY <5>1, <3>1
      <4>2. CASE jobs'[i] = <<id, c>>
        BY <3>5, <4>2, <3>1
      <4> QED
        BY <4>1, <4>2, <3>3
    <3> QED
      BY <3>4, <3>5 DEF JobsQueued
  <2> QED
    BY <2>1, <2>2
<1>5. StepKinds'
  <2> SUFFICES ASSUME NEW u \in Threads
               PROVE  /\ pc'[u] \in {"submit", "gather"} => task[cur[u]].kind # "lookup"
                      /\ pc'[u] \in {"mask", "pin"} => task[cur[u]].kind = "lookup"
                      /\ pc'[u] \in {"idle", "submit"} => seen[u] = <<>>
    BY <1>a DEF StepKinds
  <2>1. CASE u = t
    BY <2>1, <1>b, <1>d DEF id
  <2>2. CASE u # t
    BY <2>2, <1>d DEF StepKinds
  <2> QED
    BY <2>1, <2>2
<1>6. GatheredOK'
  <2>1. SeenDone(t)'
    BY <1>a, <1>b DEF SeenDone
  <2>2. \A u \in Threads : u # t /\ pc[u] # "idle" =>
          \A d \in ChunkIds : chunk[cur[u]][d] = "done" => chunk'[cur[u]][d] = "done"
    BY <1>b, <1>e, HeldTask
  <2>3. pc'[t] = "record" => failed'[t]
    BY <1>d
  <2> QED
    BY <2>1, <2>2, <2>3, <1>a, <1>d, OthersGathered
<1>7. ServedOK' /\ ResultsInRange' /\ ReportsAreTrue'
  BY <1>a, <1>h DEF ServedOK, ResultsInRange, ReportsAreTrue
<1>8. HitsAreSettled'
  <2>1. \A x \in Ids, d \in ChunkIds : x # id => chunk'[x][d] = chunk[x][d]
    BY <1>e
  <2> QED
    BY <2>1, <1>a, <1>b DEF HitsAreSettled
<1> QED
  BY <1>1, <1>2, <1>3, <1>4, <1>5, <1>6, <1>7, <1>8

(* A thread goes on to the record only with every chunk done, or failed.   *)
LEMMA GatherReportInv ==
    ASSUME CloseInv, ReportInv, NEW t \in Threads, Gather(t)
    PROVE  ReportInv'
<1> USE DEF ReportInv
<1> DEFINE id == cur[t]
           N  == NChunks(task[id].n)
<1>s. Shape
  BY DEF CloseInv
<1>a. /\ UNCHANGED <<next_id, task, work, cur, chunk, hit, served, jobs, result,
                     done, signalled, poller, aborted>>
      /\ pc[t] = "gather"
  BY DEF Gather, queues, chunks, answers
<1>b. /\ id \in Ids /\ task[id] # None /\ ChunksOf(id) \subseteq ChunkIds
      /\ task[id].kind # "lookup"
      /\ ChunksOf(id) = 0 .. N - 1 /\ N \in Nat \ {0}
      /\ SeenDone(t)
  BY <1>a, HeldTask DEF StepKinds, GatheredOK
<1>c. PICK c \in ChunksOf(id) :
         /\ \A i \in DOMAIN seen[t] : seen[t][i] # c
         /\ \/ /\ failed' = [failed EXCEPT ![t] = TRUE]
               /\ pc' = [pc EXCEPT ![t] = "record"] /\ seen' = seen
            \/ /\ chunk[id][c] = "done"
               /\ seen' = [seen EXCEPT ![t] = Append(@, c)]
               /\ pc' = [pc EXCEPT ![t] = IF Len(seen[t]) + 1 = N THEN "record" ELSE "gather"]
               /\ failed' = failed
  BY DEF Gather, GoTo, AllGathered
<1> HIDE DEF id, N
<1>d. seen[t] \in Seq(ChunkIds) /\ Append(seen[t], c) \in Seq(ChunkIds)
  BY <1>b DEF AnswerTypes
<1>e. /\ seen' \in [Threads -> Seq(ChunkIds)] /\ failed' \in [Threads -> BOOLEAN]
      /\ \A u \in Threads : u # t => pc'[u] = pc[u] /\ seen'[u] = seen[u] /\ failed'[u] = failed[u]
      /\ pc'[t] \in {"gather", "record"}
      /\ \E l \in {"gather", "record"} : pc' = [pc EXCEPT ![t] = l]
      /\ \/ pc'[t] = "record" /\ failed'[t]
         \/ /\ seen'[t] = Append(seen[t], c) /\ chunk[id][c] = "done"
            /\ pc'[t] = "record" => Len(seen[t]) + 1 = N
  BY <1>c, <1>d, <1>s DEF AnswerTypes, Shape
<1>f. ASSUME pc'[t] = "record", failed'[t] PROVE GatheredOK'
  <2>1. \A u \in Threads : u # t =>
           /\ pc'[u] = pc[u] /\ cur'[u] = cur[u] /\ seen'[u] = seen[u] /\ failed'[u] = failed[u]
    BY <1>a, <1>e
  <2> QED
    BY <2>1, <1>f, <1>a, OthersGathered
<1>g. ASSUME seen'[t] = Append(seen[t], c), chunk[id][c] = "done",
             pc'[t] = "record" => Len(seen[t]) + 1 = N
      PROVE  GatheredOK'
  <2> DEFINE s == Append(seen[t], c)
  <2>1. /\ s \in Seq(ChunkIds) /\ Len(s) = Len(seen[t]) + 1 /\ Len(s) \in Nat
        /\ \A i \in 1 .. Len(s) : \/ i \in 1 .. Len(seen[t]) /\ s[i] = seen[t][i]
                                  \/ i = Len(s) /\ i \notin 1 .. Len(seen[t]) /\ s[i] = c
    <3>1. Len(seen[t]) \in Nat /\ Len(s) = Len(seen[t]) + 1 /\ s \in Seq(ChunkIds)
      BY <1>d
    <3> SUFFICES ASSUME NEW i \in 1 .. Len(s)
                 PROVE  \/ i \in 1 .. Len(seen[t]) /\ s[i] = seen[t][i]
                        \/ i = Len(s) /\ i \notin 1 .. Len(seen[t]) /\ s[i] = c
      BY <3>1
    <3> QED
      BY <3>1, <1>d
  <2> HIDE DEF s
  <2>2. /\ \A i, j \in 1 .. Len(s) : s[i] = s[j] => i = j
        /\ \A i \in 1 .. Len(s) : s[i] \in ChunksOf(id) /\ chunk[id][s[i]] = "done"
    <3>1. \A i \in 1 .. Len(seen[t]) : seen[t][i] # c
      BY <1>c, <1>d
    <3>2. \A i, j \in 1 .. Len(seen[t]) : seen[t][i] = seen[t][j] => i = j
      BY <1>b DEF SeenDone
    <3>3. \A i \in 1 .. Len(seen[t]) : seen[t][i] \in ChunksOf(id) /\ chunk[id][seen[t][i]] = "done"
      BY <1>b DEF SeenDone, id
    <3>4. \A i, j \in 1 .. Len(s) : s[i] = s[j] => i = j
      BY <2>1, <3>1, <3>2
    <3> QED
      BY <2>1, <3>3, <3>4, <1>g
  <2>3. ChunksOf(id)' = ChunksOf(id) /\ seen'[t] = s /\ id' = id
    BY <1>g, <1>a DEF s, ChunksOf, id
  <2>4. SeenDone(t)'
    BY <2>2, <2>3, <1>a DEF SeenDone, id
  <2>5. pc'[t] = "record" => AllDone(id)
    <3> SUFFICES ASSUME pc'[t] = "record", NEW d \in ChunksOf(id) PROVE chunk[id][d] = "done"
      BY DEF AllDone
    <3>1. Len(s) = N
      BY <1>g, <2>1
    <3>2. \E i \in 1 .. Len(s) : s[i] = d
      BY <3>1, <2>1, <2>2, <1>b, AllAreSeen
    <3> QED
      BY <3>2, <2>2
  <2>6. AllDone(id) => AllDone(cur[t])'
    BY <2>3, <1>a DEF AllDone, id
  <2>7. \A u \in Threads : u # t =>
           /\ pc'[u] = pc[u] /\ cur'[u] = cur[u] /\ seen'[u] = seen[u] /\ failed'[u] = failed[u]
    BY <1>a, <1>e
  <2> QED
    BY <2>4, <2>5, <2>6, <2>7, <1>a, OthersGathered
<1>h. \A x : ChunksOf(x)' = ChunksOf(x) /\ Objects(x)' = Objects(x)
  BY <1>a DEF ChunksOf, Objects
<1>1. AnswerTypes'
  BY <1>a, <1>e DEF AnswerTypes
<1>2. HeldOnce' /\ NoResultYet'
  <2>1. PICK l \in {"gather", "record"} : pc' = [pc EXCEPT ![t] = l]
    BY <1>e
  <2>2. l # "idle" /\ pc[t] # "idle" /\ pc[t] # "notify"
    BY <1>a
  <2> QED
    BY <2>1, <2>2, <1>a, <1>s, SameTask DEF Shape
<1>3. ChunksOwned' /\ JobsQueued'
  BY <1>a, <1>h DEF ChunksOwned, JobsQueued
<1>4. StepKinds'
  <2> SUFFICES ASSUME NEW u \in Threads
               PROVE  /\ pc'[u] \in {"submit", "gather"} => task[cur[u]].kind # "lookup"
                      /\ pc'[u] \in {"mask", "pin"} => task[cur[u]].kind = "lookup"
                      /\ pc'[u] \in {"idle", "submit"} => seen'[u] = <<>>
    BY <1>a DEF StepKinds
  <2>1. CASE u = t
    BY <2>1, <1>b, <1>e DEF id
  <2>2. CASE u # t
    BY <2>2, <1>e DEF StepKinds
  <2> QED
    BY <2>1, <2>2
<1>5. GatheredOK'
  BY <1>e, <1>f, <1>g
<1>6. ServedOK' /\ ResultsInRange' /\ ReportsAreTrue' /\ HitsAreSettled'
  BY <1>a, <1>h DEF ServedOK, ResultsInRange, ReportsAreTrue, HitsAreSettled
<1> QED
  BY <1>1, <1>2, <1>3, <1>4, <1>5, <1>6

(* A lookup's hits are what batched_exists_mask found.                     *)
LEMMA LookupReportInv ==
    ASSUME CloseInv, ReportInv, NEW t \in Threads, Mask(t) \/ PinHits(t)
    PROVE  ReportInv'
<1> USE DEF ReportInv
<1> DEFINE id == cur[t]
<1>s. Shape
  BY DEF CloseInv
<1>a. /\ UNCHANGED <<next_id, task, work, cur, seen, failed, chunk, hit, jobs, result,
                     done, signalled, poller, aborted>>
      /\ pc[t] \in {"mask", "pin"}
  BY DEF Mask, PinHits, queues, chunks, answers
<1>b. /\ id \in Ids /\ task[id] # None /\ task[id].kind = "lookup" /\ result[id] = None
  BY <1>a, HeldTask DEF StepKinds, NoResultYet
<1>c. PICK l \in {"pin", "record"} : pc' = [pc EXCEPT ![t] = l]
  BY DEF Mask, PinHits, GoTo
<1>d. \/ served' = served
      \/ \E found \in SUBSET Objects(id) : served' = [served EXCEPT ![id] = found]
  BY DEF Mask, PinHits, chunks
<1> HIDE DEF id
<1>e. Objects(id) \subseteq Nat
  BY DEF Objects
<1>f. /\ served' \in [Ids -> SUBSET Nat]
      /\ \A x \in Ids : x # id => served'[x] = served[x]
      /\ served'[id] \subseteq Objects(id) \cup served[id]
  BY <1>b, <1>d, <1>e DEF AnswerTypes
<1>g. pc'[t] = l /\ \A u \in Threads : u # t => pc'[u] = pc[u]
  BY <1>c, <1>s DEF Shape
<1>h. \A x : ChunksOf(x)' = ChunksOf(x) /\ Objects(x)' = Objects(x)
  BY <1>a DEF ChunksOf, Objects
<1>1. AnswerTypes'
  BY <1>a, <1>f DEF AnswerTypes
<1>2. HeldOnce' /\ NoResultYet'
  <2>1. l # "idle" /\ pc[t] # "idle" /\ pc[t] # "notify"
    BY <1>a
  <2> QED
    BY <2>1, <1>a, <1>c, <1>s, SameTask DEF Shape
<1>3. ChunksOwned' /\ JobsQueued'
  BY <1>a, <1>h DEF ChunksOwned, JobsQueued
<1>4. StepKinds'
  <2> SUFFICES ASSUME NEW u \in Threads
               PROVE  /\ pc'[u] \in {"submit", "gather"} => task[cur[u]].kind # "lookup"
                      /\ pc'[u] \in {"mask", "pin"} => task[cur[u]].kind = "lookup"
                      /\ pc'[u] \in {"idle", "submit"} => seen[u] = <<>>
    BY <1>a DEF StepKinds
  <2>1. CASE u = t
    BY <2>1, <1>b, <1>g DEF id
  <2>2. CASE u # t
    BY <2>2, <1>g DEF StepKinds
  <2> QED
    BY <2>1, <2>2
<1>5. GatheredOK'
  <2>1. pc'[t] # "gather" /\ task[cur'[t]].kind = "lookup"
    BY <1>a, <1>b, <1>g DEF id
  <2>2. \A u \in Threads : u # t =>
           /\ pc'[u] = pc[u] /\ cur'[u] = cur[u] /\ seen'[u] = seen[u] /\ failed'[u] = failed[u]
    BY <1>a, <1>g
  <2> QED
    BY <2>1, <2>2, <1>a, OthersGathered
<1>6. ServedOK'
  <2> SUFFICES ASSUME NEW x \in Ids
               PROVE  /\ served'[x] # {} => task[x] # None /\ served'[x] \subseteq Objects(x)
                      /\ \A d \in ChunkIds : hit[x][d] # {} =>
                           /\ task[x] # None /\ task[x].kind # "lookup"
                           /\ \A p \in hit[x][d] : d * ChunkSize + p \in served'[x]
    BY <1>a, <1>h DEF ServedOK
  <2>1. CASE x = id
    BY <2>1, <1>b, <1>f DEF ServedOK
  <2>2. CASE x # id
    BY <2>2, <1>f DEF ServedOK
  <2> QED
    BY <2>1, <2>2
<1>7. ResultsInRange' /\ ReportsAreTrue' /\ HitsAreSettled'
  BY <1>a, <1>b, <1>f, <1>h DEF ResultsInRange, ReportsAreTrue, HitsAreSettled
<1> QED
  BY <1>1, <1>2, <1>3, <1>4, <1>5, <1>6, <1>7

(* What is recorded has been served, and nothing of it is still running.   *)
LEMMA RecordedIsTrue ==
    ASSUME CloseInv, ReportInv, NEW t \in Threads, pc[t] = "record"
    PROVE  /\ Bits(t) \subseteq served[cur[t]] /\ Bits(t) \subseteq Objects(cur[t])
           /\ Success(t) \in BOOLEAN
           /\ Success(t) => served[cur[t]] = Objects(cur[t])
           /\ Bits(t) # {} => \A c \in ChunkIds : chunk[cur[t]][c] \notin {"queued", "running"}
<1> DEFINE id == cur[t]
<1> USE DEF ReportInv
<1>a. id \in Ids /\ task[id] # None /\ ChunksOf(id) \subseteq ChunkIds
  BY HeldTask
<1>b. served[id] \subseteq Objects(id)
  BY <1>a DEF ServedOK
<1>c. Assembled(t) \subseteq served[id]
  <2> SUFFICES ASSUME NEW c \in ChunksOf(id), NEW p \in hit[id][c]
               PROVE  c * ChunkSize + p \in served[id]
    BY DEF Assembled
  <2> QED
    BY <1>a DEF ServedOK
<1>1. Bits(t) \subseteq served[id]
  BY <1>c DEF Bits
<1>2. Success(t) \in BOOLEAN
  BY DEF Success
<1>3. Success(t) => served[id] = Objects(id)
  BY <1>1, <1>b DEF Success
<1>4. ASSUME Bits(t) # {}, NEW c \in ChunkIds
      PROVE  chunk[id][c] \notin {"queued", "running"}
  <2>1. CASE task[id].kind = "lookup"
    BY <2>1, <1>a DEF ChunksOwned
  <2>2. CASE task[id].kind # "lookup"
    <3>1. ~failed[t]
      BY <1>4, <2>2 DEF Bits
    <3>2. AllDone(id)
      BY <2>2, <3>1 DEF GatheredOK
    <3> QED
      BY <3>2, <1>a DEF AllDone, ChunksOwned
  <2> QED
    BY <2>1, <2>2
<1> QED
  BY <1>1, <1>2, <1>3, <1>4, <1>b

(* A thread that leaves its task changes nothing that the task reported.   *)
LEMMA LeaveReportInv ==
    ASSUME CloseInv, ReportInv, NEW t \in Threads, LeaveTask(t),
           UNCHANGED <<next_id, task, work, chunk, hit, served, jobs, result, done, poller>>,
           signalled' \in [Kinds -> BOOLEAN], aborted' \subseteq Ids
    PROVE  ReportInv'
<1> USE DEF ReportInv
<1>s. Shape
  BY DEF CloseInv
<1>a. /\ pc' = [pc EXCEPT ![t] = "idle"] /\ cur' = [cur EXCEPT ![t] = None]
      /\ seen' = [seen EXCEPT ![t] = <<>>] /\ failed' = [failed EXCEPT ![t] = FALSE]
  BY DEF LeaveTask, GoTo
<1>h. \A x : ChunksOf(x)' = ChunksOf(x) /\ Objects(x)' = Objects(x)
  BY DEF ChunksOf, Objects
<1>b. /\ pc'[t] = "idle" /\ seen'[t] = <<>>
      /\ \A u \in Threads : u # t => /\ pc'[u] = pc[u] /\ cur'[u] = cur[u]
                                     /\ seen'[u] = seen[u] /\ failed'[u] = failed[u]
  BY <1>a, <1>s DEF Shape, AnswerTypes
<1>1. AnswerTypes'
  <2>1. seen' \in [Threads -> Seq(ChunkIds)] /\ failed' \in [Threads -> BOOLEAN]
    BY <1>a DEF AnswerTypes
  <2> QED
    BY <2>1 DEF AnswerTypes
<1>2. HeldOnce' /\ NoResultYet'
  BY <1>a, <1>b DEF HeldOnce, NoResultYet
<1>3. StepKinds'
  <2> SUFFICES ASSUME NEW u \in Threads
               PROVE  /\ pc'[u] \in {"submit", "gather"} => task[cur'[u]].kind # "lookup"
                      /\ pc'[u] \in {"mask", "pin"} => task[cur'[u]].kind = "lookup"
                      /\ pc'[u] \in {"idle", "submit"} => seen'[u] = <<>>
    BY DEF StepKinds
  <2>1. CASE u = t
    BY <2>1, <1>b
  <2>2. CASE u # t
    BY <2>2, <1>b DEF StepKinds
  <2> QED
    BY <2>1, <2>2
<1>4. GatheredOK'
  <2>1. pc'[t] # "gather" /\ pc'[t] # "record"
    BY <1>b
  <2> QED
    BY <2>1, <1>b, OthersGathered
<1>5. ChunksOwned' /\ JobsQueued' /\ ServedOK'
  BY <1>h DEF ChunksOwned, JobsQueued, ServedOK
<1>6. ResultsInRange' /\ ReportsAreTrue' /\ HitsAreSettled'
  BY <1>h DEF ResultsInRange, ReportsAreTrue, HitsAreSettled
<1> QED
  BY <1>1, <1>2, <1>3, <1>4, <1>5, <1>6

(* An exception outside the try leaves the reports of other tasks, and     *)
(* what the task itself has recorded, as they are.                         *)
LEMMA AbortReportInv ==
    ASSUME CloseInv, ReportInv, NEW t \in Threads, Abort(t)
    PROVE  ReportInv'
<1>1. cur[t] \in Ids
  BY HeldTask DEF Abort, Unguarded
<1>2. /\ LeaveTask(t) /\ signalled' = signalled /\ aborted' = aborted \cup {cur[t]}
      /\ UNCHANGED <<next_id, task, work, chunk, hit, served, jobs, result, done, poller>>
  BY DEF Abort, queues, chunks
<1>3. signalled' \in [Kinds -> BOOLEAN] /\ aborted' \subseteq Ids
  BY <1>1, <1>2 DEF ReportInv, AnswerTypes
<1> QED
  BY <1>2, <1>3, LeaveReportInv

LEMMA ReportReportInv ==
    ASSUME CloseInv, ReportInv, NEW t \in Threads, Report(t)
    PROVE  ReportInv'
<1> USE DEF ReportInv
<1> DEFINE id == cur[t]
<1>s. Shape
  BY DEF CloseInv
<1>a. /\ UNCHANGED <<next_id, task, work, chunk, hit, served, jobs, poller>>
      /\ pc[t] \in {"record", "notify"} /\ aborted' = aborted
  BY DEF Report, queues, chunks
<1>b. id \in Ids /\ task[id] # None /\ task[id].kind \in Kinds
  BY <1>a, HeldTask
<1>h. \A x : ChunksOf(x)' = ChunksOf(x) /\ Objects(x)' = Objects(x)
  BY <1>a DEF ChunksOf, Objects
<1>1. ChunksOwned' /\ JobsQueued' /\ ServedOK'
  BY <1>a, <1>h DEF ChunksOwned, JobsQueued, ServedOK
<1>2. CASE pc[t] = "record"
  <2>a. /\ UNCHANGED <<cur, seen, failed, signalled>>
        /\ pc' = [pc EXCEPT ![t] = "notify"]
        /\ done' = done \cup {id}
        /\ result' = [result EXCEPT ![id] = [ok |-> Success(t), bits |-> Bits(t)]]
    BY <1>2 DEF Report, GoTo
  <2>b. /\ Bits(t) \subseteq served[id] /\ Bits(t) \subseteq Objects(id)
        /\ Success(t) \in BOOLEAN
        /\ Success(t) => served[id] = Objects(id)
        /\ Bits(t) # {} => \A c \in ChunkIds : chunk[id][c] \notin {"queued", "running"}
    BY <1>2, RecordedIsTrue
  <2> HIDE DEF id
  <2>c. /\ DOMAIN result' = Ids
        /\ result'[id].ok = Success(t) /\ result'[id].bits = Bits(t)
        /\ \A x \in Ids : x # id => result'[x] = result[x]
    BY <2>a, <1>b DEF AnswerTypes
  <2>d. pc'[t] = "notify" /\ \A u \in Threads : u # t => pc'[u] = pc[u]
    BY <2>a, <1>s DEF Shape
  <2>e. /\ \A u \in Threads : pc[u] # "idle" /\ u # t => cur[u] # id
        /\ \A i \in 1 .. Len(work) : work[i] # id /\ work[i] \in Ids
    BY <1>2, <1>s DEF HeldOnce, Shape, id
  <2>1. AnswerTypes'
    BY <2>a, <2>c, <1>a, <1>b DEF AnswerTypes
  <2>2. HeldOnce'
    BY <2>a, <1>2, <1>a, <1>s, SameTask DEF Shape
  <2>3. NoResultYet'
    <3>1. \A i \in 1 .. Len(work) : result'[work[i]] = None
      BY <2>c, <2>e DEF NoResultYet
    <3>2. \A u \in Threads : pc'[u] \notin {"idle", "notify"} => result'[cur[u]] = None
      <4> SUFFICES ASSUME NEW u \in Threads, pc'[u] \notin {"idle", "notify"}
                   PROVE  result'[cur[u]] = None
        OBVIOUS
      <4>1. u # t /\ pc[u] \notin {"idle", "notify"}
        BY <2>d
      <4>2. cur[u] \in Ids /\ cur[u] # id
        BY <4>1, <2>e, HeldTask
      <4> QED
        BY <4>1, <4>2, <2>c DEF NoResultYet
    <3>3. \A x \in Ids : task[x] = None => result'[x] = None
      BY <2>c, <1>b DEF NoResultYet
    <3> QED
      BY <3>1, <3>2, <3>3, <2>a, <1>a DEF NoResultYet
  <2>4. StepKinds' /\ GatheredOK'
    <3>1. \A u \in Threads : pc'[u] = pc[u] \/ pc'[u] = "notify"
      BY <2>d
    <3>2. StepKinds'
      BY <3>1, <2>a, <1>a DEF StepKinds
    <3>3. GatheredOK'
      BY <3>1, <2>a, <1>a, <1>h DEF GatheredOK, SeenDone, AllDone
    <3> QED
      BY <3>2, <3>3
  <2>5. ResultsInRange' /\ ReportsAreTrue'
    BY <2>b, <2>c, <1>a, <1>h DEF ResultsInRange, ReportsAreTrue
  <2>6. HitsAreSettled'
    BY <2>b, <2>c, <1>a DEF HitsAreSettled
  <2> QED
    BY <2>1, <2>2, <2>3, <2>4, <2>5, <2>6, <1>1
<1>3. CASE pc[t] = "notify"
  <2>1. /\ LeaveTask(t) /\ UNCHANGED <<result, done>>
        /\ signalled' = [signalled EXCEPT ![task[id].kind] = TRUE]
    BY <1>3 DEF Report
  <2>2. signalled' \in [Kinds -> BOOLEAN] /\ aborted' \subseteq Ids
    BY <2>1, <1>a, <1>b DEF AnswerTypes
  <2> QED
    BY <2>1, <2>2, <1>a, LeaveReportInv
<1> QED
  BY <1>2, <1>3, <1>a

LEMMA NextReportInv == CloseInv /\ ReportInv /\ [Next]_vars => ReportInv'
<1> SUFFICES ASSUME CloseInv, ReportInv, [Next]_vars PROVE ReportInv'
  OBVIOUS
<1>1. CASE \E r \in Requests : Submit(r)
  BY <1>1, SubmitReportInv
<1>2. CASE \E t \in Threads : ThreadStep(t)
  BY <1>2, StartReportInv, SubmitChunkReportInv, GatherReportInv, LookupReportInv,
     ReportReportInv, AbortReportInv DEF ThreadStep
<1>3. CASE StartChunk
  BY <1>3, StartChunkReportInv
<1>4. CASE \E id \in Ids, c \in ChunkIds : EndChunk(id, c)
  BY <1>4, EndChunkReportInv
<1>5. CASE (\E k \in Kinds : PollStep(k)) \/ BeginClose \/ Close \/ UNCHANGED vars
  BY <1>5, CallerStepReportInv
<1> QED
  BY <1>1, <1>2, <1>3, <1>4, <1>5 DEF Next, Stopped

LEMMA PluginInvariant == Spec => [](CloseInv /\ ReportInv)
  BY InitCloseInv, InitReportInv, NextCloseInv, NextReportInv, PTL DEF Spec

(* The plugin's state keeps its types, and no recorded bitmap names an     *)
(* object outside the caller's list (_store_sync, _lookup_sync,            *)
(* _load_sync).                                                            *)
THEOREM PluginTypeCorrect == Spec => []TypeOK
<1>1. CloseInv /\ ReportInv => TypeOK
  <2> SUFFICES ASSUME CloseInv, ReportInv PROVE TypeOK
    OBVIOUS
  <2>1. Shape /\ AnswerTypes /\ ResultsInRange
    BY DEF CloseInv, ReportInv
  <2>2. next_id \in 0 .. MaxTasks
    BY <2>1, TasksAssumption DEF Shape, AnswerTypes
  <2>3. \A id \in Ids, c \in ChunkIds : hit[id][c] \subseteq 0 .. ChunkSize - 1
    BY <2>1 DEF AnswerTypes
  <2> QED
    BY <2>1, <2>2, <2>3 DEF TypeOK, Shape, AnswerTypes, ResultsInRange, ChunkStates
<1> QED
  BY <1>1, PluginInvariant, PTL

(* For every chunk size, number of threads and order in which chunks end,  *)
(* a load's bitmap and a store's count name only objects the engine filled *)
(* or wrote, at their place in the caller's list, and a store that reports *)
(* success has written them all (_parallel_chunks).                        *)
THEOREM ReportsTellTheTruth == Spec => []ReportsAreTrue
<1>1. ReportInv => ReportsAreTrue
  BY DEF ReportInv
<1> QED
  BY <1>1, PluginInvariant, PTL

(* Once a task has reported a hit, no thread of the batch executor holds   *)
(* or will take a chunk of it, so the caller may use its buffers           *)
(* (_parallel_chunks waits for every future unless one raised).            *)
THEOREM ReportedHitsAreSettled == Spec => []HitsAreSettled
<1>1. ReportInv => HitsAreSettled
  BY DEF ReportInv
<1> QED
  BY <1>1, PluginInvariant, PTL
=============================================================================
