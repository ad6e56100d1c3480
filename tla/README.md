# lmcache-aerospike: TLA+ models and proofs

`lmcache-aerospike` stores LMCache's KV-cache chunks in an Aerospike namespace.
A chunk becomes one *meta* record and, when it is large, one *segment* record
per slice. Aerospike updates one record atomically and offers nothing across
records, so everything the package promises about a chunk rests on the order in
which it issues requests. Around that engine sit three front ends with thread
pools, a shared client and a close of their own. This directory models both
layers, checks them with TLC and proves their safety with TLAPS.

## The system

| component | state | operations | hard behaviours |
|---|---|---|---|
| storage engine (`engine.py`, with `serde.py`, `policies.py`) | the records on the server; per call: plan, bins read, segments read, memory object | `put`, `get`, `exists`, `pin`, `unpin`, `remove`, `batched_*` | several requests per operation, interleaved with other threads, processes and nodes; requests applied after their client gave up; crashes between requests; TTL expiry of single records; partial results of batches |
| shard planner (`sharding.py`) | none | `plan`, `slice_lengths` | rounding at segment boundaries |
| limit discovery (`limits.py`) | limits resolved at start-up | `discover_limits`, `resolve_segment_limits` | clamping of three related limits; limits stale after a server change |
| remote connector (`connector.py`, `adapter.py`) | executor, batch semaphore, closed flag | single and batched calls from asyncio, `close` | `gather` with one failing member, cancelled callers, a close that stops the loop |
| storage plugin (`storage_plugin.py`, `plugin_support.py`) | `_put_tasks`, executor | submit, contains, get, pin, remove, close | a failing put in the middle of a list, overlapping lists, submission from inside the pool, close during submits |
| L2 plugin (`l2_plugin.py`) | task ids, three result dictionaries, event notifiers, `_locked` counters, two executors | submit/query for store, lookup-and-lock, load; unlock; delete; close | unlocked read-modify-write of `_locked`, chunk threads that outlive their task, order of shutdowns |
| client holder (`client.py`) | registry of reference-counted clients | `get_or_create`, `release` | construction that fails after acquiring, release while others use the client |
| native connector (`csrc/aerospike`) | one C client, LMCache's worker threads | get, set, exists, delete, close | the same records as the engine, with its own planner |
| configuration, keys, errors, metrics | none | parsing, formatting, mapping, counting | none |

The connectors and plugins call the engine from executor threads, several at a
time; engines of different processes and nodes meet in the records of one
namespace. The engine calls the planner with the limits that discovery resolved
once, when the connector was constructed. All owners of one process that talk
to the same cluster share one client.

What makes the components correct:

- engine: a `get` that returns an object returns one payload, complete; `exists`
  is true only of complete entries; a memory object allocated by `get` is handed
  over or released once; an entry that can be read is not destroyed by storing,
  pinning or unpinning it; a batched call tells the truth about each item; every
  operation ends.
- planner and discovery: slices partition the payload; no record exceeds the cap.
- connectors and plugins: every accepted task is answered once, buffers are not
  touched after the answer, permits and references are conserved, every call
  ends, nothing uses a client after its release.
- native connector: it and the Python engine can read and overwrite each other's
  entries.

## Modules

| module | models | used by |
|---|---|---|
| `ShardPlan` | `plan`, `slice_lengths`, the slices of `put`: pure operators | the engine modules, `SegmentLimits` |
| `ShardPlanProofs` | theorems about the planner | `AerospikeEngineProofs`, `SegmentLimitsProofs` |
| `SegmentLimits` | start-up probe, clamping, then planning with those limits, restarts, reconfiguration of the namespace | `MCSegmentLimits`, `SegmentLimitsProofs` |
| `AerospikeEngine` | the engine against the server's records | `BatchedEngine`, `NativeEngine`, `MCAerospikeEngine`, `AerospikeEngineProofs` |
| `ChunkCache` | what the engine promises LMCache, abstractly | instantiated by `AerospikeEngine` |
| `BatchedEngine` | `batched_put`, `batched_get_preallocated` composed of the engine's requests and operations | `MCBatchedEngine`, `BatchedEngineProofs` |
| `NativeEngine` | native workers beside Python ones on the same records | `MCNativeEngine` |
| `ClientLifecycle` | the client holder with construction and close of all its owners | `MCClientLifecycle`, `ClientLifecycleProofs` |
| `RemoteConnector` | coroutines, executor, semaphore and close of the remote connector | `MCRemoteConnector`, `RemoteConnectorProofs` |
| `StoragePlugin` | submitted lists, `_put_tasks`, executor and close of the storage plugin | `MCStoragePlugin`, `StoragePluginProofs` |
| `L2Plugin` | tasks of the L2 plugin, its two thread pools, results, notifiers, close | `MCL2Plugin`, `L2PluginProofs` |
| `AerospikeEngineProofs` | inductive invariants, theorems and the refinement proof of `AerospikeEngine` | `BatchedEngineProofs` |
| `BatchedEngineProofs`, `SegmentLimitsProofs`, `ClientLifecycleProofs`, `RemoteConnectorProofs`, `StoragePluginProofs`, `L2PluginProofs` | inductive invariants and theorems of the module they are named after | |
| `MC*` | small instances for TLC | |

A definition commented `Fault` is a mutated form of the definition after it. No
specification uses it; it is there to show that a property notices the fault.

### AerospikeEngine

`meta[k]` and `seg[k][i]` are the records. A worker is a thread inside one call
of the engine; `pc`, `job`, `todo`, `bins`, `got` and `buf` are the locals of
that call, `ret` what it returned. An action is one request to the server
together with the code up to the next one, so `put` is `PutPlan` (or
`PutRejected`, when the planner raises), one `PutSegment` per sub-request of the batch in any order, then `PutMeta`; `get` is
`GetInline`, or `GetSharded`, one `GetSegment` per read and one `GetCopy` per turn
of the copy loop; `FinishGet` is their common end with the checksum and `_reshape`,
which may raise. `PutFails`, `GetSegmentsFail`, `PinWriteFails`, ... are the exits
taken when a request fails.

- *Delivery.* A request whose client got an error may never be served, or be
  served later (`late`, `ServeLate`): a timeout says nothing about the server.
  Sub-requests of a batch may be served twice (`Resent`), because `batch_policy`
  leaves the client's retries on; `write_policy` turns them off for single writes.
- *Crashes.* `Crash` ends a worker anywhere, with its requests treated likewise.
- *Expiry.* A record with a finite TTL may vanish at any time, each for itself.
- *Bins.* A write leaves the bins it does not name: `MetaPut` keeps the inline
  payload and the checksum of an earlier entry, as `POLICY_EXISTS_IGNORE` does,
  and `MetaPin` creates a record where there is none.
- *Bytes.* A fragment is a range of a payload. A buffer knows whether its first
  `n` bytes are the first `n` of one payload (`of`) or no payload's (`NoData`). Equal
  checksums are taken to mean equal bytes.
- *Options.* `Limits[w]` lets every worker have limits of its own (another
  configuration, another probe); `CrcWorkers`, `SaveChunkMeta`, `DefaultTtl` and
  `Buffers` (allocated by `get`, or given by the caller) are the code's options.

`exists(k)` is an operator: `exists`, `batched_contains` and
`batched_exists_mask` look at the presence of meta records only.

### ChunkCache and the refinement

`ChunkCache` is a map from keys to chunks that may forget and never invents:
clients offer chunks, an offered chunk becomes the entry in one step, entries
get lost, and an answer is an offered chunk of that key or nothing.
`AerospikeEngine` instantiates it (`Cache`) with the entry of a key read off the
records (the payload of a readable entry), the answer off what `get` returned.
`ImplementsCache` is the abstract specification as a property of the detailed
one: several non-atomic requests per entry, of several writers, with late and
repeated delivery, look like atomic steps of a map. It is checked where the code
can promise it, with checksums on; `engine_layout_mix` shows that without them
it cannot.

### BatchedEngine

A worker of `Batchers` runs lists of items. `OpenChunk` plans a chunk of the
list; single-record items are one `WriteItem` each of the chunk's batch, a chunk
with a sharded item becomes a loop of `CallPut` and `AfterPut` around the
engine's own put actions; a get is one `ReadItem` per meta record and then
`CallGet` and `AfterGet` for the sharded ones. `AfterPut` keeps the code's
asymmetry: some errors of a put become a `False`, a timeout or a lost connection
ends the whole call, and the flags of what was already stored are lost with it.
An empty list is returned at once and is no batch of the model.

### NativeEngine

Workers of `Native` run `do_single_set`, `do_single_get` and `do_single_delete`
one request at a time, without retries and without a batch; the Python workers
beside them are those of `AerospikeEngine`, on the same records. `NativeLimits`
and `NativePlan` translate the native limits and planner. `tot_b` and `seg_b` of
a record are represented by the payload it names and its number of segments,
which determine them for writers that balance segments. Both sides have to run
with equal limits: the native connector writes no checksum, so differing layouts
mix as in `engine_layout_mix`. Its threads, its queue and its close are LMCache's
`ConnectorBase`, which is not in this repository.

### ClientLifecycle

An owner is a remote connector, a storage plugin or an L2 plugin. `Acquire` is
`get_or_create`, `Constructed` and `ProbeFails` are the ends of the limit probe
that follows it, `BeginClose` and `EndClose` surround `shutdown(wait=True)`;
`EndClose` releases. A holder is named after the owner that created it, so two
clients for one cluster can be told apart. The class lock makes `get_or_create`
and `release` single steps. What the model shows of `ProbeFails`: the reference
of a failed construction is never given back and its client stays connected;
`CountIsExact` and `OneClientPerCluster` name that as the one exception. The L2
plugin has no closed flag; `ClosedOnce` states that LMCache closes it once. With a second close
it would release a reference of another owner.

### RemoteConnector

A call is a kind and a number of distinct keys. `item[c][i]` follows one engine
call: scheduled (`ready`), queued, running, ended. The coroutine of the call sees
the end of an item only when the loop resumes it (`ResumeGet`, `ResumePut`,
`ResumeNonBlocking`), which it cannot while `close` waits for the executor without
yielding (`LoopRuns`). The loop starts the puts of a `gather` in their order and
before it resumes the coroutine with a result of one of them; the order in which
`_sem_get` gets its permits is left open. `Cancel` is the timeout of LMCache's blocking gets: the
coroutine is cancelled, a queued engine call is withdrawn, a running one goes on
and its object goes nowhere. The objects of calls that raise or are cancelled are
marked `dropped`: the code has no code for them, they stay allocated.

### StoragePlugin

A list goes from `Mark` (its keys enter `_put_tasks`) over `Submit` to a thread
that walks it (`EndPut`, then `Discard`, the `finally`). The async variant first
occupies a thread of the same pool (`SubmitWrapped`, `EnterWrapped`) and gives it
up after the inner submission. An exception ends the list, with the keys behind
it left in the set; an executor that was shut down between `Mark` and `Submit`
refuses the list, with all its keys left. `PendingIsVisible` and `NoGhostPending`
state what `exists_in_put_tasks` means up to these exceptions and the one that a
set has one entry for two submissions of a key. They delimit these defects, which
the code has, and show that there are no others.

### L2Plugin

A task is a kind (store, lookup, load) and a number of objects; `work` is the
executor's queue, `pc` and `cur` its threads. `_parallel_chunks` is `SubmitChunk`,
one `StartChunk` and `EndChunk` per chunk in the batch executor, and one `Gather` per
future that `as_completed` yields, in order of completion (`seen`). A list that
fits into one chunk is run by the task's own thread, by the same `EndChunk`. What
the engine call does to the objects is a choice of `EndChunk`: any of them may be
served, or the call may raise; `served` remembers which really were. `Report` is
the end of `_store_sync`, `_lookup_sync` and `_load_sync`: the result goes into the
dictionary, then the notifier is signalled. `Wake` and `Pop` are the caller, who
consumes the event and then asks for results, as the tests do. `stage` is the
position of `close()`; a pool that was shut down refuses new work with an
exception, which a task catches and `Submit` passes to its caller.

The engine's details are left to `AerospikeEngine`; here its calls are opaque.
`Abort` is an exception outside every `try`: in a lookup's key conversion, in
`pin_keys` or in a listener of LMCache that hears of accessed or stored keys.
`pin_keys` swallows the client's errors, so in practice it takes a raising
listener. A lookup then ends without a result; a store has its result in the
dictionary, but nobody is woken for it until the next store signals.
`AcceptedIsRecorded` and `ResultsArrive` name these tasks (`aborted`) as their one
exception, and show that no other failure loses a result or a wake-up.

What the model also shows, and what no run asserts because nothing in the
repository promises otherwise: when one chunk of a task raises, or the batch
executor refuses one, the task is reported as failed while its other chunks are
still running, so a failed load may go on writing to the caller's buffers, and a
failed store reading them, until those chunks end. `HitsAreSettled` says that
this cannot happen for a task that reports a hit.

### SegmentLimits

A numeric field of the info response is a number, missing or unparsable; a
configuration option left unset is 0. `Construct`, `ConstructionFails` and `Recreate` are the life of a
connector, `PlanPut` plans a payload with its limits, `ReconfigureServer` changes
what the next probe will see. Byte counts are scaled down, the margin to 2 and
the range of legal record caps to 6 .. 12; overrides on both sides of the target
are among the configurations.

## Runs

| run | expects | question |
|---|---|---|
| `limits` | pass | Does every planned record leave the margin below the probed cap (`RecordsFit`), and are the slices exactly the payload (`SlicesReassemble`)? |
| `engine_agreed` | pass | With workers that agree on payload and layout, all operations and faults: is a hit the whole payload (`HitIntact`), is every allocated buffer accounted for (`BufferAccounted`), and does a readable entry become unreadable only by the loss of a record (`ReadableStaysReadable`)? |
| `engine_crc` | pass | Two payloads for one key and two layouts, checksums on: does the engine implement `ChunkCache`, and does `exists` report only complete entries (`ExistsOnlyCommitted`)? |
| `engine_batched` | pass | Lists that mix single-record and sharded entries over two chunks: does a raised flag stand for a filled buffer (`FlaggedIsFilled`), is there one true flag per stored item (`FlagsTellWhatIsStored`), do operations and batched calls end? |
| `native_shared` | pass | A Python and a native engine on one set of records: the same as `engine_agreed` for hits and for readability. |
| `client_lifecycle` | pass | Is the client connected while anybody uses it (`NoUseAfterClose`), is the count exact, is there one client per cluster and none without need, does close return? |
| `remote_connector` | pass | Are fetched objects returned or released (`ObjectsAccounted`), is a returned `batched_put` done with its objects (`PutsSettled`), are permits conserved, does every call end, close or not? |
| `storage_plugin` | pass | Does `_put_tasks` show what is pending (`PendingIsVisible`, `NoGhostPending`), is nothing at work after the release (`NoPutAfterRelease`), does every submission end? |
| `l2` | pass | Do the reported bits name the objects really served (`ReportsAreTrue`), is a reported hit no longer being worked on (`HitsAreSettled`), is nothing at work after `close()` released the client (`NoUseAfterRelease`), is every accepted task recorded and does its result reach the polling caller, unless an unguarded step (a listener, say) raised? |
| `engine_layout_mix` | violation | `HitIntact` with two layouts and no checksum: `get` returns a mix. |
| `engine_pin_ghost` | violation | Is every existing meta record a ready one? `pin` of a record that expired under it creates one that is not. |
| `connector_put` | violation | Is the connector done with its memory objects when `batched_put` gives control back? Not when one of the puts raised: the others still run. |

The `violation` runs are disagreements between the code and its documents; the
findings in `PROJECT.json` quote both. More such disagreements show on
reading and have no run:

- an override of `max_segment_bytes` below `target_segment_bytes` is accepted at
  start-up (DESIGN.md:389) and then makes every non-empty put raise
  (`sharding.py:31`), also where DESIGN.md:334 stores a single record;
- a `remove` that overlaps a `put` of the same key can leave, with both over, a
  meta record without segments, where DESIGN.md:520 speaks of a brief state of an
  in-flight writer;
- `pin` gives a finite TTL where DESIGN.md section 4.3 says never-expire;
- a sharded overwrite leaves the bin `b` of a single-record entry in place, which
  is said to be present only when `nseg == 1`;
- a timeout of the segment read is raised by `get`, which is said to treat
  timeouts as misses.

*Bounds.* Engine runs: one key, as the engine never relates two (two keys where
lists or two sizes are the point: `engine_batched`, `native_shared`). Two workers:
every race described above is one of two operations, a writer that died being
represented by its late requests. Two segments (three in `engine_layout_mix`): the
last segment is shorter than the first, so order, loss and rounding show. One
held-back request at a time (`MaxLate`); 0 in `engine_batched`, whose properties
are about flags and termination, and in the violation runs, which need none. Two
payloads of different sizes where payloads differ. In `engine_crc` the TTL is
never-expire and nothing is removed, because expiry and removal legitimately make
entries incomplete. `engine_batched` has a list of three items in chunks of two,
short, long, short: the first chunk goes through the loop, the second, which is
shorter, through the batch; the second worker reads and removes, and its own puts are refused by the
planner. `native_shared` has buffers one byte shorter and one byte longer than
an entry. `engine_agreed` uses the symmetry of its identical workers; its one
temporal property is an action property that names no worker.

`client_lifecycle` has two remote connectors, a storage plugin and an L2 plugin on
one cluster, with one executor task each: four owners allow a failed
construction, a holder that is closed and created again, and two users of it.
`remote_connector` has two calls of any of the five kinds, with one permit, so
that calls wait for each other, two threads, and lists of three for
`batched_get_non_blocking`, which need a hit, a miss and a hit behind it.
`storage_plugin` has three lists over two keys on two threads: two async
submissions can fill the pool while a third waits. `l2` has two tasks, two
executor threads and one chunk thread (the code gives the chunk pool a quarter of
the executor's threads, at least one); with chunks of two objects, lists of one
and three objects give an inline task and a task of a full and a short chunk.

Deadlock is checked except in `remote_connector`, `connector_put` and
`storage_plugin`, whose calls are finitely many and may all be over.

*Fairness.* Weak fairness of every started operation, thread, loop step and
close, never of an operation's start, of a failure, of a crash or of a success.
The code justifies it: every request has a `total_timeout`, after which the client
library returns control to its thread; executor threads and the event loop are
scheduled; a close that has begun goes on when its pool is empty. In
`remote_connector` the loop is not fair while `close` blocks it, as `LoopRuns`
disables its steps; weak fairness of `TakePermit` is enough because a finite
number of calls compete for permits.

## Proofs

Every invariant, every action property and the refinement that a passing run
checks in its small instance is also a theorem, for all constants that satisfy
the `ASSUME`s of its module: any number of workers, keys, payloads, segments,
threads, owners, calls, lists and tasks. (`native_shared` is the exception: see
the end of this section.) The inductive invariants named below were checked with
TLC before they were proved.

| theorem | states | under |
|---|---|---|
| `PlanShape`, `SlicesTile` | a plan is refused or has at least one record no larger than `max_segment_bytes`; its slices are non-empty, adjacent and end with the payload | a positive target |
| `PlanningTypeCorrect`, `PlannedRecordsFit`, `PlannedSlicesReassemble` | `TypeOK`, `RecordsFit`, `SlicesReassemble` of `SegmentLimits` | |
| `TypeCorrect`, `BuffersAccounted` | `TypeOK`, `BufferAccounted` of the engine | |
| `ExistingIsCommitted` | `ExistsOnlyCommitted` | `NothingLeaves` |
| `HitsAreIntact` | `HitIntact` | `Guarded`, `BuffersFit` |
| `ReadableUntilLost` | `ReadableStaysReadable`, an action property | `OneLayout` |
| `EngineImplementsCache` | `ImplementsCache`: the engine implements `ChunkCache` | `Guarded` |
| `FlagsTellTheTruth` | `FlagsTellWhatIsStored` of `BatchedEngine` | |
| `RaisedFlagsAreFilled` | `FlaggedIsFilled` | `Guarded` |
| `CountStaysExact`, `ClientOutlivesItsUses`, `ClusterHasOneClient` | `CountIsExact`, `NoUseAfterClose`, `OneClientPerCluster` | `ClosesOnce` |
| `PermitsAreConserved`, `ObjectsAreAccounted`, `PutsAreSettled` | the invariants of `RemoteConnector` | |
| `PendingStaysVisible`, `NoKeyIsPendingForNothing`, `ReleaseIsLast` | the invariants of `StoragePlugin` | |
| `PluginTypeCorrect`, `ReportsTellTheTruth`, `ReportedHitsAreSettled`, `ReleasedIsQuiet` | the invariants of `L2Plugin` | |

### Hypotheses

The last column names conditions on the deployment, stated as definitions and
put before the theorem, because the code does not establish them itself. Each
holds in the run that checks the property, and where one is missing a run or the
text above shows what goes wrong.

- `Guarded` is `OneLayout \/ AllCheck`. `OneLayout`: a key is content addressed,
  so it is given one payload only, and the engines that accept a payload cut it
  alike. That is how LMCache uses its keys and how a fleet with one configuration
  runs (`engine_agreed`). `AllCheck`: every engine writes and compares checksums
  (`engine_crc`). Without either, `engine_layout_mix` is the counterexample.
- `BuffersFit`: payloads of one key have one length, or `get` allocates the
  buffer. A caller's buffer that is larger than the entry is filled in part, and
  only the caller could know.
- `NothingLeaves`: no `remove`, no TTL. Removal and expiry take records one by
  one, so an entry is legitimately incomplete while they are at work.
- `ClosesOnce`: an owner is closed at most once. Connector and storage plugin have
  a flag for that; that LMCache closes its L2 plugin once is an assumption.

`ReadableUntilLost` needs `OneLayout`, not only checksums: with two layouts an
overwrite makes the old entry unreadable before the new one is complete.

### Assumptions on the constants

Engine: payload sizes are naturals; limits have a positive target (configuration
refuses others); `MaxSegs` covers the plans, as without it there would be no
finite index set; switches are booleans; `NoData` and `Absent` are no payload and
no record. Batched engine: chunks hold at least one key; lists are non-empty and
made of payloads that the key may be given; buffers are the caller's, as
`batched_get_preallocated` has no others, and `batched_put` does not pin.
Connector: finitely many calls and requests (permits are counted by cardinality);
only `get` and `batched_get` run under a caller's timeout, as LMCache's blocking
gets do; a semaphore and a pool of at least one. Plugins: lists are non-empty
where an empty one returns at once, pools and chunks have at least size one.
TLC evaluates all of them on every run.

### Arguments

*Planner and limits.* The arithmetic rests on `CeilDivBounds` (a rounded-up
quotient is the least number whose product covers the dividend). `PlanningInv`
adds to the types that the resolved maximum leaves the margin below the cap and
that the last plan was made with the limits in force: `RecordsFit` alone says
nothing of the limits with which the next put will be planned.

*Engine, shape.* `IInv` adds to the types what each program point knows. `TypeOK`
alone is not inductive: that the segment a put cuts is a well-formed range needs
that its index is below the number of segments of its plan (with `SlicesTile`);
that `get` can allocate needs that a ready meta record names a payload; that a
release leaves no negative count needs that a reader holds one reference. One lemma
per group of actions, over lemmas about the few operators through which actions
change state (`Serve`, `HoldBack`, `Return`, `Start`). `StepForms` and `WorkerForms`
say once what any step can be to the records and to the other workers; the later
invariants are proved against these forms, not against each action again.

*Engine, commit order.* `KeptInv`: a ready meta record has its segments, a worker
about to write meta has all its segments stored, one that is still writing has
stored those not in `todo`, and a held-back meta write has its segments too. The
last conjunct is why a request served after its client gave up does no harm.

*Engine, bytes.* `FromInv` follows every byte back to a `put`: what stands in a
record, in a request held back, in the answers of a read and in a buffer are
slices, at the right place, of payloads offered for that key. `CopyInOrder` says
what one turn of the copy loop does to a buffer whose first bytes are one
payload's; `WholeBuffer` and `CheckedBytes` are the two reasons why a full buffer is
one payload: all slices are of the only payload and the only layout, or the
checksum agrees. From `FromInv` follow `HitIntact`, the readability of what was
committed (`CommittedIsReadable`, `ReadyStays`) and the refinement.

*Refinement.* A step of the engine changes entries or answers and offers, never
both (`StoreOrAnswer`), and it changes the records of one key
at most (`OneKeyChanges`).
A step that answers maps to the answer of an offered chunk or of nothing
(`AnswerStep`); a step of the records maps to an entry being stored, lost or left
alone (`EntryStep`); the start of a put offers its chunk (`OfferStep`).

*Batched calls.* `ListsInv` is about the list in work alone: how many flags there
are at each phase of each chunk, that each tells what was acknowledged, and that
nothing else was except in the batch under way. It suffices for
`FlagsTellWhatIsStored`, in which chunk boundaries are the danger. `BatchedInv`
joins it with `IInv`, `FromInv` and with `CallsInv`: a filled place holds a payload
offered for its key, and the call of `get` in progress is for the key at the place
whose flag it will raise. To the engine a step of a batched call is one of its own,
an offer or a write (`BatchForms`), so that its invariants need no second proof.

*Client.* `LifecycleInv`: the count is the cardinality of the owners that have to
give a reference back; a client is connected exactly while its count is positive,
and then it is the registered one; only owners with a holder have tasks.

*Connector.* `ConnectorInv` holds how far a call under way can have come
(`CallShape`): what its coroutine has seen is finished, a get walks its keys in
order, a call that returned has nothing outstanding. Permits are counted as the
cardinality of the calls and of the `_sem_get` tasks that hold one.

*Storage plugin.* `PluginInv` are the three properties together with the position
of each list in its walk: which of its keys are still to be discarded is what
tells a pending key from one left behind.

*L2 plugin.* `CloseInv` is about who holds a chunk: a queued one is in the batch
executor's queue, a running one is in that pool or is the single inline chunk of a
task whose thread is gathering; so what `close()` waited for stays empty. `ReportInv`
adds that a task is in one place only (the queue or one thread) and has no result
before that thread reports, and that gathered chunks are finished and what they
hit was served. That a reported hit is settled needs a count: as many different
gathered chunks as there are, are all of them (`AllAreSeen`).

### Only model-checked

- Liveness (`OperationsEnd`, `BatchesEnd`, `CloseEnds`, `CallsEnd`, `ListsEnd`,
  `AcceptedIsRecorded`, `ResultsArrive`): fairness is out of the prover's reach.
- `NativeEngine`: `HitIntact` and `ReadableStaysReadable` of its `SharedSpec`, with
  native workers beside the Python ones. The lemmas of `AerospikeEngineProofs` about
  records and requests apply to its steps; the proof is not written.
- The three counterexamples, which need no proof.

## Not modelled

- Configuration parsing, key formatting and translation, error messages, metrics,
  the build script, the benchmarks and scripts: no control of the parts above
  depends on them.
- `list` and `ping` read and change nothing; `touch_cache` and the allocator
  methods of the storage plugin pass calls through.
- The L2 plugin's `_locked` counters and `submit_unlock`: they decide only whether
  `unpin` is called, are changed without a lock, so that updates may be lost, and
  no text says what they promise. Its `delete()` is a loop over the engine's
  `remove`. What LMCache's listeners do when they are notified is outside this
  repository; that they may raise is modelled (`Abort`).
- Calls that run on the caller's own thread (`exists_sync`, `remove_sync`,
  `get_blocking`, `contains`, `pin`): `close` does not wait for them; that LMCache
  makes none during close is an assumption of `ClientLifecycle`.
- Threads, queue and close of the native connector (LMCache's `ConnectorBase`).
- Cold restarts of the server, which may resurrect deleted records, and lost
  replicas: the code does nothing about them.

## Plan

Done: the engine with its batched operations and its abstract specification, the
planner, limit discovery, the native engine, the client life cycle and the three
front ends, with proofs of all safety properties but those of the native engine.

Worth adding: the theorems of `NativeEngine`, from `FromInv` extended to the native
workers' locals; `BuffersAccounted` and `TypeCorrect` restated for `BSpec`, which
`BatchedInv` already implies.
