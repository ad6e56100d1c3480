--------------------------- MODULE StoragePlugin ---------------------------
(***************************************************************************)
(* AerospikeStoragePlugin: lists of puts submitted from caller threads or, *)
(* through async_batched_submit_put_task, from a thread of the executor    *)
(* itself; the set _put_tasks they share; and close.  A list is walked by  *)
(* one executor thread, put by put.                                        *)
(***************************************************************************)
EXTENDS Integers, Sequences, FiniteSets

CONSTANTS Lists,     \* calls of (async_)batched_submit_put_task
          Keys,
          KeyLists,  \* the lists of keys that are submitted
          Threads    \* executor_threads

ASSUME KeyListsAssumption == KeyLists \subseteq Seq(Keys) \ {<<>>}
ASSUME ThreadsAssumption == Threads \in Nat \ {0}

VARIABLES keys,       \* keys[l]: the keys of the list
          pc,         \* pc[l]: "new", "wrapped" and "entered" (the async call
                      \* waits for a thread, has one), "marked" (between
                      \* _put_tasks.update and submit), "queued", "put" and
                      \* "putted" (before and after a key's put), and one of
                      \* Ends
          wrapped,    \* wrapped[l]: it came through the async call
          at,         \* at[l]: the position of the key in work
          failed,     \* failed[l]: the put or the callback raised
          put_tasks,  \* _put_tasks
          stage       \* "open", "closing" or "closed"

vars == <<keys, pc, wrapped, at, failed, put_tasks, stage>>

Ends == {"done", "raised", "refused"}

Init == /\ keys \in [Lists -> KeyLists]
        /\ pc = [l \in Lists |-> "new"]
        /\ wrapped = [l \in Lists |-> FALSE]
        /\ at = [l \in Lists |-> 1]
        /\ failed = [l \in Lists |-> FALSE]
        /\ put_tasks = {}
        /\ stage = "open"

KeySet(l) == {keys[l][i] : i \in DOMAIN keys[l]}

GoTo(l, p) == pc' = [pc EXCEPT ![l] = p]

(* Fault: the async call keeps its thread until the list is done (it waits *)
(* for the future it is given).                                            *)
HoldsThreadUntilDone(l) ==
    \/ pc[l] \in {"entered", "put", "putted"}
    \/ wrapped[l] /\ pc[l] \in {"marked", "queued"}

(* The list occupies a thread of the executor.                             *)
HoldsThread(l) == \/ pc[l] \in {"entered", "put", "putted"}
                  \/ wrapped[l] /\ pc[l] = "marked"

FreeThread == Cardinality({l \in Lists : HoldsThread(l)}) < Threads

-----------------------------------------------------------------------------
(* async_batched_submit_put_task: run_in_executor, refused after shutdown. *)
SubmitWrapped(l) ==
    /\ pc[l] = "new"
    /\ GoTo(l, IF stage = "open" THEN "wrapped" ELSE "refused")
    /\ wrapped' = [wrapped EXCEPT ![l] = TRUE]
    /\ UNCHANGED <<keys, at, failed, put_tasks, stage>>

EnterWrapped(l) ==
    /\ pc[l] = "wrapped" /\ FreeThread
    /\ GoTo(l, "entered")
    /\ UNCHANGED <<keys, wrapped, at, failed, put_tasks, stage>>

(* batched_submit_put_task, under the lock: the keys become pending.       *)
Mark(l) ==
    /\ pc[l] \in {"new", "entered"}
    /\ put_tasks' = put_tasks \cup KeySet(l)
    /\ GoTo(l, "marked")
    /\ UNCHANGED <<keys, wrapped, at, failed, stage>>

(* The list goes to the executor, which raises once it is shut down: the   *)
(* keys stay pending.                                                      *)
Submit(l) ==
    /\ pc[l] = "marked"
    /\ GoTo(l, IF stage = "open" THEN "queued" ELSE "refused")
    /\ UNCHANGED <<keys, wrapped, at, failed, put_tasks, stage>>

(* _put_all: a thread takes the list ...                                   *)
StartList(l) ==
    /\ pc[l] = "queued" /\ FreeThread
    /\ GoTo(l, "put")
    /\ UNCHANGED <<keys, wrapped, at, failed, put_tasks, stage>>

(* ... engine.put and the callback end, or one of them raises ...          *)
EndPut(l) ==
    /\ pc[l] = "put"
    /\ GoTo(l, "putted")
    /\ \E raises \in BOOLEAN : failed' = [failed EXCEPT ![l] = raises]
    /\ UNCHANGED <<keys, wrapped, at, put_tasks, stage>>

(* Fault: a put that raises leaves its key pending (no finally).           *)
DiscardedIfStored(l) == IF failed[l] THEN put_tasks ELSE put_tasks \ {keys[l][at[l]]}

(* Fault: the end of one key clears the whole list.                        *)
DiscardedAll(l) == put_tasks \ KeySet(l)

Discarded(l) == put_tasks \ {keys[l][at[l]]}

(* ... and the key is discarded in either case.  An exception ends the     *)
(* list: the keys behind it are never put and stay pending.                *)
Discard(l) ==
    /\ pc[l] = "putted"
    /\ put_tasks' = Discarded(l)
    /\ \/ /\ failed[l] \/ at[l] = Len(keys[l])
          /\ GoTo(l, IF failed[l] THEN "raised" ELSE "done")
          /\ at' = at
       \/ /\ ~failed[l] /\ at[l] < Len(keys[l])
          /\ GoTo(l, "put")
          /\ at' = [at EXCEPT ![l] = @ + 1]
    /\ UNCHANGED <<keys, wrapped, failed, stage>>

-----------------------------------------------------------------------------
(* close: no submission from now on ...                                    *)
BeginClose == /\ stage = "open" /\ stage' = "closing"
              /\ UNCHANGED <<keys, pc, wrapped, at, failed, put_tasks>>

(* Fault: shutdown(wait=False) does not wait for a list that is running.   *)
DrainedQueue == \A l \in Lists : pc[l] \notin {"wrapped", "queued"}

(* The executor's queue is empty and no thread is at work.                 *)
Drained == \A l \in Lists : pc[l] \notin {"wrapped", "queued"} /\ ~HoldsThread(l)

(* ... and, once the executor has drained, the client is released.         *)
EndClose == /\ stage = "closing" /\ stage' = "closed"
            /\ Drained
            /\ UNCHANGED <<keys, pc, wrapped, at, failed, put_tasks>>

ExecutorStep(l) == EnterWrapped(l) \/ StartList(l) \/ EndPut(l) \/ Discard(l)
CallStep(l) == (pc[l] # "new" /\ Mark(l)) \/ Submit(l)

Next == \/ \E l \in Lists : \/ SubmitWrapped(l) \/ Mark(l) \/ Submit(l)
                            \/ ExecutorStep(l)
        \/ BeginClose \/ EndClose

(* Threads are scheduled, a put ends by the client's total_timeout, and    *)
(* close goes on when it can.                                              *)
Spec == /\ Init /\ [][Next]_vars
        /\ \A l \in Lists : WF_vars(ExecutorStep(l)) /\ WF_vars(CallStep(l))
        /\ WF_vars(EndClose)

-----------------------------------------------------------------------------
(* The keys of l that are marked and whose put has not ended.              *)
Pending(l) ==
    CASE pc[l] \in {"marked", "queued", "put"} -> {keys[l][i] : i \in at[l] .. Len(keys[l])}
      [] pc[l] = "putted" -> {keys[l][i] : i \in at[l] + 1 .. Len(keys[l])}
      [] OTHER -> {}

(* The keys of l for which the finally has run.                            *)
Cleared(l) ==
    CASE pc[l] \in {"put", "putted"} -> {keys[l][i] : i \in 1 .. at[l] - 1}
      [] pc[l] \in {"done", "raised"} -> {keys[l][i] : i \in 1 .. at[l]}
      [] OTHER -> {}

(* exists_in_put_tasks is true of a key from its submission to the end of  *)
(* its put, unless another submission of the same key has ended.  (That    *)
(* exception is real: the set has one entry for both submissions.)         *)
PendingIsVisible ==
    \A l \in Lists : \A k \in Pending(l) :
        k \in put_tasks \/ \E m \in Lists : k \in Cleared(m)

(* A key stays pending for ever only behind an exception: it is in the set *)
(* because its put or its discard is still to come, because a put before   *)
(* it in its list raised, or because the executor refused the list.        *)
NoGhostPending ==
    \A k \in put_tasks : \E l \in Lists :
        \/ pc[l] \in {"marked", "queued", "put", "putted"}
           /\ \E i \in at[l] .. Len(keys[l]) : keys[l][i] = k
        \/ pc[l] = "raised" /\ \E i \in at[l] + 1 .. Len(keys[l]) : keys[l][i] = k
        \/ pc[l] = "refused" /\ k \in KeySet(l)

(* Once close() has released the client no list is at work or will be: no  *)
(* put runs on a client that may be closed.                                *)
NoPutAfterRelease ==
    stage = "closed" => \A l \in Lists : pc[l] \notin {"wrapped", "entered", "queued",
                                                       "put", "putted"}

(* A submission is walked to its end or refused, and the async call, which *)
(* submits from inside the pool it submits to, cannot starve it.           *)
ListsEnd == \A l \in Lists : pc[l] # "new" ~> pc[l] \in Ends
=============================================================================
