-------------------------- MODULE RemoteConnector --------------------------
(***************************************************************************)
(* AerospikeRemoteConnector: the coroutines get, put, batched_get,         *)
(* batched_put and batched_get_non_blocking of one event loop, the         *)
(* executor threads they hand engine calls to, the batch semaphore, and    *)
(* close.                                                                  *)
(*                                                                         *)
(* A call has one item per distinct key of its list.  An item's engine     *)
(* call is queued on the executor, run by a thread, and ends in a memory   *)
(* object ("hit"; for a put: stored), in None ("miss") or in an exception. *)
(* Its coroutine learns of that when the loop resumes it.  close() waits   *)
(* for the executor without yielding: until it returns, the loop stands.   *)
(***************************************************************************)
EXTENDS Integers, FiniteSets

CONSTANTS Calls,
          Requests,     \* what callers ask for: a kind and a number of items
          Threads,      \* executor_threads
          MaxInFlight,  \* batch_max_in_flight
          Cancellable   \* kinds of call whose caller gives up after a timeout

Kinds == {"get", "put", "batched_get", "batched_put", "non_blocking"}

ASSUME RequestsAssumption ==
    /\ Requests \subseteq [kind : Kinds, n : Nat \ {0}]
    /\ \A r \in Requests : r.kind \in {"get", "put"} => r.n = 1
ASSUME FiniteAssumption == IsFiniteSet(Calls) /\ IsFiniteSet(Requests)
ASSUME CancellableAssumption == Cancellable \subseteq {"get", "batched_get"}
ASSUME LimitsAssumption == Threads \in Nat \ {0} /\ MaxInFlight \in Nat \ {0}

VARIABLES req,      \* req[c]: the request
          pc,       \* pc[c]: "new", "sem" (waits for a permit), "run", "ended"
          item,     \* item[c][i]: how far its engine call has come
          seen,     \* seen[c]: items whose end the coroutine has seen
          outcome,  \* outcome[c]: "returned", "raised" or "cancelled"
          own,      \* own[c][i]: who has the fetched object in the end
          permits,  \* free permits of _batch_sem
          stage     \* "open", "closing" or "closed"

vars == <<req, pc, item, seen, outcome, own, permits, stage>>

Places == UNION {1 .. r.n : r \in Requests}
Items(c) == 1 .. req[c].n
Put(c) == req[c].kind \in {"put", "batched_put"}

(* The calls that hold one permit from beginning to end.                   *)
Whole(c) == req[c].kind \in {"batched_get", "batched_put"}

Init == /\ req \in [Calls -> Requests]
        /\ pc = [c \in Calls |-> "new"]
        /\ item = [c \in Calls |-> [i \in Places |-> "none"]]
        /\ seen = [c \in Calls |-> {}]
        /\ outcome = [c \in Calls |-> "none"]
        /\ own = [c \in Calls |-> [i \in Places |-> "none"]]
        /\ permits = MaxInFlight
        /\ stage = "open"

LoopRuns == stage # "closing"
Finished(c, i) == item[c][i] \in {"hit", "miss", "raised"}
Running == {e \in Calls \X Places : item[e[1]][e[2]] = "running"}

(* run_in_executor: an executor that was shut down raises.                 *)
Submitted == IF stage = "open" THEN "queued" ELSE "raised"

Set(c, places, state) ==
    item' = [item EXCEPT ![c] = [i \in Places |-> IF i \in places THEN state ELSE @[i]]]

-----------------------------------------------------------------------------
(* The call is made: get or put goes to the executor, the tasks of         *)
(* batched_get_non_blocking are scheduled, the others ask for a permit.    *)
Begin(c) ==
    /\ LoopRuns /\ pc[c] = "new"
    /\ pc' = [pc EXCEPT ![c] = IF Whole(c) THEN "sem" ELSE "run"]
    /\ CASE req[c].kind \in {"get", "put"} -> Set(c, {1}, Submitted)
         [] req[c].kind = "non_blocking"   -> Set(c, Items(c), "ready")
         [] OTHER                          -> item' = item
    /\ UNCHANGED <<req, seen, outcome, own, permits, stage>>

(* batched_get fetches its first key; batched_put schedules all its puts.  *)
TakePermit(c) ==
    /\ LoopRuns /\ pc[c] = "sem" /\ permits > 0
    /\ permits' = permits - 1
    /\ pc' = [pc EXCEPT ![c] = "run"]
    /\ IF Put(c) THEN Set(c, Items(c), "ready") ELSE Set(c, {1}, Submitted)
    /\ UNCHANGED <<req, seen, outcome, own, stage>>

(* A scheduled put, or _sem_get with a permit of its own, gets its turn.   *)
(* The loop starts the puts of a gather in their order; in which order     *)
(* permits are given is left open, as not every version of asyncio's       *)
(* semaphore is fair.                                                      *)
SubmitItem(c, i) ==
    /\ LoopRuns /\ item[c][i] = "ready"
    /\ \/ Put(c) /\ \A j \in Items(c) : j < i => item[c][j] # "ready"
       \/ ~Put(c) /\ permits > 0
    /\ Set(c, {i}, Submitted)
    /\ permits' = IF Put(c) THEN permits ELSE permits - 1
    /\ UNCHANGED <<req, pc, seen, outcome, own, stage>>

(* An executor thread takes an engine call and ends it.  The object a get  *)
(* fetched for a call that is over goes nowhere.                           *)
StartItem(c, i) ==
    /\ item[c][i] = "queued" /\ Cardinality(Running) < Threads
    /\ Set(c, {i}, "running")
    /\ UNCHANGED <<req, pc, seen, outcome, own, permits, stage>>

EndItem(c, i) ==
    /\ item[c][i] = "running"
    /\ \E end \in {"hit", "raised"} \cup (IF Put(c) THEN {} ELSE {"miss"}) :
         /\ Set(c, {i}, end)
         /\ own' = IF end = "hit" /\ ~Put(c) /\ pc[c] = "ended"
                   THEN [own EXCEPT ![c][i] = "dropped"] ELSE own
    /\ UNCHANGED <<req, pc, seen, outcome, permits, stage>>

-----------------------------------------------------------------------------
(* The end of a call.                                                      *)

(* Fault: every object that was fetched is returned, also behind a miss.   *)
HandedAll(c) == {i \in Items(c) : item[c][i] = "hit"}

(* The objects in the list the caller gets: all of them, or the leading    *)
(* hits.                                                                   *)
Handed(c) ==
    {i \in Items(c) : /\ item[c][i] = "hit"
                      /\ req[c].kind = "non_blocking" =>
                            \A j \in 1 .. i : item[c][j] = "hit"}

(* Fault: the permit is not given back when the call raises.               *)
PermitsAfterNoFinally(c, how) == IF Whole(c) /\ pc[c] = "run" /\ how = "returned"
                                 THEN permits + 1 ELSE permits

(* async with gives the permit back whatever happens.                      *)
PermitsAfter(c, how) == IF Whole(c) /\ pc[c] = "run" THEN permits + 1 ELSE permits

(* Objects behind the first failure get ref_count_down(); those of a call  *)
(* that raises or is cancelled are forgotten.                              *)
End(c, how) ==
    /\ pc' = [pc EXCEPT ![c] = "ended"]
    /\ outcome' = [outcome EXCEPT ![c] = how]
    /\ own' = [own EXCEPT ![c] =
                 [i \in Places |-> IF Put(c) \/ item[c][i] # "hit" THEN "none"
                                   ELSE IF how # "returned" THEN "dropped"
                                   ELSE IF i \in Handed(c) THEN "caller"
                                   ELSE "released"]]

(* get and batched_get: the awaited engine call is over; batched_get goes  *)
(* on to its next key.                                                     *)
ResumeGet(c, i) ==
    /\ LoopRuns /\ pc[c] = "run" /\ req[c].kind \in {"get", "batched_get"}
    /\ Finished(c, i) /\ i \notin seen[c]
    /\ seen' = [seen EXCEPT ![c] = @ \cup {i}]
    /\ \/ /\ item[c][i] = "raised" \/ i = req[c].n
          /\ LET how == IF item[c][i] = "raised" THEN "raised" ELSE "returned"
             IN  End(c, how) /\ permits' = PermitsAfter(c, how)
          /\ item' = item
       \/ /\ item[c][i] # "raised" /\ i < req[c].n
          /\ Set(c, {i + 1}, Submitted)
          /\ UNCHANGED <<pc, outcome, own, permits>>
    /\ UNCHANGED <<req, stage>>

(* Fault: gather is over when one of its members is.                       *)
GatheredAny(c, i) == TRUE

(* Fault: members that found nothing are not counted as ended.             *)
GatheredHits(c, i) == {j \in seen[c] \cup {i} : item[c][j] = "hit"} = Items(c)

(* i is the last member of the gather to end.                              *)
Gathered(c, i) == seen[c] \cup {i} = Items(c)

(* batched_put: gather ends with the first exception, or with the last     *)
(* put; the other puts, all of them submitted by then, are not cancelled.  *)
ResumePut(c, i) ==
    /\ LoopRuns /\ pc[c] = "run" /\ Put(c)
    /\ \A j \in Items(c) : item[c][j] # "ready"
    /\ Finished(c, i) /\ i \notin seen[c]
    /\ seen' = [seen EXCEPT ![c] = @ \cup {i}]
    /\ \/ /\ item[c][i] = "raised" \/ Gathered(c, i)
          /\ LET how == IF item[c][i] = "raised" THEN "raised" ELSE "returned"
             IN  End(c, how) /\ permits' = PermitsAfter(c, how)
       \/ /\ item[c][i] # "raised" /\ ~Gathered(c, i)
          /\ UNCHANGED <<pc, outcome, own, permits>>
    /\ UNCHANGED <<req, item, stage>>

(* batched_get_non_blocking: a member gives its permit back; after the     *)
(* last one the results are walked in order.                               *)
ResumeNonBlocking(c, i) ==
    /\ LoopRuns /\ pc[c] = "run" /\ req[c].kind = "non_blocking"
    /\ Finished(c, i) /\ i \notin seen[c]
    /\ seen' = [seen EXCEPT ![c] = @ \cup {i}]
    /\ permits' = permits + 1
    /\ IF Gathered(c, i) THEN End(c, "returned") ELSE UNCHANGED <<pc, outcome, own>>
    /\ UNCHANGED <<req, item, stage>>

(* LMCache's timeout cancels the coroutine.  An engine call that no thread *)
(* has taken is dropped from the queue; a running one goes on.             *)
Cancel(c) ==
    /\ LoopRuns /\ req[c].kind \in Cancellable /\ pc[c] \in {"sem", "run"}
    /\ End(c, "cancelled")
    /\ permits' = PermitsAfter(c, "cancelled")
    /\ Set(c, {i \in Items(c) : item[c][i] = "queued"}, "lost")
    /\ UNCHANGED <<req, seen, stage>>

(* close: shutdown(wait=True).                                             *)
BeginClose ==
    /\ stage = "open" /\ stage' = "closing"
    /\ UNCHANGED <<req, pc, item, seen, outcome, own, permits>>

EndClose ==
    /\ stage = "closing" /\ stage' = "closed"
    /\ \A c \in Calls, i \in Places : item[c][i] \notin {"queued", "running"}
    /\ UNCHANGED <<req, pc, item, seen, outcome, own, permits>>

LoopStep(c, i) == \/ SubmitItem(c, i) \/ ResumeGet(c, i) \/ ResumePut(c, i)
                  \/ ResumeNonBlocking(c, i)
ThreadStep(c, i) == StartItem(c, i) \/ EndItem(c, i)

Next == \/ \E c \in Calls : Begin(c) \/ TakePermit(c) \/ Cancel(c)
        \/ \E c \in Calls, i \in Places : LoopStep(c, i) \/ ThreadStep(c, i)
        \/ BeginClose \/ EndClose

(* The loop and the threads are scheduled, engine calls end by their       *)
(* total_timeout, and close goes on when it can.                           *)
Spec == /\ Init /\ [][Next]_vars
        /\ \A c \in Calls : WF_vars(TakePermit(c))
        /\ \A c \in Calls, i \in Places : WF_vars(LoopStep(c, i)) /\ WF_vars(ThreadStep(c, i))
        /\ WF_vars(EndClose)

-----------------------------------------------------------------------------
(* Every object fetched for a read that returns is in the list the caller  *)
(* gets or was released, and the list of batched_get_non_blocking is the   *)
(* run of hits from the first key on (base_connector's contract).          *)
ObjectsAccounted ==
    \A c \in Calls : outcome[c] = "returned" /\ ~Put(c) =>
        \A i \in Items(c) :
            /\ item[c][i] = "hit" <=> own[c][i] \in {"caller", "released"}
            /\ req[c].kind = "non_blocking" /\ own[c][i] = "caller" =>
                  \A j \in 1 .. i : own[c][j] = "caller"

Reads(c) == {i \in Items(c) : item[c][i] \in {"ready", "queued", "running"}}

(* When batched_put returns, no thread reads one of its memory objects and *)
(* none will: LMCache may reuse them (gather).                             *)
PutsSettled == \A c \in Calls : Put(c) /\ outcome[c] = "returned" => Reads(c) = {}

(* The same when it returns or raises: the connector keeps no reference to *)
(* a memory object once control is back with the caller.                   *)
NothingRetained == \A c \in Calls : Put(c) /\ pc[c] = "ended" => Reads(c) = {}

(* Every permit is free or held by exactly one call or _sem_get that is    *)
(* under way: no exception, timeout or close loses one.                    *)
PermitsConserved ==
    permits = MaxInFlight
              - Cardinality({c \in Calls : Whole(c) /\ pc[c] = "run"})
              - Cardinality({e \in Calls \X Places :
                               /\ req[e[1]].kind = "non_blocking"
                               /\ e[2] \notin seen[e[1]]
                               /\ item[e[1]][e[2]] \notin {"none", "ready"}})

(* Every call ends, also when close() comes in the middle of it.           *)
CallsEnd == \A c \in Calls : pc[c] # "new" ~> pc[c] = "ended"
=============================================================================
