-------------------------- MODULE ClientLifecycle --------------------------
(***************************************************************************)
(* The life of the shared Aerospike client: AerospikeClientHolder with the *)
(* construction and close of its owners - the remote connector, the        *)
(* storage plugin and the L2 plugin - in one process.                      *)
(*                                                                         *)
(* An owner first takes a reference (get_or_create), then probes the       *)
(* server's limits through the client, and is in use until it is closed.   *)
(* In use means that its executor has tasks; an engine call on an executor *)
(* thread uses the holder's client.  A holder is named after the owner     *)
(* whose construction created it.  The class-wide lock makes each of       *)
(* get_or_create and release one step.                                     *)
(***************************************************************************)
EXTENDS Integers, FiniteSets

CONSTANTS Owners,
          Kind,        \* Kind[o]: "remote", "storage" or "l2"
          Cluster,     \* Cluster[o]: its (hosts, namespace, tls_name)
          ClosedOnce,  \* kinds whose owners LMCache closes only once
          MaxTasks,    \* bound: tasks an executor holds at a time
          None

Clusters == {Cluster[o] : o \in Owners}

ASSUME OwnersAssumption == Kind \in [Owners -> {"remote", "storage", "l2"}]
                           /\ IsFiniteSet(Owners) /\ DOMAIN Cluster = Owners
ASSUME TasksAssumption == MaxTasks \in Nat
ASSUME SentinelAssumption == None \notin Owners

VARIABLES registry,  \* _HOLDERS: the holder of each cluster
          client,    \* client[h]: "none", "up" or "closed"
          refs,      \* refs[h]: _refcount
          phase,     \* where each owner is between construction and close
          holder,    \* holder[o]: the holder it has
          tasks      \* tasks[o]: tasks queued or running on its executor

vars == <<registry, client, refs, phase, holder, tasks>>

Init == /\ registry = [c \in Clusters |-> None]
        /\ client = [h \in Owners |-> "none"]
        /\ refs = [h \in Owners |-> 0]
        /\ phase = [o \in Owners |-> "new"]
        /\ holder = [o \in Owners |-> None]
        /\ tasks = [o \in Owners |-> 0]

-----------------------------------------------------------------------------
(* AerospikeClientHolder                                                   *)

(* get_or_create: the registered holder, or a new one with a new client.   *)
get_or_create(o) ==
    LET c == Cluster[o]
        h == IF registry[c] = None THEN o ELSE registry[c]
    IN  /\ registry' = [registry EXCEPT ![c] = h]
        /\ client' = IF registry[c] = None THEN [client EXCEPT ![h] = "up"] ELSE client
        /\ refs' = [refs EXCEPT ![h] = @ + 1]
        /\ holder' = [holder EXCEPT ![o] = h]

(* Fault: the holder is dropped before its last owner is gone.             *)
ReleaseEarly(h) ==
    /\ refs' = [refs EXCEPT ![h] = IF @ > 0 THEN @ - 1 ELSE @]
    /\ client' = [client EXCEPT ![h] = IF refs[h] = 1 THEN "closed" ELSE @]
    /\ registry' = [registry EXCEPT ![Cluster[h]] = None]

(* release: the last reference closes the client and drops the holder; one *)
(* release too many is only logged.                                        *)
release(h) ==
    /\ refs' = [refs EXCEPT ![h] = IF @ > 0 THEN @ - 1 ELSE @]
    /\ client' = [client EXCEPT ![h] = IF refs[h] = 1 THEN "closed" ELSE @]
    /\ registry' = IF refs[h] = 1 THEN [registry EXCEPT ![Cluster[h]] = None] ELSE registry

-----------------------------------------------------------------------------
(* Owners                                                                  *)

GoTo(o, next) == phase' = [phase EXCEPT ![o] = next]

(* The configuration is refused, or the new client cannot connect: the     *)
(* constructor raises and nothing was acquired.                            *)
Rejected(o) ==
    /\ phase[o] = "new" /\ GoTo(o, "rejected")
    /\ UNCHANGED <<registry, client, refs, holder, tasks>>

Acquire(o) ==
    /\ phase[o] = "new" /\ GoTo(o, "probing")
    /\ get_or_create(o)
    /\ UNCHANGED tasks

(* discover_and_resolve succeeds; the engine and the executor exist.       *)
Constructed(o) ==
    /\ phase[o] = "probing" /\ GoTo(o, "open")
    /\ UNCHANGED <<registry, client, refs, holder, tasks>>

(* discover_and_resolve raises: the constructor fails and nobody releases  *)
(* the reference it took.                                                  *)
ProbeFails(o) ==
    /\ phase[o] = "probing" /\ GoTo(o, "failed")
    /\ UNCHANGED <<registry, client, refs, holder, tasks>>

(* Fault: the executor takes tasks while it is waited for.                 *)
SubmitTaskLate(o) ==
    /\ phase[o] \in {"open", "closing"} /\ tasks[o] < MaxTasks
    /\ tasks' = [tasks EXCEPT ![o] = @ + 1]
    /\ UNCHANGED <<registry, client, refs, phase, holder>>

(* A call is handed to the executor; a thread finishes one.                *)
SubmitTask(o) ==
    /\ phase[o] = "open" /\ tasks[o] < MaxTasks
    /\ tasks' = [tasks EXCEPT ![o] = @ + 1]
    /\ UNCHANGED <<registry, client, refs, phase, holder>>

EndTask(o) ==
    /\ tasks[o] > 0
    /\ tasks' = [tasks EXCEPT ![o] = @ - 1]
    /\ UNCHANGED <<registry, client, refs, phase, holder>>

(* Fault: no owner remembers that it was closed.                           *)
NoClosedFlag == {}

(* Owners that return at once from a second close.                         *)
HasClosedFlag == {"remote", "storage"}

(* close: the executor takes no more tasks and is waited for.              *)
BeginClose(o) ==
    /\ \/ phase[o] = "open"
       \/ phase[o] = "closed" /\ Kind[o] \notin HasClosedFlag \cup ClosedOnce
    /\ GoTo(o, "closing")
    /\ UNCHANGED <<registry, client, refs, holder, tasks>>

(* Fault: shutdown(wait=False).                                            *)
ShutDownAtOnce(o) == TRUE

(* shutdown(wait=True) returns when the executor has nothing left.         *)
ShutDown(o) == tasks[o] = 0

(* Then the reference is given back.                                       *)
EndClose(o) ==
    /\ phase[o] = "closing" /\ ShutDown(o)
    /\ GoTo(o, "closed")
    /\ release(holder[o])
    /\ UNCHANGED <<holder, tasks>>

(* All owners are gone; nothing is left to do.                             *)
Over == /\ \A o \in Owners : phase[o] \in {"rejected", "failed", "closed"}
        /\ UNCHANGED vars

Next == \/ \E o \in Owners : \/ Rejected(o) \/ Acquire(o) \/ Constructed(o)
                             \/ ProbeFails(o) \/ SubmitTask(o) \/ EndTask(o)
                             \/ BeginClose(o) \/ EndClose(o)
        \/ Over

(* Engine calls end by the client's total_timeout, and close goes on when  *)
(* its executor is empty.                                                  *)
Spec == /\ Init /\ [][Next]_vars
        /\ \A o \in Owners : WF_vars(EndTask(o)) /\ WF_vars(EndClose(o))

-----------------------------------------------------------------------------
Holding(h, phases) == {o \in Owners : holder[o] = h /\ phase[o] \in phases}

(* No executor task, and no probe, ever meets a closed client, whatever    *)
(* other owners of the same client are constructed and closed, the latter  *)
(* more than once (release, close).                                        *)
NoUseAfterClose ==
    \A o \in Owners : tasks[o] > 0 \/ phase[o] \in {"probing", "open"} =>
        client[holder[o]] = "up"

(* The count is the number of owners that still have to give their         *)
(* reference back, the failed constructions, which never will, included    *)
(* (get_or_create, release).                                               *)
CountIsExact ==
    \A h \in Owners :
        refs[h] = Cardinality(Holding(h, {"probing", "open", "closing", "failed"}))

(* There is at most one connected client per cluster, it is the registered *)
(* one, and some owner needs it - or a construction that failed keeps it:  *)
(* no client outlives the close of its last owner otherwise.               *)
OneClientPerCluster ==
    \A h \in Owners : client[h] = "up" =>
        /\ registry[Cluster[h]] = h
        /\ Holding(h, {"probing", "open", "closing", "failed"}) # {}

(* close() always returns: no executor is waited for that cannot drain.    *)
CloseEnds == \A o \in Owners : phase[o] = "closing" ~> phase[o] = "closed"
=============================================================================
