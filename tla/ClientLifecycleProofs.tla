----------------------- MODULE ClientLifecycleProofs -----------------------
(***************************************************************************)
(* The reference counting of the shared client is right for any number of  *)
(* owners and clusters, any tasks and any order of constructions, failed   *)
(* probes and closes.                                                      *)
(*                                                                         *)
(* None of the three properties is inductive.  The argument is a circle    *)
(* that get_or_create and release keep closed: the count is exact          *)
(* (CountIsExact), a client is up exactly while its count is positive, and *)
(* the registry names exactly the clients that are up (HoldersAgree); an   *)
(* owner with tasks is one that still counts (OwnersInUse).                *)
(***************************************************************************)
EXTENDS ClientLifecycle, FiniteSetTheorems, TLAPS

(* Every owner is closed at most once.  The remote connector and the       *)
(* storage plugin see to it themselves; for the L2 plugin, which would     *)
(* release twice, it rests on LMCache.                                     *)
ClosesOnce == \A o \in Owners : Kind[o] \in HasClosedFlag \cup ClosedOnce

Counted == {"probing", "open", "closing", "failed"}

LifecycleTypes ==
    /\ registry \in [Clusters -> Owners \cup {None}]
    /\ client \in [Owners -> {"none", "up", "closed"}]
    /\ refs \in [Owners -> Nat]
    /\ phase \in [Owners -> Counted \cup {"new", "rejected", "closed"}]
    /\ holder \in [Owners -> Owners \cup {None}]
    /\ tasks \in [Owners -> Nat]

(* Count, client and registry of a holder agree.                           *)
HoldersAgree ==
    /\ \A h \in Owners : client[h] = "up" <=> refs[h] > 0
    /\ \A h \in Owners : client[h] = "up" => registry[Cluster[h]] = h
    /\ \A c \in Clusters : registry[c] # None =>
           client[registry[c]] = "up" /\ Cluster[registry[c]] = c

(* An owner that counts has a holder, and only such owners have tasks.     *)
OwnersInUse ==
    \A o \in Owners : /\ phase[o] \in Counted => holder[o] \in Owners
                      /\ tasks[o] > 0 => phase[o] \in {"open", "closing"}

LifecycleInv == LifecycleTypes /\ CountIsExact /\ HoldersAgree /\ OwnersInUse

-----------------------------------------------------------------------------
(* The owners counted for a holder are a finite set.                       *)
LEMMA HoldingFinite ==
  ASSUME NEW h
  PROVE  IsFiniteSet(Holding(h, Counted)) /\ IsFiniteSet(Holding(h, Counted)')
<1>1. Holding(h, Counted) \subseteq Owners /\ Holding(h, Counted)' \subseteq Owners
  BY DEF Holding
<1> QED
  BY <1>1, OwnersAssumption, FS_Subset

(* A step that leaves alone who holds what leaves the counts exact.        *)
LEMMA CountKept ==
  ASSUME CountIsExact, UNCHANGED refs,
         \A h \in Owners : Holding(h, Counted)' = Holding(h, Counted)
  PROVE  CountIsExact'
<1> SUFFICES ASSUME NEW h \in Owners PROVE refs'[h] = Cardinality(Holding(h, Counted)')
  BY DEF CountIsExact, Counted
<1>1. refs[h] = Cardinality(Holding(h, Counted))
  BY DEF CountIsExact, Counted
<1> QED
  BY <1>1

(* A counted owner's holder has its client connected.                      *)
LEMMA CountedIsUp ==
  ASSUME LifecycleInv, NEW o \in Owners, phase[o] \in Counted
  PROVE  /\ holder[o] \in Owners
         /\ refs[holder[o]] >= 1
         /\ client[holder[o]] = "up"
<1> DEFINE h == holder[o]
<1>1. h \in Owners
  BY DEF LifecycleInv, OwnersInUse
<1>2. o \in Holding(h, Counted)
  BY DEF Holding
<1>3. Cardinality(Holding(h, Counted)) # 0 /\ Cardinality(Holding(h, Counted)) \in Nat
  BY <1>2, HoldingFinite, FS_EmptySet, FS_CardinalityType
<1>4. refs[h] = Cardinality(Holding(h, Counted))
  BY <1>1 DEF LifecycleInv, CountIsExact, Counted
<1>5. refs[h] >= 1
  BY <1>3, <1>4, SMT
<1>6. client[h] = "up"
  BY <1>1, <1>3, <1>4, SMT DEF LifecycleInv, HoldersAgree
<1> QED
  BY <1>1, <1>5, <1>6

-----------------------------------------------------------------------------
(* Initially no holder, no reference and no task exists.                   *)
LEMMA LifecycleInit == Init => LifecycleInv
<1> SUFFICES ASSUME Init PROVE LifecycleInv
  OBVIOUS
<1>1. LifecycleTypes
  BY DEF Init, LifecycleTypes
<1>2. ASSUME NEW h \in Owners PROVE refs[h] = Cardinality(Holding(h, Counted))
  <2>1. Holding(h, Counted) = {}
    BY DEF Holding, Init, Counted
  <2> QED
    BY <2>1, FS_EmptySet DEF Init
<1>3. CountIsExact
  BY <1>2 DEF CountIsExact, Counted
<1>4. HoldersAgree
  BY DEF Init, HoldersAgree
<1>5. OwnersInUse
  BY DEF Init, OwnersInUse, Counted
<1> QED
  BY <1>1, <1>3, <1>4, <1>5 DEF LifecycleInv

(* get_or_create: the registered holder gets one reference more, or the    *)
(* owner's own holder becomes the registered one.                          *)
LEMMA AcquireKeeps ==
  ASSUME LifecycleInv, NEW o \in Owners, Acquire(o)
  PROVE  LifecycleInv'
<1> DEFINE c == Cluster[o]
           h == IF registry[c] = None THEN o ELSE registry[c]
<1>0. /\ LifecycleTypes /\ CountIsExact /\ HoldersAgree /\ OwnersInUse
      /\ phase[o] = "new" /\ phase' = [phase EXCEPT ![o] = "probing"]
      /\ registry' = [registry EXCEPT ![c] = h]
      /\ client' = IF registry[c] = None THEN [client EXCEPT ![h] = "up"] ELSE client
      /\ refs' = [refs EXCEPT ![h] = @ + 1]
      /\ holder' = [holder EXCEPT ![o] = h]
      /\ tasks' = tasks
  BY DEF LifecycleInv, Acquire, get_or_create, GoTo
<1>1. c \in Clusters /\ h \in Owners
  <2>1. c \in Clusters
    BY DEF Clusters
  <2> QED
    BY <2>1, <1>0 DEF LifecycleTypes
<1> HIDE DEF h, c
<1>2. LifecycleTypes'
  BY <1>0, <1>1, SMT DEF LifecycleTypes, Counted
<1>3. CountIsExact'
  <2> SUFFICES ASSUME NEW g \in Owners PROVE refs'[g] = Cardinality(Holding(g, Counted)')
    BY DEF CountIsExact, Counted
  <2>1. refs[g] = Cardinality(Holding(g, Counted)) /\ refs[g] \in Nat
    BY <1>0 DEF CountIsExact, Counted, LifecycleTypes
  <2>2. o \notin Holding(g, Counted)
    BY <1>0 DEF Holding, Counted
  <2>3. CASE g = h
    <3>1. Holding(g, Counted)' = Holding(g, Counted) \cup {o}
      BY <1>0, <2>3 DEF Holding, Counted, LifecycleTypes
    <3>2. Cardinality(Holding(g, Counted)') = Cardinality(Holding(g, Counted)) + 1
      BY <2>2, <3>1, HoldingFinite, FS_AddElement
    <3> QED
      BY <1>0, <1>1, <2>1, <2>3, <3>2 DEF LifecycleTypes
  <2>4. CASE g # h
    <3>1. Holding(g, Counted)' = Holding(g, Counted)
      BY <1>0, <2>4 DEF Holding, Counted, LifecycleTypes
    <3> QED
      BY <1>0, <1>1, <2>1, <2>4, <3>1 DEF LifecycleTypes
  <2> QED
    BY <2>3, <2>4
<1>4. HoldersAgree'
  <2>1. CASE registry[c] = None
    <3>1. h = o /\ c = Cluster[o] /\ client' = [client EXCEPT ![o] = "up"]
      BY <1>0, <2>1 DEF h, c
    <3>2. \A g \in Owners : (client[g] = "up")' <=> (refs[g] > 0)'
      BY <1>0, <3>1, SMT DEF HoldersAgree, LifecycleTypes
    <3>3. \A g \in Owners : client'[g] = "up" => registry'[Cluster[g]] = g
      BY <1>0, <1>1, <2>1, <3>1, SentinelAssumption DEF HoldersAgree, LifecycleTypes, Clusters
    <3>4. ASSUME NEW d \in Clusters, registry'[d] # None
          PROVE  client'[registry'[d]] = "up" /\ Cluster[registry'[d]] = d
      BY <1>0, <1>1, <2>1, <3>1, <3>4 DEF HoldersAgree, LifecycleTypes
    <3> QED
      BY <3>2, <3>3, <3>4 DEF HoldersAgree
  <2>2. CASE registry[c] # None
    <3>1. h = registry[c] /\ client' = client /\ registry' = registry
      BY <1>0, <1>1, <2>2 DEF h, LifecycleTypes
    <3>2. client[h] = "up"
      BY <1>0, <1>1, <2>2, <3>1 DEF HoldersAgree
    <3>3. \A g \in Owners : (client[g] = "up")' <=> (refs[g] > 0)'
      BY <1>0, <1>1, <3>1, <3>2, SMT DEF HoldersAgree, LifecycleTypes
    <3> QED
      BY <1>0, <3>1, <3>3 DEF HoldersAgree
  <2> QED
    BY <2>1, <2>2
<1>5. OwnersInUse'
  BY <1>0, <1>1, SMT DEF OwnersInUse, LifecycleTypes, Counted
<1> QED
  BY <1>2, <1>3, <1>4, <1>5 DEF LifecycleInv

(* release, at the end of a close: the owner stops counting, and the last  *)
(* one takes the client and the registry entry with it.                    *)
LEMMA EndCloseKeeps ==
  ASSUME LifecycleInv, NEW o \in Owners, EndClose(o)
  PROVE  LifecycleInv'
<1> DEFINE h == holder[o]
<1>0. /\ LifecycleTypes /\ CountIsExact /\ HoldersAgree /\ OwnersInUse
      /\ phase[o] = "closing" /\ phase' = [phase EXCEPT ![o] = "closed"]
      /\ tasks[o] = 0 /\ tasks' = tasks /\ holder' = holder
      /\ refs' = [refs EXCEPT ![h] = IF @ > 0 THEN @ - 1 ELSE @]
      /\ client' = [client EXCEPT ![h] = IF refs[h] = 1 THEN "closed" ELSE @]
      /\ registry' = IF refs[h] = 1 THEN [registry EXCEPT ![Cluster[h]] = None] ELSE registry
  BY DEF LifecycleInv, EndClose, ShutDown, release, GoTo
<1>1. h \in Owners /\ refs[h] >= 1 /\ client[h] = "up" /\ refs[h] \in Nat
  BY <1>0, CountedIsUp DEF Counted, LifecycleTypes
<1>2. refs' = [refs EXCEPT ![h] = refs[h] - 1] /\ refs[h] - 1 \in Nat
  <2>1. refs[h] > 0 /\ refs[h] - 1 \in Nat
    BY <1>1, SMT
  <2> HIDE DEF h
  <2> QED
    BY <1>0, <2>1
<1>3. Cluster[h] \in Clusters
  BY <1>1 DEF Clusters
<1>4. o \in Holding(h, Counted)
  BY <1>0 DEF Holding, Counted
<1> HIDE DEF h
<1>5. LifecycleTypes'
  BY <1>0, <1>1, <1>2, <1>3 DEF LifecycleTypes, Counted
<1>6. CountIsExact'
  <2> SUFFICES ASSUME NEW g \in Owners PROVE refs'[g] = Cardinality(Holding(g, Counted)')
    BY DEF CountIsExact, Counted
  <2>1. refs[g] = Cardinality(Holding(g, Counted))
    BY <1>0 DEF CountIsExact, Counted
  <2>2. CASE g = h
    <3>1. Holding(g, Counted)' = Holding(g, Counted) \ {o}
      BY <1>0, <2>2 DEF Holding, Counted, LifecycleTypes
    <3>2. Cardinality(Holding(g, Counted)') = Cardinality(Holding(g, Counted)) - 1
      BY <1>4, <2>2, <3>1, HoldingFinite, FS_RemoveElement
    <3> QED
      BY <1>2, <2>1, <2>2, <3>2, <1>0 DEF LifecycleTypes
  <2>3. CASE g # h
    <3>1. Holding(g, Counted)' = Holding(g, Counted)
      BY <1>0, <2>3 DEF Holding, Counted, LifecycleTypes, h
    <3> QED
      BY <1>2, <2>1, <2>3, <3>1, <1>0 DEF LifecycleTypes
  <2> QED
    BY <2>2, <2>3
<1>7. HoldersAgree'
  <2>1. \A g \in Owners : (client[g] = "up")' <=> (refs[g] > 0)'
    <3>1. refs'[h] > 0 <=> refs[h] # 1
      BY <1>0, <1>1, <1>2, SMT DEF LifecycleTypes
    <3>2. client'[h] = "up" <=> refs[h] # 1
      BY <1>0, <1>1 DEF LifecycleTypes
    <3>3. \A g \in Owners : g # h => refs'[g] = refs[g] /\ client'[g] = client[g]
      BY <1>0, <1>2 DEF LifecycleTypes
    <3> QED
      BY <1>0, <3>1, <3>2, <3>3 DEF HoldersAgree
  <2>2. CASE refs[h] = 1
    <3>1. /\ client' = [client EXCEPT ![h] = "closed"]
          /\ registry' = [registry EXCEPT ![Cluster[h]] = None]
      BY <1>0, <2>2
    <3>2. registry[Cluster[h]] = h
      BY <1>0, <1>1 DEF HoldersAgree
    <3>3. ASSUME NEW g \in Owners, client'[g] = "up" PROVE registry'[Cluster[g]] = g
      <4>1. g # h /\ client[g] = "up"
        BY <1>0, <1>1, <3>1, <3>3 DEF LifecycleTypes
      <4>2. registry[Cluster[g]] = g /\ Cluster[g] \in Clusters
        BY <1>0, <4>1 DEF HoldersAgree, Clusters
      <4>3. Cluster[g] # Cluster[h]
        BY <3>2, <4>1, <4>2
      <4> QED
        BY <1>0, <3>1, <4>2, <4>3 DEF LifecycleTypes
    <3>4. ASSUME NEW d \in Clusters, registry'[d] # None
          PROVE  client'[registry'[d]] = "up" /\ Cluster[registry'[d]] = d
      <4>1. d # Cluster[h] /\ registry'[d] = registry[d]
        BY <1>0, <1>3, <3>1, <3>4 DEF LifecycleTypes
      <4>2. client[registry[d]] = "up" /\ Cluster[registry[d]] = d /\ registry[d] # h
        BY <1>0, <3>4, <4>1 DEF HoldersAgree
      <4>3. registry[d] \in Owners
        BY <1>0, <3>4, <4>1 DEF LifecycleTypes
      <4> QED
        BY <1>0, <3>1, <4>1, <4>2, <4>3 DEF LifecycleTypes
    <3> QED
      BY <2>1, <3>3, <3>4 DEF HoldersAgree
  <2>3. CASE refs[h] # 1
    <3>1. client' = client /\ registry' = registry
      BY <1>0, <1>1, <2>3 DEF LifecycleTypes
    <3> QED
      BY <1>0, <2>1, <3>1 DEF HoldersAgree
  <2> QED
    BY <2>2, <2>3
<1>8. OwnersInUse'
  BY <1>0, SMT DEF OwnersInUse, LifecycleTypes, Counted
<1> QED
  BY <1>5, <1>6, <1>7, <1>8 DEF LifecycleInv

(* The steps that take and give back no reference: a phase changes within  *)
(* the counted ones or outside them, or a task starts or ends.             *)
LEMMA OtherStepsKeep ==
  ASSUME LifecycleInv, ClosesOnce, NEW o \in Owners,
         \/ Rejected(o) \/ Constructed(o) \/ ProbeFails(o)
         \/ SubmitTask(o) \/ EndTask(o) \/ BeginClose(o)
  PROVE  LifecycleInv'
<1>0. LifecycleTypes /\ CountIsExact /\ HoldersAgree /\ OwnersInUse
  BY DEF LifecycleInv
<1>1. UNCHANGED <<registry, client, refs, holder>>
  BY DEF Rejected, Constructed, ProbeFails, SubmitTask, EndTask, BeginClose
<1>2. phase[o] # "closed" \/ ~BeginClose(o)
  BY DEF BeginClose, ClosesOnce
<1>3. \A h \in Owners : Holding(h, Counted)' = Holding(h, Counted)
  BY <1>0, <1>1, <1>2 DEF Holding, Counted, LifecycleTypes, GoTo, Rejected, Constructed,
     ProbeFails, SubmitTask, EndTask, BeginClose
<1>4. CountIsExact'
  BY <1>0, <1>1, <1>3, CountKept
<1>5. LifecycleTypes' /\ OwnersInUse'
  <2>1. CASE SubmitTask(o)
    BY <1>0, <1>1, <2>1, SMT DEF SubmitTask, LifecycleTypes, OwnersInUse
  <2>2. CASE EndTask(o)
    BY <1>0, <1>1, <2>2, SMT DEF EndTask, LifecycleTypes, OwnersInUse
  <2>3. CASE Rejected(o) \/ Constructed(o) \/ ProbeFails(o)
    BY <1>0, <1>1, <2>3 DEF Rejected, Constructed, ProbeFails, GoTo, LifecycleTypes,
       OwnersInUse, Counted
  <2>4. CASE BeginClose(o)
    BY <1>0, <1>1, <1>2, <2>4 DEF BeginClose, GoTo, LifecycleTypes, OwnersInUse, Counted
  <2> QED
    BY <2>1, <2>2, <2>3, <2>4
<1>6. HoldersAgree'
  BY <1>0, <1>1 DEF HoldersAgree
<1> QED
  BY <1>4, <1>5, <1>6 DEF LifecycleInv

(* Every step preserves the invariant of the lifecycle.                    *)
LEMMA LifecycleNext == ASSUME ClosesOnce PROVE LifecycleInv /\ [Next]_vars => LifecycleInv'
<1> SUFFICES ASSUME LifecycleInv, [Next]_vars PROVE LifecycleInv'
  OBVIOUS
<1>1. ASSUME NEW o \in Owners, Acquire(o) PROVE LifecycleInv'
  BY <1>1, AcquireKeeps
<1>2. ASSUME NEW o \in Owners, EndClose(o) PROVE LifecycleInv'
  BY <1>2, EndCloseKeeps
<1>3. ASSUME NEW o \in Owners,
             \/ Rejected(o) \/ Constructed(o) \/ ProbeFails(o)
             \/ SubmitTask(o) \/ EndTask(o) \/ BeginClose(o)
      PROVE  LifecycleInv'
  BY <1>3, OtherStepsKeep
<1>4. ASSUME UNCHANGED vars PROVE LifecycleInv'
  BY <1>4 DEF vars, LifecycleInv, LifecycleTypes, CountIsExact, HoldersAgree, OwnersInUse, Holding
<1> QED
  BY <1>1, <1>2, <1>3, <1>4 DEF Next, Over

-----------------------------------------------------------------------------
(* The holder's _refcount is exactly the number of owners that have taken  *)
(* a reference and not given it back, failed constructions included        *)
(* (get_or_create, release).                                               *)
THEOREM CountStaysExact == ASSUME ClosesOnce PROVE Spec => []CountIsExact
<1>1. LifecycleInv => CountIsExact
  BY DEF LifecycleInv
<1> QED
  BY <1>1, LifecycleInit, LifecycleNext, PTL DEF Spec

(* No executor task and no probe ever meets a closed client, whichever     *)
(* other owners of the client are closed meanwhile (release, close).       *)
THEOREM ClientOutlivesItsUses == ASSUME ClosesOnce PROVE Spec => []NoUseAfterClose
<1>1. LifecycleInv => NoUseAfterClose
  <2> SUFFICES ASSUME LifecycleInv, NEW o \in Owners,
                      tasks[o] > 0 \/ phase[o] \in {"probing", "open"}
               PROVE  client[holder[o]] = "up"
    BY DEF NoUseAfterClose
  <2>1. phase[o] \in Counted
    BY DEF LifecycleInv, OwnersInUse, Counted
  <2> QED
    BY <2>1, CountedIsUp
<1> QED
  BY <1>1, LifecycleInit, LifecycleNext, PTL DEF Spec

(* There is never a second connected client for a cluster, and none that   *)
(* no owner needs, but for failed constructions (get_or_create, release).  *)
THEOREM ClusterHasOneClient == ASSUME ClosesOnce PROVE Spec => []OneClientPerCluster
<1>1. LifecycleInv => OneClientPerCluster
  <2> SUFFICES ASSUME LifecycleInv, NEW h \in Owners, client[h] = "up"
               PROVE  registry[Cluster[h]] = h /\ Holding(h, Counted) # {}
    BY DEF OneClientPerCluster, Counted
  <2>1. registry[Cluster[h]] = h /\ refs[h] > 0
    BY DEF LifecycleInv, HoldersAgree
  <2>2. refs[h] = Cardinality(Holding(h, Counted))
    BY DEF LifecycleInv, CountIsExact, Counted
  <2> QED
    BY <2>1, <2>2, FS_EmptySet, SMT
<1> QED
  BY <1>1, LifecycleInit, LifecycleNext, PTL DEF Spec
=============================================================================
