----------------------- MODULE RemoteConnectorProofs -----------------------
(***************************************************************************)
(* The coroutines of the connector lose no permit and no object, for any   *)
(* number of calls of any kind and length, threads and permits, whatever   *)
(* raises, times out or is closed in between.                              *)
(*                                                                         *)
(* The properties speak of calls that are over or of the permits as a      *)
(* whole; what makes them inductive is how far a call under way can have   *)
(* come (CallShape): what its coroutine has seen is finished, a get walks  *)
(* its keys in order, and a call that returned has nothing outstanding.    *)
(***************************************************************************)
EXTENDS RemoteConnector, FiniteSetTheorems, TLAPS

ItemStates == {"none", "ready", "queued", "running", "lost", "hit", "miss", "raised"}

ConnectorTypes ==
    /\ req \in [Calls -> Requests]
    /\ pc \in [Calls -> {"new", "sem", "run", "ended"}]
    /\ item \in [Calls -> [Places -> ItemStates]]
    /\ seen \in [Calls -> SUBSET Places]
    /\ outcome \in [Calls -> {"none", "returned", "raised", "cancelled"}]
    /\ own \in [Calls -> [Places -> {"none", "caller", "released", "dropped"}]]
    /\ permits \in Nat
    /\ stage \in {"open", "closing", "closed"}

(* get and batched_get: a key is not fetched before those ahead of it were *)
(* fetched, seen and did not raise.                                        *)
InOrder(c) ==
    req[c].kind \in {"get", "batched_get"} =>
        \A i, j \in Places : i < j /\ item[c][j] # "none" =>
            i \in seen[c] /\ item[c][i] \in {"hit", "miss"}

CallShape(c) ==
    /\ pc[c] \in {"new", "sem"} => seen[c] = {} /\ \A i \in Places : item[c][i] = "none"
    /\ pc[c] = "sem" => Whole(c)
    /\ outcome[c] # "none" => pc[c] = "ended"
    /\ \A i \in seen[c] : Finished(c, i)
    /\ \A i \in Places : item[c][i] = "ready" => req[c].kind \in {"batched_put", "non_blocking"}
    /\ InOrder(c)
    /\ outcome[c] = "returned" => \A i \in Items(c) : Finished(c, i)

CallsShaped == \A c \in Calls : CallShape(c)

-----------------------------------------------------------------------------
(* The items of a call have their places.                                  *)
LEMMA ItemsArePlaces ==
  ASSUME NEW c \in Calls, req \in [Calls -> Requests]
  PROVE  /\ req[c].kind \in Kinds /\ req[c].n \in Nat \ {0}
         /\ Items(c) \subseteq Places /\ Places \subseteq Nat \ {0}
         /\ req[c].kind = "get" => req[c].n = 1
<1>1. req[c] \in Requests
  OBVIOUS
<1>2. \A r \in Requests : r.n \in Nat \ {0} /\ r.kind \in Kinds
  BY RequestsAssumption
<1>3. Places \subseteq Nat \ {0}
  BY <1>2, SMT DEF Places
<1> QED
  BY <1>1, <1>2, <1>3, RequestsAssumption DEF Places, Items

(* Set(c, places, state) changes these items of c and no others.           *)
LEMMA SetEffect ==
  ASSUME ConnectorTypes, NEW c \in Calls, NEW places, NEW state \in ItemStates,
         Set(c, places, state)
  PROVE  /\ item' \in [Calls -> [Places -> ItemStates]]
         /\ \A i \in Places : item'[c][i] = IF i \in places THEN state ELSE item[c][i]
         /\ \A d \in Calls : d # c => item'[d] = item[d]
<1> DEFINE row == [i \in Places |-> IF i \in places THEN state ELSE item[c][i]]
<1>1. item' = [item EXCEPT ![c] = row]
  BY DEF Set
<1>2. row \in [Places -> ItemStates]
  BY DEF ConnectorTypes
<1>3. \A i \in Places : row[i] = IF i \in places THEN state ELSE item[c][i]
  OBVIOUS
<1> HIDE DEF row
<1> QED
  BY <1>1, <1>2, <1>3 DEF ConnectorTypes

(* The end of a call touches no other call.                                *)
LEMMA EndEffect ==
  ASSUME ConnectorTypes, NEW c \in Calls, NEW how \in {"returned", "raised", "cancelled"},
         End(c, how)
  PROVE  /\ pc' = [pc EXCEPT ![c] = "ended"]
         /\ outcome' = [outcome EXCEPT ![c] = how]
         /\ own' \in [Calls -> [Places -> {"none", "caller", "released", "dropped"}]]
         /\ \A i \in Places : own'[c][i] =
                IF Put(c) \/ item[c][i] # "hit" THEN "none"
                ELSE IF how # "returned" THEN "dropped"
                ELSE IF i \in Handed(c) THEN "caller" ELSE "released"
         /\ \A d \in Calls : d # c => own'[d] = own[d]
<1> DEFINE row == [i \in Places |-> IF Put(c) \/ item[c][i] # "hit" THEN "none"
                                    ELSE IF how # "returned" THEN "dropped"
                                    ELSE IF i \in Handed(c) THEN "caller" ELSE "released"]
<1>1. own' = [own EXCEPT ![c] = row]
  BY DEF End
<1>2. row \in [Places -> {"none", "caller", "released", "dropped"}]
  OBVIOUS
<1>3. \A i \in Places : row[i] = IF Put(c) \/ item[c][i] # "hit" THEN "none"
                                 ELSE IF how # "returned" THEN "dropped"
                                 ELSE IF i \in Handed(c) THEN "caller" ELSE "released"
  OBVIOUS
<1>4. pc' = [pc EXCEPT ![c] = "ended"] /\ outcome' = [outcome EXCEPT ![c] = how]
  BY DEF End
<1> HIDE DEF row
<1> QED
  BY <1>1, <1>2, <1>3, <1>4 DEF ConnectorTypes

(* The shape of a call depends on the state of that call alone.            *)
LEMMA ShapeKept ==
  ASSUME NEW d \in Calls, CallShape(d), req' = req, pc'[d] = pc[d], item'[d] = item[d],
         seen'[d] = seen[d], outcome'[d] = outcome[d]
  PROVE  CallShape(d)'
  BY DEF CallShape, InOrder, Whole, Finished, Items

(* A submission leaves an item queued, or failed once the executor is shut *)
(* down.                                                                   *)
LEMMA Submission ==
  ASSUME ConnectorTypes
  PROVE  Submitted \in {"queued", "raised"} /\ Submitted \in ItemStates
  BY DEF Submitted, ItemStates

-----------------------------------------------------------------------------
(* Initially no call is made.                                              *)
LEMMA ConnectorInit == Init => ConnectorTypes /\ CallsShaped
<1> SUFFICES ASSUME Init PROVE ConnectorTypes /\ CallsShaped
  OBVIOUS
<1>1. ConnectorTypes
  BY LimitsAssumption DEF Init, ConnectorTypes, ItemStates
<1>2. CallsShaped
  BY DEF Init, CallsShaped, CallShape, InOrder
<1> QED
  BY <1>1, <1>2

(* A call that starts: its first engine call is submitted, all its tasks   *)
(* are scheduled, or it waits for a permit.                                *)
LEMMA StartShape ==
  ASSUME ConnectorTypes, NEW c \in Calls, CallShape(c), pc[c] \in {"new", "sem"},
         pc' = [pc EXCEPT ![c] = IF pc[c] = "new" /\ Whole(c) THEN "sem" ELSE "run"],
         UNCHANGED <<req, seen, outcome>>,
         \/ item' = item
         \/ ~(pc[c] = "new" /\ Whole(c)) /\ Set(c, {1}, Submitted)
         \/ /\ ~(pc[c] = "new" /\ Whole(c)) /\ Set(c, Items(c), "ready")
            /\ req[c].kind \in {"batched_put", "non_blocking"}
  PROVE  /\ item' \in [Calls -> [Places -> ItemStates]]
         /\ \A d \in Calls : d # c => item'[d] = item[d] /\ pc'[d] = pc[d]
         /\ CallShape(c)'
<1>1. seen[c] = {} /\ \A i \in Places : item[c][i] = "none"
  BY DEF CallShape
<1>2. outcome[c] = "none"
  BY DEF CallShape
<1>3. "ready" \in ItemStates /\ Submitted \in ItemStates /\ Submitted \in {"queued", "raised"}
  BY Submission DEF ItemStates
<1>4. Places \subseteq Nat \ {0}
  BY ItemsArePlaces DEF ConnectorTypes
<1>5. /\ item' \in [Calls -> [Places -> ItemStates]]
      /\ \A d \in Calls : d # c => item'[d] = item[d] /\ pc'[d] = pc[d]
  BY <1>3, SetEffect DEF ConnectorTypes
<1>6. /\ pc'[c] = "sem" => Whole(c)
      /\ pc'[c] = (IF pc[c] = "new" /\ Whole(c) THEN "sem" ELSE "run")
  BY DEF ConnectorTypes
<1>7. \A i \in Places : /\ item'[c][i] \in {"none", "ready", Submitted}
                        /\ item'[c][i] = "ready" => req[c].kind \in {"batched_put", "non_blocking"}
  BY <1>1, <1>3, SetEffect
<1>8. InOrder(c)'
  <2> SUFFICES ASSUME req[c].kind \in {"get", "batched_get"},
                      NEW i \in Places, NEW j \in Places, i < j
               PROVE  item'[c][j] = "none"
    BY DEF InOrder
  <2>1. i \in Nat \ {0} /\ j \in Nat
    BY <1>4
  <2>2. j # 1
    BY <2>1, SMT
  <2> QED
    BY <1>1, <1>3, <2>2, SetEffect
<1>9. pc'[c] \in {"new", "sem"} => item' = item
  BY <1>6
<1>10. /\ pc'[c] \in {"new", "sem"} => seen'[c] = {} /\ \A i \in Places : item'[c][i] = "none"
       /\ pc'[c] = "sem" => Whole(c)'
  BY <1>1, <1>6, <1>9 DEF Whole
<1>11. seen'[c] = {} /\ outcome'[c] = "none"
  BY <1>1, <1>2
<1> QED
  BY <1>5, <1>7, <1>8, <1>10, <1>11 DEF CallShape

(* An item that was scheduled, queued or running makes progress: its call  *)
(* had not returned, and no later key of a get was touched.                *)
LEMMA ProgressShape ==
  ASSUME ConnectorTypes, NEW c \in Calls, CallShape(c), NEW i \in Places,
         item[c][i] \in {"ready", "queued", "running"},
         NEW s \in ItemStates \ {"none", "ready"}, Set(c, {i}, s),
         UNCHANGED <<req, pc, seen, outcome>>
  PROVE  CallShape(c)'
<1>1. \A j \in Places : item'[c][j] = IF j = i THEN s ELSE item[c][j]
  BY SetEffect
<1>2. i \notin seen[c] /\ seen[c] \subseteq Places
  BY DEF CallShape, Finished, ConnectorTypes
<1>3. pc[c] \notin {"new", "sem"}
  BY DEF CallShape
<1>4. InOrder(c)'
  BY <1>1 DEF CallShape, InOrder
<1>5. \A j \in seen[c] : Finished(c, j)'
  BY <1>1, <1>2 DEF CallShape, Finished
<1>6. ASSUME outcome[c] = "returned", NEW j \in Items(c) PROVE Finished(c, j)'
  <2>1. Finished(c, j) /\ j \in Places
    BY <1>6, ItemsArePlaces DEF CallShape, ConnectorTypes
  <2> QED
    BY <1>1, <2>1 DEF Finished
<1> QED
  BY <1>1, <1>3, <1>4, <1>5, <1>6 DEF CallShape, Whole, Items

(* A coroutine sees that one of its engine calls is over, and the call may *)
(* end with that.                                                          *)
LEMMA ResumeShape ==
  ASSUME ConnectorTypes, NEW c \in Calls, CallShape(c), NEW i \in Places,
         pc[c] = "run", Finished(c, i),
         seen' = [seen EXCEPT ![c] = @ \cup {i}], UNCHANGED <<req, item>>,
         \/ UNCHANGED <<pc, outcome>>
         \/ /\ pc' = [pc EXCEPT ![c] = "ended"]
            /\ \E how \in {"returned", "raised", "cancelled"} :
                 /\ outcome' = [outcome EXCEPT ![c] = how]
                 /\ how = "returned" => \A j \in Items(c) : Finished(c, j)
  PROVE  CallShape(c)'
<1>1. seen'[c] = seen[c] \cup {i} /\ pc'[c] \in {"run", "ended"}
  BY DEF ConnectorTypes
<1>2. InOrder(c)'
  BY <1>1 DEF CallShape, InOrder
<1>3. \A j \in seen'[c] : Finished(c, j)'
  BY <1>1 DEF CallShape, Finished
<1>4. outcome[c] = "none"
  BY DEF CallShape, ConnectorTypes
<1>5. \/ pc'[c] = pc[c] /\ outcome'[c] = "none"
      \/ /\ pc'[c] = "ended" /\ outcome'[c] # "none"
         /\ outcome'[c] = "returned" => \A j \in Items(c) : Finished(c, j)
  BY <1>4 DEF ConnectorTypes
<1>6. outcome'[c] = "returned" => \A j \in Items(c)' : Finished(c, j)'
  BY <1>5 DEF Items, Finished
<1> QED
  BY <1>1, <1>2, <1>3, <1>5, <1>6 DEF CallShape

(* batched_get goes on to its next key, which nobody has touched.          *)
LEMMA AdvanceShape ==
  ASSUME ConnectorTypes, NEW c \in Calls, CallShape(c), NEW i \in Places,
         pc[c] = "run", req[c].kind \in {"get", "batched_get"},
         Finished(c, i), item[c][i] # "raised", i \notin seen[c], i < req[c].n,
         seen' = [seen EXCEPT ![c] = @ \cup {i}], Set(c, {i + 1}, Submitted),
         UNCHANGED <<req, pc, outcome>>
  PROVE  CallShape(c)'
<1>1. /\ seen'[c] = seen[c] \cup {i} /\ seen[c] \subseteq Places
      /\ item[c][i] \in {"hit", "miss"}
  BY DEF ConnectorTypes, Finished
<1>2. i \in Nat \ {0} /\ Places \subseteq Nat \ {0} /\ req[c].n \in Nat /\ Items(c) \subseteq Places
  BY ItemsArePlaces DEF ConnectorTypes
<1>3. i + 1 \in Places /\ i < i + 1
  BY <1>2, SMT DEF Items
<1>4. Submitted \in ItemStates /\ Submitted \in {"queued", "raised"}
  BY Submission
<1>5. \A j \in Places : item'[c][j] = IF j = i + 1 THEN Submitted ELSE item[c][j]
  BY <1>4, SetEffect
<1>6. \A j \in Places : i < j => item[c][j] = "none"
  BY DEF CallShape, InOrder
<1>7. i + 1 \notin seen[c]
  BY <1>3, <1>6 DEF CallShape, Finished
<1>8. \A j \in seen'[c] : Finished(c, j)'
  <2>1. ASSUME NEW j \in seen[c] PROVE item'[c][j] = item[c][j] /\ Finished(c, j)
    BY <1>1, <1>5, <1>7 DEF CallShape
  <2>2. item'[c][i] = item[c][i]
    BY <1>2, <1>3, <1>5, SMT
  <2> QED
    BY <1>1, <2>1, <2>2 DEF Finished
<1>9. InOrder(c)'
  <2> SUFFICES ASSUME NEW j \in Places, NEW k \in Places, j < k, item'[c][k] # "none"
               PROVE  j \in seen'[c] /\ item'[c][j] \in {"hit", "miss"}
    BY DEF InOrder
  <2>0. j \in Nat /\ k \in Nat
    BY <1>2
  <2>1. CASE j = i
    BY <1>1, <1>2, <1>5, <2>1, SMT
  <2>2. CASE j < i
    <3>1. j \in seen[c] /\ item[c][j] \in {"hit", "miss"}
      BY <1>1, <2>2 DEF CallShape, InOrder
    <3>2. j # i + 1
      BY <1>2, <2>2, SMT
    <3> QED
      BY <1>1, <1>5, <3>1, <3>2
  <2>3. CASE i < j
    <3>1. k # i + 1 /\ i < k
      BY <1>2, <2>0, <2>3, SMT
    <3> QED
      BY <1>5, <1>6, <3>1
  <2>4. j = i \/ j < i \/ i < j
    BY <1>2, <2>0, SMT
  <2> QED
    BY <2>1, <2>2, <2>3, <2>4
<1>10. outcome[c] = "none"
  BY DEF CallShape, ConnectorTypes
<1>11. \A j \in Places : item'[c][j] = "ready" => item[c][j] = "ready"
  BY <1>4, <1>5
<1> QED
  BY <1>8, <1>9, <1>10, <1>11 DEF CallShape, Whole

(* A timeout ends the call and takes its queued engine calls back.         *)
LEMMA CancelShape ==
  ASSUME ConnectorTypes, NEW c \in Calls, CallShape(c),
         Set(c, {i \in Items(c) : item[c][i] = "queued"}, "lost"),
         pc' = [pc EXCEPT ![c] = "ended"], outcome' = [outcome EXCEPT ![c] = "cancelled"],
         UNCHANGED <<req, seen>>
  PROVE  CallShape(c)'
<1>1. \A j \in Places : \/ item'[c][j] = item[c][j]
                        \/ item[c][j] = "queued" /\ item'[c][j] = "lost"
  BY SetEffect DEF ItemStates
<1>2. pc'[c] = "ended" /\ outcome'[c] = "cancelled" /\ seen[c] \subseteq Places
  BY DEF ConnectorTypes
<1> QED
  BY <1>1, <1>2 DEF CallShape, InOrder, Finished

-----------------------------------------------------------------------------
ShapeInv == ConnectorTypes /\ CallsShaped

(* Begin and TakePermit start a call.                                      *)
LEMMA StartsKeepShape ==
  ASSUME ShapeInv, NEW c \in Calls, Begin(c) \/ TakePermit(c)
  PROVE  ShapeInv'
<1>0. ConnectorTypes /\ CallShape(c) /\ \A d \in Calls : CallShape(d)
  BY DEF ShapeInv, CallsShaped
<1>1. /\ pc[c] \in {"new", "sem"} /\ UNCHANGED <<req, seen, outcome, own, stage>>
      /\ pc' = [pc EXCEPT ![c] = IF pc[c] = "new" /\ Whole(c) THEN "sem" ELSE "run"]
  BY DEF Begin, TakePermit
<1>2. \/ item' = item
      \/ ~(pc[c] = "new" /\ Whole(c)) /\ Set(c, {1}, Submitted)
      \/ /\ ~(pc[c] = "new" /\ Whole(c)) /\ Set(c, Items(c), "ready")
         /\ req[c].kind \in {"batched_put", "non_blocking"}
  <2>1. CASE Begin(c)
    BY <2>1 DEF Begin, Whole
  <2>2. CASE TakePermit(c)
    <3>1. Whole(c) /\ pc[c] = "sem"
      BY <1>0, <2>2 DEF TakePermit, CallShape
    <3> QED
      BY <2>2, <3>1 DEF TakePermit, Whole, Put
  <2> QED
    BY <2>1, <2>2
<1>3. /\ item' \in [Calls -> [Places -> ItemStates]]
      /\ \A d \in Calls : d # c => item'[d] = item[d] /\ pc'[d] = pc[d]
      /\ CallShape(c)'
  BY <1>0, <1>1, <1>2, StartShape
<1>4. permits' \in Nat
  BY <1>0, SMT DEF Begin, TakePermit, ConnectorTypes
<1>5. ConnectorTypes'
  BY <1>0, <1>1, <1>3, <1>4 DEF ConnectorTypes
<1>6. CallsShaped'
  BY <1>0, <1>1, <1>3, ShapeKept DEF CallsShaped
<1> QED
  BY <1>5, <1>6 DEF ShapeInv

(* SubmitItem, StartItem and EndItem take one item a step further.         *)
LEMMA ItemStepsKeepShape ==
  ASSUME ShapeInv, NEW c \in Calls, NEW i \in Places,
         SubmitItem(c, i) \/ StartItem(c, i) \/ EndItem(c, i)
  PROVE  ShapeInv'
<1>0. ConnectorTypes /\ CallShape(c) /\ \A d \in Calls : CallShape(d)
  BY DEF ShapeInv, CallsShaped
<1>1. /\ item[c][i] \in {"ready", "queued", "running"}
      /\ UNCHANGED <<req, pc, seen, outcome, stage>>
  BY DEF SubmitItem, StartItem, EndItem
<1>2. PICK s \in ItemStates \ {"none", "ready"} : Set(c, {i}, s)
  <2>1. CASE SubmitItem(c, i)
    BY <1>0, <2>1, Submission DEF SubmitItem
  <2>2. CASE StartItem(c, i)
    BY <2>2 DEF StartItem, ItemStates
  <2>3. CASE EndItem(c, i)
    <3> PICK end \in {"hit", "raised", "miss"} : Set(c, {i}, end)
      BY <2>3 DEF EndItem
    <3>1. end \in ItemStates \ {"none", "ready"}
      BY DEF ItemStates
    <3> QED
      BY <3>1
  <2> QED
    BY <2>1, <2>2, <2>3
<1>3. /\ item' \in [Calls -> [Places -> ItemStates]]
      /\ \A d \in Calls : d # c => item'[d] = item[d]
  BY <1>0, <1>2, SetEffect
<1>4. permits' \in Nat
  BY <1>0, SMT DEF SubmitItem, StartItem, EndItem, ConnectorTypes
<1>5. own' \in [Calls -> [Places -> {"none", "caller", "released", "dropped"}]]
  <2> DEFINE row == [own[c] EXCEPT ![i] = "dropped"]
  <2>1. own' = own \/ own' = [own EXCEPT ![c] = row]
    BY DEF SubmitItem, StartItem, EndItem
  <2>2. row \in [Places -> {"none", "caller", "released", "dropped"}]
    BY <1>0 DEF ConnectorTypes
  <2> HIDE DEF row
  <2> QED
    BY <1>0, <2>1, <2>2 DEF ConnectorTypes
<1>6. ConnectorTypes'
  BY <1>0, <1>1, <1>3, <1>4, <1>5 DEF ConnectorTypes
<1>7. CallShape(c)'
  BY <1>0, <1>1, <1>2, ProgressShape
<1>8. CallsShaped'
  BY <1>0, <1>1, <1>3, <1>7, ShapeKept DEF CallsShaped
<1> QED
  BY <1>6, <1>8 DEF ShapeInv

(* The coroutines' steps either go on, or end their call with everything   *)
(* finished that a normal return needs.                                    *)
LEMMA ResumeCases ==
  ASSUME ShapeInv, NEW c \in Calls, NEW i \in Places,
         ResumeGet(c, i) \/ ResumePut(c, i) \/ ResumeNonBlocking(c, i)
  PROVE  \/ UNCHANGED <<pc, outcome, own, item>>
         \/ /\ UNCHANGED <<pc, outcome, own, permits>> /\ Set(c, {i + 1}, Submitted)
            /\ ResumeGet(c, i) /\ item[c][i] # "raised" /\ i < req[c].n
         \/ /\ item' = item
            /\ \E how \in {"returned", "raised"} :
                 End(c, how) /\ (how = "returned" => \A j \in Items(c) : Finished(c, j))
<1>0. ConnectorTypes /\ CallShape(c)
  BY DEF ShapeInv, CallsShaped
<1>1. Finished(c, i)
  BY DEF ResumeGet, ResumePut, ResumeNonBlocking
<1>2. ASSUME Gathered(c, i), NEW j \in Items(c) PROVE Finished(c, j)
  BY <1>0, <1>1, <1>2 DEF Gathered, CallShape
<1>3. CASE ResumePut(c, i) \/ ResumeNonBlocking(c, i)
  BY <1>2, <1>3 DEF ResumePut, ResumeNonBlocking
<1>4. CASE ResumeGet(c, i)
  <2>1. ASSUME i = req[c].n, NEW j \in Items(c) PROVE Finished(c, j)
    <3>1. j \in Places /\ (j < i \/ j = i)
      <4>1. req[c].n \in Nat /\ Items(c) \subseteq Places
        BY <1>0, ItemsArePlaces DEF ConnectorTypes
      <4>2. j < i \/ j = i
        BY <2>1, <4>1, SMT DEF Items
      <4> QED
        BY <4>1, <4>2
    <3>2. item[c][i] # "none"
      BY <1>1 DEF Finished
    <3>3. j < i => item[c][j] \in {"hit", "miss"}
      BY <1>0, <1>4, <3>1, <3>2 DEF CallShape, InOrder, ResumeGet
    <3> QED
      BY <1>1, <3>1, <3>3 DEF Finished
  <2>2. CASE item[c][i] # "raised" /\ i < req[c].n /\ Set(c, {i + 1}, Submitted)
             /\ UNCHANGED <<pc, outcome, own, permits>>
    BY <1>4, <2>2
  <2>3. CASE /\ item[c][i] = "raised" \/ i = req[c].n
             /\ LET how == IF item[c][i] = "raised" THEN "raised" ELSE "returned"
                IN  End(c, how) /\ permits' = PermitsAfter(c, how)
             /\ item' = item
    BY <2>1, <2>3
  <2> QED
    BY <1>4, <2>2, <2>3 DEF ResumeGet
<1> QED
  BY <1>3, <1>4

(* ResumeGet, ResumePut and ResumeNonBlocking.                             *)
LEMMA ResumesKeepShape ==
  ASSUME ShapeInv, NEW c \in Calls, NEW i \in Places,
         ResumeGet(c, i) \/ ResumePut(c, i) \/ ResumeNonBlocking(c, i)
  PROVE  ShapeInv'
<1>0. ConnectorTypes /\ CallShape(c) /\ \A d \in Calls : CallShape(d)
  BY DEF ShapeInv, CallsShaped
<1>1. /\ pc[c] = "run" /\ Finished(c, i) /\ i \notin seen[c]
      /\ seen' = [seen EXCEPT ![c] = @ \cup {i}] /\ UNCHANGED <<req, stage>>
  BY DEF ResumeGet, ResumePut, ResumeNonBlocking
<1>2. permits' \in Nat
  <2>1. permits' = permits \/ permits' = permits + 1
    BY ResumeCases DEF ResumeGet, ResumePut, ResumeNonBlocking, PermitsAfter
  <2> QED
    BY <1>0, <2>1, SMT DEF ConnectorTypes
<1>3. seen' \in [Calls -> SUBSET Places]
  BY <1>0, <1>1 DEF ConnectorTypes
<1>4. \A d \in Calls : d # c => seen'[d] = seen[d]
  BY <1>0, <1>1 DEF ConnectorTypes
<1>5. CASE UNCHANGED <<pc, outcome, own, item>>
  <2>1. ConnectorTypes'
    BY <1>0, <1>1, <1>2, <1>3, <1>5 DEF ConnectorTypes
  <2>2. CallShape(c)'
    BY <1>0, <1>1, <1>5, ResumeShape
  <2> QED
    BY <1>0, <1>1, <1>4, <1>5, <2>1, <2>2, ShapeKept DEF ShapeInv, CallsShaped
<1>6. CASE /\ UNCHANGED <<pc, outcome, own, permits>> /\ Set(c, {i + 1}, Submitted)
           /\ ResumeGet(c, i) /\ item[c][i] # "raised" /\ i < req[c].n
  <2>1. /\ item' \in [Calls -> [Places -> ItemStates]]
        /\ \A d \in Calls : d # c => item'[d] = item[d]
    BY <1>0, <1>6, SetEffect, Submission
  <2>2. ConnectorTypes'
    BY <1>0, <1>1, <1>2, <1>3, <1>6, <2>1 DEF ConnectorTypes
  <2>3. req[c].kind \in {"get", "batched_get"}
    BY <1>6 DEF ResumeGet
  <2>4. CallShape(c)'
    BY <1>0, <1>1, <1>6, <2>3, AdvanceShape
  <2> QED
    BY <1>0, <1>1, <1>4, <1>6, <2>1, <2>2, <2>4, ShapeKept DEF ShapeInv, CallsShaped
<1>7. CASE /\ item' = item
           /\ \E how \in {"returned", "raised"} :
                End(c, how) /\ (how = "returned" => \A j \in Items(c) : Finished(c, j))
  <2> PICK how \in {"returned", "raised"} :
             End(c, how) /\ (how = "returned" => \A j \in Items(c) : Finished(c, j))
    BY <1>7
  <2>1. /\ pc' = [pc EXCEPT ![c] = "ended"]
        /\ outcome' = [outcome EXCEPT ![c] = how]
        /\ own' \in [Calls -> [Places -> {"none", "caller", "released", "dropped"}]]
    BY <1>0, EndEffect
  <2>2. ConnectorTypes'
    BY <1>0, <1>1, <1>2, <1>3, <1>7, <2>1 DEF ConnectorTypes
  <2>3. CallShape(c)'
    BY <1>0, <1>1, <1>7, <2>1, ResumeShape
  <2>4. \A d \in Calls : d # c => pc'[d] = pc[d] /\ outcome'[d] = outcome[d]
    BY <1>0, <2>1 DEF ConnectorTypes
  <2> QED
    BY <1>0, <1>1, <1>4, <1>7, <2>2, <2>3, <2>4, ShapeKept DEF ShapeInv, CallsShaped
<1> QED
  BY <1>5, <1>6, <1>7, ResumeCases

(* Cancel.                                                                 *)
LEMMA CancelKeepsShape ==
  ASSUME ShapeInv, NEW c \in Calls, Cancel(c)
  PROVE  ShapeInv'
<1>0. ConnectorTypes /\ CallShape(c) /\ \A d \in Calls : CallShape(d)
  BY DEF ShapeInv, CallsShaped
<1>1. /\ End(c, "cancelled") /\ UNCHANGED <<req, seen, stage>>
      /\ Set(c, {i \in Items(c) : item[c][i] = "queued"}, "lost")
  BY DEF Cancel
<1>2. /\ pc' = [pc EXCEPT ![c] = "ended"] /\ outcome' = [outcome EXCEPT ![c] = "cancelled"]
      /\ own' \in [Calls -> [Places -> {"none", "caller", "released", "dropped"}]]
  BY <1>0, <1>1, EndEffect
<1>3. /\ item' \in [Calls -> [Places -> ItemStates]]
      /\ \A d \in Calls : d # c => item'[d] = item[d]
  BY <1>0, <1>1, SetEffect DEF ItemStates
<1>4. permits' \in Nat
  BY <1>0, SMT DEF Cancel, PermitsAfter, ConnectorTypes
<1>5. ConnectorTypes'
  BY <1>0, <1>1, <1>2, <1>3, <1>4 DEF ConnectorTypes
<1>6. CallShape(c)'
  BY <1>0, <1>1, <1>2, CancelShape
<1>7. \A d \in Calls : d # c => pc'[d] = pc[d] /\ outcome'[d] = outcome[d]
  BY <1>0, <1>2 DEF ConnectorTypes
<1> QED
  BY <1>0, <1>1, <1>3, <1>5, <1>6, <1>7, ShapeKept DEF ShapeInv, CallsShaped

(* Every step keeps the calls in shape.                                    *)
LEMMA ShapeNext == ShapeInv /\ [Next]_vars => ShapeInv'
<1> SUFFICES ASSUME ShapeInv, [Next]_vars PROVE ShapeInv'
  OBVIOUS
<1>1. ASSUME BeginClose \/ EndClose \/ UNCHANGED vars PROVE ShapeInv'
  <2>1. UNCHANGED <<req, pc, item, seen, outcome, own, permits>>
    BY <1>1 DEF BeginClose, EndClose, vars
  <2>2. ConnectorTypes'
    BY <1>1, <2>1 DEF ShapeInv, ConnectorTypes, BeginClose, EndClose, vars
  <2> QED
    BY <2>1, <2>2, ShapeKept DEF ShapeInv, CallsShaped
<1> QED
  BY <1>1, StartsKeepShape, ItemStepsKeepShape, ResumesKeepShape, CancelKeepsShape
     DEF Next, LoopStep, ThreadStep

-----------------------------------------------------------------------------
(* Only the coroutine's own resumption makes a call return.                *)
LEMMA ReturnIsEnd ==
  ASSUME ShapeInv, [Next]_vars, NEW c \in Calls,
         outcome[c] # "returned", outcome'[c] = "returned"
  PROVE  item' = item /\ req' = req /\ End(c, "returned")
<1>0. ConnectorTypes
  BY DEF ShapeInv
<1>1. PICK d \in Calls : \/ Cancel(d)
                         \/ \E i \in Places : \/ ResumeGet(d, i) \/ ResumePut(d, i)
                                              \/ ResumeNonBlocking(d, i)
  BY DEF Next, LoopStep, ThreadStep, Begin, TakePermit, SubmitItem, StartItem, EndItem,
         BeginClose, EndClose, vars
<1>2. ASSUME NEW how \in {"returned", "raised", "cancelled"}, End(d, how)
      PROVE  d = c /\ how = "returned"
  BY <1>0, <1>2, EndEffect DEF ConnectorTypes
<1>3. ~Cancel(d)
  BY <1>2 DEF Cancel
<1>4. PICK i \in Places : ResumeGet(d, i) \/ ResumePut(d, i) \/ ResumeNonBlocking(d, i)
  BY <1>1, <1>3
<1>5. req' = req
  BY <1>4 DEF ResumeGet, ResumePut, ResumeNonBlocking
<1>6. item' = item /\ \E how \in {"returned", "raised"} : End(d, how)
  BY <1>4, ResumeCases
<1> QED
  BY <1>2, <1>5, <1>6

(* Once a call has returned, no step changes what became of its items.     *)
LEMMA ReturnedIsOver ==
  ASSUME ShapeInv, [Next]_vars, NEW c \in Calls, outcome[c] = "returned"
  PROVE  /\ req' = req
         /\ \A i \in Items(c) : item'[c][i] = item[c][i] /\ own'[c][i] = own[c][i]
<1>0. /\ ConnectorTypes /\ pc[c] = "ended" /\ \A i \in Items(c) : Finished(c, i)
      /\ Items(c) \subseteq Places
  BY ItemsArePlaces DEF ShapeInv, CallsShaped, CallShape, ConnectorTypes
<1> DEFINE Goal == \A i \in Items(c) : item'[c][i] = item[c][i] /\ own'[c][i] = own[c][i]
<1>1. req' = req
  BY DEF Next, LoopStep, ThreadStep, Begin, TakePermit, SubmitItem, StartItem, EndItem,
         ResumeGet, ResumePut, ResumeNonBlocking, Cancel, BeginClose, EndClose, vars
<1>2. ASSUME NEW d \in Calls, Begin(d) \/ TakePermit(d) PROVE Goal
  <2>1. d # c /\ own' = own
    BY <1>0, <1>2 DEF Begin, TakePermit
  <2>2. item' = item \/ \E P, s : s \in ItemStates /\ Set(d, P, s)
    BY <1>0, <1>2, Submission DEF Begin, TakePermit, ItemStates
  <2> QED
    BY <1>0, <2>1, <2>2, SetEffect
<1>3. ASSUME NEW d \in Calls, NEW j \in Places,
             SubmitItem(d, j) \/ StartItem(d, j) \/ EndItem(d, j)
      PROVE  Goal
  <2>1. d = c => j \notin Items(c)
    BY <1>0, <1>3 DEF SubmitItem, StartItem, EndItem, Finished
  <2>2. PICK s \in ItemStates : Set(d, {j}, s)
    BY <1>0, <1>3, Submission DEF SubmitItem, StartItem, EndItem, ItemStates
  <2>3. \A i \in Items(c) : item'[c][i] = item[c][i]
    BY <1>0, <2>1, <2>2, SetEffect
  <2>4. own' = own \/ own' = [own EXCEPT ![d] = [own[d] EXCEPT ![j] = "dropped"]]
    BY <1>3 DEF SubmitItem, StartItem, EndItem
  <2>5. \A i \in Items(c) : own'[c][i] = own[c][i]
    <3> DEFINE row == [own[d] EXCEPT ![j] = "dropped"]
    <3>1. d = c => \A i \in Items(c) : row[i] = own[c][i]
      BY <1>0, <2>1 DEF ConnectorTypes
    <3>2. own' = own \/ own' = [own EXCEPT ![d] = row]
      BY <2>4
    <3> HIDE DEF row
    <3> QED
      BY <1>0, <3>1, <3>2 DEF ConnectorTypes
  <2> QED
    BY <2>3, <2>5
<1>4. ASSUME NEW d \in Calls, NEW j \in Places,
             ResumeGet(d, j) \/ ResumePut(d, j) \/ ResumeNonBlocking(d, j)
      PROVE  Goal
  <2>1. d # c
    BY <1>0, <1>4 DEF ResumeGet, ResumePut, ResumeNonBlocking
  <2>2. \/ item' = item
        \/ \E P, s : s \in ItemStates /\ Set(d, P, s)
    BY <1>0, <1>4, ResumeCases, Submission
  <2>3. own' = own \/ \E how \in {"returned", "raised"} : End(d, how)
    BY <1>4, ResumeCases
  <2>4. item'[c] = item[c]
    BY <1>0, <2>1, <2>2, SetEffect
  <2>5. own'[c] = own[c]
    BY <1>0, <2>1, <2>3, EndEffect
  <2> QED
    BY <2>4, <2>5
<1>5. ASSUME NEW d \in Calls, Cancel(d) PROVE Goal
  <2>1. d # c /\ End(d, "cancelled")
        /\ Set(d, {i \in Items(d) : item[d][i] = "queued"}, "lost")
    BY <1>0, <1>5 DEF Cancel
  <2>2. item'[c] = item[c]
    BY <1>0, <2>1, SetEffect DEF ItemStates
  <2>3. own'[c] = own[c]
    BY <1>0, <2>1, EndEffect
  <2> QED
    BY <2>2, <2>3
<1>6. ASSUME BeginClose \/ EndClose \/ UNCHANGED vars PROVE Goal
  BY <1>6 DEF BeginClose, EndClose, vars
<1>7. Goal
  BY <1>2, <1>3, <1>4, <1>5, <1>6 DEF Next, LoopStep, ThreadStep
<1> QED
  BY <1>1, <1>7

(* Every step keeps the accounts of the objects.                           *)
LEMMA AccountsNext ==
  ASSUME ShapeInv, ObjectsAccounted, [Next]_vars
  PROVE  ObjectsAccounted'
<1> SUFFICES ASSUME NEW c \in Calls, outcome'[c] = "returned", ~Put(c)', NEW i \in Items(c)'
             PROVE  /\ item'[c][i] = "hit" <=> own'[c][i] \in {"caller", "released"}
                    /\ req'[c].kind = "non_blocking" /\ own'[c][i] = "caller" =>
                          \A j \in 1 .. i : own'[c][j] = "caller"
  BY DEF ObjectsAccounted
<1>0. /\ ConnectorTypes /\ Items(c) \subseteq Places /\ req[c].n \in Nat
  BY ItemsArePlaces DEF ShapeInv, ConnectorTypes
<1>1. CASE outcome[c] = "returned"
  <2>1. /\ req' = req
        /\ \A j \in Items(c) : item'[c][j] = item[c][j] /\ own'[c][j] = own[c][j]
    BY <1>1, ReturnedIsOver
  <2>2. i \in Items(c) /\ ~Put(c)
    BY <2>1 DEF Items, Put
  <2>3. 1 .. i \subseteq Items(c)
    BY <1>0, <2>2, SMT DEF Items
  <2>4. /\ item[c][i] = "hit" <=> own[c][i] \in {"caller", "released"}
        /\ req[c].kind = "non_blocking" /\ own[c][i] = "caller" =>
              \A j \in 1 .. i : own[c][j] = "caller"
    BY <1>1, <2>2 DEF ObjectsAccounted
  <2> QED
    BY <2>1, <2>2, <2>3, <2>4
<1>2. CASE outcome[c] # "returned"
  <2>1. item' = item /\ req' = req /\ End(c, "returned")
    BY <1>2, ReturnIsEnd
  <2>2. i \in Items(c) /\ ~Put(c)
    BY <2>1 DEF Items, Put
  <2>3. \A j \in Places : own'[c][j] = IF item[c][j] # "hit" THEN "none"
                                       ELSE IF j \in Handed(c) THEN "caller" ELSE "released"
    BY <1>0, <2>1, <2>2, EndEffect
  <2>4. item'[c][i] = "hit" <=> own'[c][i] \in {"caller", "released"}
    BY <1>0, <2>1, <2>2, <2>3
  <2>5. ASSUME req[c].kind = "non_blocking", own'[c][i] = "caller", NEW j \in 1 .. i
        PROVE  own'[c][j] = "caller"
    <3>1. i \in Handed(c)
      BY <1>0, <2>2, <2>3, <2>5
    <3>2. \A k \in 1 .. i : item[c][k] = "hit"
      BY <2>5, <3>1 DEF Handed
    <3>3. j \in Items(c) /\ 1 .. j \subseteq 1 .. i
      BY <1>0, <2>2, <2>5, SMT DEF Items
    <3>4. j \in Handed(c)
      BY <3>2, <3>3 DEF Handed
    <3> QED
      BY <1>0, <2>3, <3>2, <3>3, <3>4
  <2> QED
    BY <2>1, <2>4, <2>5
<1> QED
  BY <1>1, <1>2

-----------------------------------------------------------------------------
(* The calls and the _sem_get tasks that hold a permit.                    *)
HoldingCalls == {c \in Calls : Whole(c) /\ pc[c] = "run"}
HoldingTasks == {e \in Calls \X Places : /\ req[e[1]].kind = "non_blocking"
                                         /\ e[2] \notin seen[e[1]]
                                         /\ item[e[1]][e[2]] \notin {"none", "ready"}}

(* Both are finite sets.                                                   *)
LEMMA HoldersFinite ==
  /\ IsFiniteSet(HoldingCalls) /\ IsFiniteSet(HoldingTasks)
  /\ Cardinality(HoldingCalls) \in Nat /\ Cardinality(HoldingTasks) \in Nat
<1> DEFINE intervals == {1 .. r.n : r \in Requests}
           interval == [r \in Requests |-> 1 .. r.n]
<1>1. interval \in Surjection(Requests, intervals)
  BY DEF Surjection
<1>2. IsFiniteSet(intervals)
  BY <1>1, FiniteAssumption, FS_Surjection
<1>3. \A r \in Requests : IsFiniteSet(1 .. r.n)
  <2> SUFFICES ASSUME NEW r \in Requests PROVE IsFiniteSet(1 .. r.n)
    OBVIOUS
  <2>1. r.n \in Int /\ 1 \in Int
    BY RequestsAssumption
  <2> QED
    BY <2>1, FS_Interval
<1>4. IsFiniteSet(Places)
  BY <1>2, <1>3, FS_UNION DEF Places
<1>5. IsFiniteSet(Calls \X Places)
  BY <1>4, FiniteAssumption, FS_Product
<1>6. HoldingCalls \subseteq Calls /\ HoldingTasks \subseteq Calls \X Places
  BY DEF HoldingCalls, HoldingTasks
<1> QED
  BY <1>5, <1>6, FiniteAssumption, FS_Subset, FS_CardinalityType

(* A permit that is taken gets one holder, and one that is given back      *)
(* loses it.                                                               *)
LEMMA PermitsMove ==
  ASSUME PermitsConserved, permits \in Nat,
         \/ permits' = permits /\ HoldingCalls' = HoldingCalls /\ HoldingTasks' = HoldingTasks
         \/ /\ permits' = permits - 1 /\ HoldingTasks' = HoldingTasks
            /\ \E c : c \notin HoldingCalls /\ HoldingCalls' = HoldingCalls \cup {c}
         \/ /\ permits' = permits - 1 /\ HoldingCalls' = HoldingCalls
            /\ \E e : e \notin HoldingTasks /\ HoldingTasks' = HoldingTasks \cup {e}
         \/ /\ permits' = permits + 1 /\ HoldingTasks' = HoldingTasks
            /\ \E c : c \in HoldingCalls /\ HoldingCalls' = HoldingCalls \ {c}
         \/ /\ permits' = permits + 1 /\ HoldingCalls' = HoldingCalls
            /\ \E e : e \in HoldingTasks /\ HoldingTasks' = HoldingTasks \ {e}
  PROVE  PermitsConserved'
<1> DEFINE m == Cardinality(HoldingCalls)
           n == Cardinality(HoldingTasks)
           m2 == Cardinality(HoldingCalls')
           n2 == Cardinality(HoldingTasks')
<1>1. m \in Nat /\ n \in Nat /\ IsFiniteSet(HoldingCalls) /\ IsFiniteSet(HoldingTasks)
  BY HoldersFinite
<1>2. permits = MaxInFlight - m - n /\ MaxInFlight \in Nat
  BY LimitsAssumption DEF PermitsConserved, HoldingCalls, HoldingTasks
<1>3. \/ permits' = permits /\ m2 = m /\ n2 = n
      \/ permits' = permits - 1 /\ m2 = m + 1 /\ n2 = n
      \/ permits' = permits - 1 /\ m2 = m /\ n2 = n + 1
      \/ permits' = permits + 1 /\ m2 = m - 1 /\ n2 = n
      \/ permits' = permits + 1 /\ m2 = m /\ n2 = n - 1
  BY <1>1, FS_AddElement, FS_RemoveElement
<1>4. permits' = MaxInFlight - m2 - n2
  <2> HIDE DEF m, n, m2, n2
  <2> QED
    BY <1>1, <1>2, <1>3, SMT
<1> QED
  BY <1>4 DEF PermitsConserved, HoldingCalls, HoldingTasks

(* Who holds a permit, call by call.                                       *)
LEMMA HoldersByCall ==
  ASSUME NEW c \in Calls, req' = req,
         \A d \in Calls : d # c => pc'[d] = pc[d] /\ item'[d] = item[d] /\ seen'[d] = seen[d]
  PROVE  /\ (Whole(c) /\ pc'[c] = "run" <=> Whole(c) /\ pc[c] = "run")
               => HoldingCalls' = HoldingCalls
         /\ (Whole(c) /\ pc'[c] = "run" /\ pc[c] # "run")
               => c \notin HoldingCalls /\ HoldingCalls' = HoldingCalls \cup {c}
         /\ (Whole(c) /\ pc'[c] # "run" /\ pc[c] = "run")
               => c \in HoldingCalls /\ HoldingCalls' = HoldingCalls \ {c}
         /\ req[c].kind # "non_blocking" => HoldingTasks' = HoldingTasks
<1>1. \A d \in Calls : Whole(d)' <=> Whole(d)
  BY DEF Whole
<1>2. \A d \in Calls : d # c => (d \in HoldingCalls' <=> d \in HoldingCalls)
  BY <1>1 DEF HoldingCalls
<1>3. /\ c \in HoldingCalls <=> Whole(c) /\ pc[c] = "run"
      /\ c \in HoldingCalls' <=> Whole(c) /\ pc'[c] = "run"
      /\ HoldingCalls \subseteq Calls /\ HoldingCalls' \subseteq Calls
  BY <1>1 DEF HoldingCalls
<1>4. ASSUME req[c].kind # "non_blocking" PROVE HoldingTasks' = HoldingTasks
  BY <1>4 DEF HoldingTasks
<1> QED
  BY <1>2, <1>3, <1>4

(* A step of one item of a batched_get_non_blocking changes the holders by *)
(* that item's task at most.                                               *)
LEMMA HoldersByTask ==
  ASSUME ConnectorTypes, NEW c \in Calls, NEW i \in Places, req' = req,
         req[c].kind = "non_blocking",
         \A d \in Calls : d # c => item'[d] = item[d] /\ seen'[d] = seen[d],
         \A j \in Places : j # i => /\ item'[c][j] = item[c][j]
                                    /\ j \in seen'[c] <=> j \in seen[c]
  PROVE  LET was == i \notin seen[c] /\ item[c][i] \notin {"none", "ready"}
             is  == i \notin seen'[c] /\ item'[c][i] \notin {"none", "ready"}
         IN  /\ (was <=> is) => HoldingTasks' = HoldingTasks
             /\ is /\ ~was => <<c, i>> \notin HoldingTasks
                              /\ HoldingTasks' = HoldingTasks \cup {<<c, i>>}
             /\ was /\ ~is => <<c, i>> \in HoldingTasks
                              /\ HoldingTasks' = HoldingTasks \ {<<c, i>>}
<1> DEFINE was == i \notin seen[c] /\ item[c][i] \notin {"none", "ready"}
           is  == i \notin seen'[c] /\ item'[c][i] \notin {"none", "ready"}
<1>1. <<c, i>> \in HoldingTasks <=> was
  BY DEF HoldingTasks
<1>2. <<c, i>> \in HoldingTasks' <=> is
  BY DEF HoldingTasks
<1>3. \A d \in Calls, j \in Places :
         <<d, j>> # <<c, i>> => (<<d, j>> \in HoldingTasks' <=> <<d, j>> \in HoldingTasks)
  <2> SUFFICES ASSUME NEW d \in Calls, NEW j \in Places, <<d, j>> # <<c, i>>
               PROVE  <<d, j>> \in HoldingTasks' <=> <<d, j>> \in HoldingTasks
    OBVIOUS
  <2>1. item'[d][j] = item[d][j] /\ (j \in seen'[d] <=> j \in seen[d])
    BY DEF ConnectorTypes
  <2> QED
    BY <2>1 DEF HoldingTasks
<1>4. HoldingTasks \subseteq Calls \X Places /\ HoldingTasks' \subseteq Calls \X Places
  BY DEF HoldingTasks
<1> HIDE DEF was, is
<1>5. ASSUME NEW e \in Calls \X Places
      PROVE  e = <<e[1], e[2]>> /\ e[1] \in Calls /\ e[2] \in Places
  OBVIOUS
<1>6. \A e \in Calls \X Places : e # <<c, i>> => (e \in HoldingTasks' <=> e \in HoldingTasks)
  BY <1>3, <1>5
<1>7. /\ (was <=> is) => HoldingTasks' = HoldingTasks
      /\ is /\ ~was => <<c, i>> \notin HoldingTasks /\ HoldingTasks' = HoldingTasks \cup {<<c, i>>}
      /\ was /\ ~is => <<c, i>> \in HoldingTasks /\ HoldingTasks' = HoldingTasks \ {<<c, i>>}
  BY <1>1, <1>2, <1>4, <1>6
<1> QED
  BY <1>7 DEF was, is

(* Begin and TakePermit.                                                   *)
LEMMA StartsConserve ==
  ASSUME ShapeInv, PermitsConserved, NEW c \in Calls, Begin(c) \/ TakePermit(c)
  PROVE  PermitsConserved'
<1>0. ConnectorTypes /\ CallShape(c) /\ permits \in Nat
  BY DEF ShapeInv, CallsShaped, ConnectorTypes
<1>1. req' = req /\ seen' = seen
  BY DEF Begin, TakePermit
<1>2. item' = item \/ \E P : \E s \in ItemStates : Set(c, P, s)
  BY <1>0, Submission DEF Begin, TakePermit, ItemStates
<1>3. \A d \in Calls : d # c => pc'[d] = pc[d] /\ item'[d] = item[d] /\ seen'[d] = seen[d]
  <2>1. \A d \in Calls : d # c => pc'[d] = pc[d]
    BY <1>0 DEF Begin, TakePermit, ConnectorTypes
  <2>2. \A d \in Calls : d # c => item'[d] = item[d]
    BY <1>0, <1>2, SetEffect
  <2> QED
    BY <1>1, <2>1, <2>2
<1>4. CASE Begin(c)
  <2>1. permits' = permits /\ pc[c] = "new" /\ pc'[c] = (IF Whole(c) THEN "sem" ELSE "run")
    BY <1>0, <1>4 DEF Begin, ConnectorTypes
  <2>2. HoldingCalls' = HoldingCalls
    BY <1>1, <1>3, <2>1, HoldersByCall
  <2>3. HoldingTasks' = HoldingTasks
    <3>1. CASE req[c].kind # "non_blocking"
      BY <1>1, <1>3, <3>1, HoldersByCall
    <3>2. CASE req[c].kind = "non_blocking"
      <4>1. Set(c, Items(c), "ready")
        BY <1>4, <3>2 DEF Begin
      <4>2. \A i \in Places : item[c][i] = "none" /\ item'[c][i] \in {"none", "ready"}
        BY <1>0, <2>1, <4>1, SetEffect DEF CallShape, ItemStates
      <4> QED
        BY <1>1, <1>3, <4>2 DEF HoldingTasks
    <3> QED
      BY <3>1, <3>2
  <2> QED
    BY <1>0, <2>1, <2>2, <2>3, PermitsMove
<1>5. CASE TakePermit(c)
  <2>1. permits' = permits - 1 /\ Whole(c) /\ pc[c] = "sem" /\ pc'[c] = "run"
    BY <1>0, <1>5 DEF TakePermit, CallShape, ConnectorTypes
  <2>2. req[c].kind # "non_blocking"
    BY <2>1 DEF Whole
  <2>3. /\ c \notin HoldingCalls /\ HoldingCalls' = HoldingCalls \cup {c}
        /\ HoldingTasks' = HoldingTasks
    BY <1>1, <1>3, <2>1, <2>2, HoldersByCall
  <2> QED
    BY <1>0, <2>1, <2>3, PermitsMove
<1> QED
  BY <1>4, <1>5

(* SubmitItem, StartItem and EndItem.                                      *)
LEMMA ItemStepsConserve ==
  ASSUME ShapeInv, PermitsConserved, NEW c \in Calls, NEW i \in Places,
         SubmitItem(c, i) \/ StartItem(c, i) \/ EndItem(c, i)
  PROVE  PermitsConserved'
<1>0. ConnectorTypes /\ CallShape(c) /\ permits \in Nat
  BY DEF ShapeInv, CallsShaped, ConnectorTypes
<1>1. req' = req /\ seen' = seen /\ pc' = pc
  BY DEF SubmitItem, StartItem, EndItem
<1>2. PICK s \in ItemStates \ {"none", "ready"} : Set(c, {i}, s)
  BY <1>0, Submission DEF SubmitItem, StartItem, EndItem, ItemStates
<1>3. /\ \A d \in Calls : d # c => item'[d] = item[d]
      /\ \A j \in Places : j # i => item'[c][j] = item[c][j]
      /\ item'[c][i] = s
  BY <1>0, <1>2, SetEffect
<1>4. HoldingCalls' = HoldingCalls
  BY <1>1, <1>3, HoldersByCall
<1>5. i \notin seen[c]
  BY <1>0 DEF CallShape, Finished, SubmitItem, StartItem, EndItem
<1>6. CASE req[c].kind # "non_blocking"
  <2>1. HoldingTasks' = HoldingTasks
    BY <1>1, <1>3, <1>6, HoldersByCall
  <2>2. permits' = permits
    BY <1>0, <1>6 DEF SubmitItem, StartItem, EndItem, CallShape, Put
  <2> QED
    BY <1>0, <1>4, <2>1, <2>2, PermitsMove
<1>7. CASE req[c].kind = "non_blocking"
  <2>1. CASE SubmitItem(c, i)
    <3>1. permits' = permits - 1 /\ item[c][i] = "ready"
      BY <1>7, <2>1 DEF SubmitItem, Put
    <3>2. /\ <<c, i>> \notin HoldingTasks /\ HoldingTasks' = HoldingTasks \cup {<<c, i>>}
      BY <1>0, <1>1, <1>3, <1>5, <1>7, <3>1, HoldersByTask
    <3> QED
      BY <1>0, <1>4, <3>1, <3>2, PermitsMove
  <2>2. CASE StartItem(c, i) \/ EndItem(c, i)
    <3>1. permits' = permits /\ item[c][i] \notin {"none", "ready"}
      BY <2>2 DEF StartItem, EndItem
    <3>2. HoldingTasks' = HoldingTasks
      BY <1>0, <1>1, <1>3, <1>5, <1>7, <3>1, HoldersByTask
    <3> QED
      BY <1>0, <1>4, <3>1, <3>2, PermitsMove
  <2> QED
    BY <2>1, <2>2
<1> QED
  BY <1>6, <1>7

(* ResumeGet, ResumePut and ResumeNonBlocking.                             *)
LEMMA ResumesConserve ==
  ASSUME ShapeInv, PermitsConserved, NEW c \in Calls, NEW i \in Places,
         ResumeGet(c, i) \/ ResumePut(c, i) \/ ResumeNonBlocking(c, i)
  PROVE  PermitsConserved'
<1>0. ConnectorTypes /\ CallShape(c) /\ permits \in Nat
  BY DEF ShapeInv, CallsShaped, ConnectorTypes
<1>1. /\ req' = req /\ seen' = [seen EXCEPT ![c] = @ \cup {i}] /\ pc[c] = "run"
      /\ Finished(c, i) /\ i \notin seen[c]
  BY DEF ResumeGet, ResumePut, ResumeNonBlocking
<1>2. \/ pc' = pc
      \/ pc' = [pc EXCEPT ![c] = "ended"]
  BY <1>0, ResumeCases DEF End
<1>3. item' = item \/ Set(c, {i + 1}, Submitted)
  BY ResumeCases
<1>4. /\ \A d \in Calls : d # c => pc'[d] = pc[d] /\ item'[d] = item[d] /\ seen'[d] = seen[d]
      /\ pc'[c] \in {"run", "ended"} /\ seen'[c] = seen[c] \cup {i}
  <2>1. \A d \in Calls : d # c => item'[d] = item[d]
    BY <1>0, <1>3, SetEffect, Submission
  <2> QED
    BY <1>0, <1>1, <1>2, <2>1 DEF ConnectorTypes
<1>5. CASE ResumeNonBlocking(c, i)
  <2>1. permits' = permits + 1 /\ item' = item /\ req[c].kind = "non_blocking"
    BY <1>5 DEF ResumeNonBlocking
  <2>2. ~Whole(c)
    BY <2>1 DEF Whole
  <2>3. HoldingCalls' = HoldingCalls
    BY <1>1, <1>4, <2>2, HoldersByCall
  <2>4. item[c][i] \notin {"none", "ready"}
    BY <1>1 DEF Finished
  <2>5. <<c, i>> \in HoldingTasks /\ HoldingTasks' = HoldingTasks \ {<<c, i>>}
    BY <1>0, <1>1, <1>4, <2>1, <2>4, HoldersByTask
  <2> QED
    BY <1>0, <2>1, <2>3, <2>5, PermitsMove
<1>6. CASE ResumeGet(c, i) \/ ResumePut(c, i)
  <2>1. req[c].kind # "non_blocking"
    BY <1>6 DEF ResumeGet, ResumePut, Put
  <2>2. HoldingTasks' = HoldingTasks
    BY <1>1, <1>4, <2>1, HoldersByCall
  <2>3. \/ pc' = pc /\ permits' = permits
        \/ /\ pc' = [pc EXCEPT ![c] = "ended"]
           /\ permits' = IF Whole(c) THEN permits + 1 ELSE permits
    BY <1>1, <1>6 DEF ResumeGet, ResumePut, End, PermitsAfter
  <2>4. CASE pc' = pc /\ permits' = permits
    <3>1. HoldingCalls' = HoldingCalls
      BY <1>1, <1>4, <2>4, HoldersByCall
    <3> QED
      BY <1>0, <2>2, <2>4, <3>1, PermitsMove
  <2>5. CASE /\ pc' = [pc EXCEPT ![c] = "ended"]
             /\ permits' = IF Whole(c) THEN permits + 1 ELSE permits
    <3>1. pc'[c] = "ended"
      BY <1>0, <2>5 DEF ConnectorTypes
    <3>2. IF Whole(c) THEN c \in HoldingCalls /\ HoldingCalls' = HoldingCalls \ {c}
                      ELSE HoldingCalls' = HoldingCalls
      BY <1>1, <1>4, <3>1, HoldersByCall
    <3> QED
      BY <1>0, <2>2, <2>5, <3>2, PermitsMove
  <2> QED
    BY <2>3, <2>4, <2>5
<1> QED
  BY <1>5, <1>6

(* Cancel: only reads are given up, and batched_get gives its permit back. *)
LEMMA CancelConserves ==
  ASSUME ShapeInv, PermitsConserved, NEW c \in Calls, Cancel(c)
  PROVE  PermitsConserved'
<1>0. ConnectorTypes /\ permits \in Nat
  BY DEF ShapeInv, ConnectorTypes
<1>1. /\ req' = req /\ seen' = seen /\ pc' = [pc EXCEPT ![c] = "ended"]
      /\ permits' = (IF Whole(c) /\ pc[c] = "run" THEN permits + 1 ELSE permits)
      /\ Set(c, {i \in Items(c) : item[c][i] = "queued"}, "lost")
  BY DEF Cancel, End, PermitsAfter
<1>2. req[c].kind # "non_blocking"
  BY CancellableAssumption DEF Cancel
<1>3. /\ \A d \in Calls : d # c => pc'[d] = pc[d] /\ item'[d] = item[d] /\ seen'[d] = seen[d]
      /\ pc'[c] = "ended"
  BY <1>0, <1>1, SetEffect DEF ItemStates, ConnectorTypes
<1>4. /\ IF Whole(c) /\ pc[c] = "run"
         THEN c \in HoldingCalls /\ HoldingCalls' = HoldingCalls \ {c}
         ELSE HoldingCalls' = HoldingCalls
      /\ HoldingTasks' = HoldingTasks
  BY <1>1, <1>2, <1>3, HoldersByCall
<1> QED
  BY <1>0, <1>1, <1>4, PermitsMove

-----------------------------------------------------------------------------
ConnectorInv == ShapeInv /\ ObjectsAccounted /\ PermitsConserved

(* Initially all permits are free and no call has returned.                *)
LEMMA ConnectorInvInit == Init => ConnectorInv
<1> SUFFICES ASSUME Init PROVE ConnectorInv
  OBVIOUS
<1>1. ShapeInv
  BY ConnectorInit DEF ShapeInv
<1>2. ObjectsAccounted
  BY DEF Init, ObjectsAccounted
<1>3. HoldingCalls = {} /\ HoldingTasks = {}
  BY DEF Init, HoldingCalls, HoldingTasks
<1>4. Cardinality(HoldingCalls) = 0 /\ Cardinality(HoldingTasks) = 0
  BY <1>3, FS_EmptySet
<1>5. permits = MaxInFlight - Cardinality(HoldingCalls) - Cardinality(HoldingTasks)
  BY <1>4, LimitsAssumption DEF Init
<1> QED
  BY <1>1, <1>2, <1>5 DEF ConnectorInv, PermitsConserved, HoldingCalls, HoldingTasks

(* Every step preserves the connector's invariant.                         *)
LEMMA ConnectorInvNext == ConnectorInv /\ [Next]_vars => ConnectorInv'
<1> SUFFICES ASSUME ConnectorInv, [Next]_vars PROVE ConnectorInv'
  OBVIOUS
<1>0. ShapeInv /\ ObjectsAccounted /\ PermitsConserved
  BY DEF ConnectorInv
<1>1. ShapeInv'
  BY <1>0, ShapeNext
<1>2. ObjectsAccounted'
  BY <1>0, AccountsNext
<1>3. PermitsConserved'
  <2>1. ASSUME BeginClose \/ EndClose \/ UNCHANGED vars PROVE PermitsConserved'
    BY <1>0, <2>1 DEF BeginClose, EndClose, vars, PermitsConserved, Whole
  <2> QED
    BY <1>0, <2>1, StartsConserve, ItemStepsConserve, ResumesConserve, CancelConserves
       DEF Next, LoopStep, ThreadStep
<1> QED
  BY <1>1, <1>2, <1>3 DEF ConnectorInv

(* Every permit of _batch_sem is free or held by exactly one call or       *)
(* _sem_get under way: no exception, timeout or close loses one            *)
(* (batched_get, batched_put, batched_get_non_blocking).                   *)
THEOREM PermitsAreConserved == Spec => []PermitsConserved
<1>1. ConnectorInv => PermitsConserved
  BY DEF ConnectorInv
<1> QED
  BY <1>1, ConnectorInvInit, ConnectorInvNext, PTL DEF Spec

(* Every object fetched for a read that returns is handed to the caller or *)
(* released, and batched_get_non_blocking hands out a run of hits from the *)
(* first key on, whatever else is in flight.                               *)
THEOREM ObjectsAreAccounted == Spec => []ObjectsAccounted
<1>1. ConnectorInv => ObjectsAccounted
  BY DEF ConnectorInv
<1> QED
  BY <1>1, ConnectorInvInit, ConnectorInvNext, PTL DEF Spec

(* When a put returns normally no thread reads its memory objects and none *)
(* will (put, batched_put).                                                *)
THEOREM PutsAreSettled == Spec => []PutsSettled
<1>1. ConnectorInv => PutsSettled
  BY DEF ConnectorInv, ShapeInv, CallsShaped, CallShape, PutsSettled, Reads, Finished
<1> QED
  BY <1>1, ConnectorInvInit, ConnectorInvNext, PTL DEF Spec
=============================================================================
