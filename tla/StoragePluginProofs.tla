------------------------ MODULE StoragePluginProofs ------------------------
(***************************************************************************)
(* What _put_tasks and close() guarantee for any number of submissions,    *)
(* of any lists of keys, on a pool of any size.                            *)
(*                                                                         *)
(* The three properties become inductive once the walk is pinned down      *)
(* (WalkInv): the position is a legal one, and it is still the first until *)
(* a thread has taken the list.                                            *)
(***************************************************************************)
EXTENDS StoragePlugin, TLAPS

Walked == {"put", "putted", "done", "raised"}

Pcs == {"new", "wrapped", "entered", "marked", "queued", "refused"} \cup Walked

WalkInv ==
    /\ keys \in [Lists -> KeyLists]
    /\ pc \in [Lists -> Pcs]
    /\ wrapped \in [Lists -> BOOLEAN]
    /\ at \in [Lists -> Nat]
    /\ failed \in [Lists -> BOOLEAN]
    /\ stage \in {"open", "closing", "closed"}
    /\ \A l \in Lists : /\ at[l] \in 1 .. Len(keys[l])
                        /\ pc[l] \notin Walked => at[l] = 1

PluginInv == WalkInv /\ PendingIsVisible /\ NoGhostPending /\ NoPutAfterRelease

-----------------------------------------------------------------------------
(* A list has a first key, and its keys are what KeySet collects.          *)
LEMMA ListShape ==
  ASSUME NEW l \in Lists, keys \in [Lists -> KeyLists]
  PROVE  /\ Len(keys[l]) \in Nat \ {0}
         /\ DOMAIN keys[l] = 1 .. Len(keys[l])
         /\ KeySet(l) = {keys[l][i] : i \in 1 .. Len(keys[l])}
<1>1. keys[l] \in Seq(Keys) /\ keys[l] # <<>>
  BY KeyListsAssumption
<1>2. Len(keys[l]) \in Nat /\ DOMAIN keys[l] = 1 .. Len(keys[l])
  BY <1>1
<1>3. Len(keys[l]) # 0
  BY <1>1
<1> QED
  BY <1>2, <1>3 DEF KeySet

(* Pending and Cleared at each point of a list's walk.                     *)
LEMMA PendingAt ==
  ASSUME NEW l \in Lists
  PROVE  /\ pc[l] \in {"marked", "queued", "put"} =>
               Pending(l) = {keys[l][i] : i \in at[l] .. Len(keys[l])}
         /\ pc[l] = "putted" => Pending(l) = {keys[l][i] : i \in at[l] + 1 .. Len(keys[l])}
         /\ pc[l] \notin {"marked", "queued", "put", "putted"} => Pending(l) = {}
         /\ pc[l] \in {"put", "putted"} => Cleared(l) = {keys[l][i] : i \in 1 .. at[l] - 1}
         /\ pc[l] \in {"done", "raised"} => Cleared(l) = {keys[l][i] : i \in 1 .. at[l]}
         /\ pc[l] \notin Walked => Cleared(l) = {}
  BY DEF Pending, Cleared, Walked

(* The same of the state after a step.                                     *)
LEMMA PendingAtNext ==
  ASSUME NEW l \in Lists
  PROVE  /\ pc'[l] \in {"marked", "queued", "put"} =>
               Pending(l)' = {keys'[l][i] : i \in at'[l] .. Len(keys'[l])}
         /\ pc'[l] = "putted" => Pending(l)' = {keys'[l][i] : i \in at'[l] + 1 .. Len(keys'[l])}
         /\ pc'[l] \notin {"marked", "queued", "put", "putted"} => Pending(l)' = {}
         /\ pc'[l] \in {"put", "putted"} => Cleared(l)' = {keys'[l][i] : i \in 1 .. at'[l] - 1}
         /\ pc'[l] \in {"done", "raised"} => Cleared(l)' = {keys'[l][i] : i \in 1 .. at'[l]}
         /\ pc'[l] \notin Walked => Cleared(l)' = {}
  BY DEF Pending, Cleared, Walked

-----------------------------------------------------------------------------
(* Initially no list is submitted and nothing is pending.                  *)
LEMMA PluginInit == Init => PluginInv
<1> SUFFICES ASSUME Init PROVE PluginInv
  OBVIOUS
<1>1. WalkInv
  BY ListShape, SMT DEF Init, WalkInv, Pcs, Walked
<1>2. PendingIsVisible
  BY PendingAt DEF Init, PendingIsVisible
<1>3. NoGhostPending /\ NoPutAfterRelease
  BY DEF Init, NoGhostPending, NoPutAfterRelease
<1> QED
  BY <1>1, <1>2, <1>3 DEF PluginInv

(* No step leaves the walk.                                                *)
LEMMA WalkNext == WalkInv /\ [Next]_vars => WalkInv'
<1> SUFFICES ASSUME WalkInv, [Next]_vars PROVE WalkInv'
  OBVIOUS
<1> USE DEF Pcs, Walked
<1>1. ASSUME NEW l \in Lists, Discard(l) PROVE WalkInv'
  <2>1. Len(keys[l]) \in Nat /\ at[l] \in Nat /\ 1 <= at[l]
    BY ListShape, SMT DEF WalkInv
  <2>2. CASE at' = at
    BY <1>1, <2>2 DEF Discard, GoTo, WalkInv
  <2>3. CASE /\ at[l] < Len(keys[l]) /\ GoTo(l, "put")
             /\ at' = [at EXCEPT ![l] = @ + 1]
    <3>1. at[l] + 1 \in Nat /\ at[l] + 1 \in 1 .. Len(keys[l])
      BY <2>1, <2>3, SMT
    <3> QED
      BY <1>1, <2>3, <3>1 DEF Discard, GoTo, WalkInv
  <2> QED
    BY <1>1, <2>2, <2>3 DEF Discard
<1>2. ASSUME NEW l \in Lists,
             \/ SubmitWrapped(l) \/ EnterWrapped(l) \/ Mark(l) \/ Submit(l)
             \/ StartList(l) \/ EndPut(l)
      PROVE  WalkInv'
  <2>1. CASE SubmitWrapped(l)
    BY <2>1 DEF SubmitWrapped, GoTo, WalkInv
  <2>2. CASE EnterWrapped(l)
    BY <2>2 DEF EnterWrapped, GoTo, WalkInv
  <2>3. CASE Mark(l)
    BY <2>3 DEF Mark, GoTo, WalkInv
  <2>4. CASE Submit(l)
    BY <2>4 DEF Submit, GoTo, WalkInv
  <2>5. CASE StartList(l)
    BY <2>5 DEF StartList, GoTo, WalkInv
  <2>6. CASE EndPut(l)
    BY <2>6 DEF EndPut, GoTo, WalkInv
  <2> QED
    BY <1>2, <2>1, <2>2, <2>3, <2>4, <2>5, <2>6
<1>3. ASSUME BeginClose \/ EndClose \/ UNCHANGED vars PROVE WalkInv'
  BY <1>3 DEF BeginClose, EndClose, vars, WalkInv
<1> QED
  BY <1>1, <1>2, <1>3 DEF Next, ExecutorStep

(* What a step does to the walks and to the set: the keys that become      *)
(* pending are in the set, none stops being cleared, and a key leaves the  *)
(* set only by being cleared.                                              *)
LEMMA StepOfTheSet ==
  ASSUME WalkInv, WalkInv', [Next]_vars
  PROVE  /\ \A l \in Lists : Pending(l)' \subseteq Pending(l) \cup put_tasks'
         /\ \A l \in Lists : Cleared(l) \subseteq Cleared(l)'
         /\ \A k \in put_tasks : k \in put_tasks' \/ \E l \in Lists : k \in Cleared(l)'
<1> DEFINE Goal ==
      /\ \A l \in Lists : Pending(l)' \subseteq Pending(l) \cup put_tasks'
      /\ \A l \in Lists : Cleared(l) \subseteq Cleared(l)'
      /\ \A k \in put_tasks : k \in put_tasks' \/ \E l \in Lists : k \in Cleared(l)'
<1>0. \A l \in Lists : /\ at[l] \in Nat /\ 1 <= at[l] /\ Len(keys[l]) \in Nat
                       /\ pc[l] \notin Walked => at[l] = 1
  BY ListShape, SMT DEF WalkInv
<1>1. keys' = keys
  BY DEF Next, ExecutorStep, SubmitWrapped, EnterWrapped, Mark, Submit, StartList, EndPut,
         Discard, BeginClose, EndClose, vars
<1>2. ASSUME NEW l \in Lists, NEW m \in Lists, m # l, at'[m] = at[m], pc'[m] = pc[m]
      PROVE  Pending(m)' = Pending(m) /\ Cleared(m)' = Cleared(m)
  BY <1>1, <1>2 DEF Pending, Cleared
<1>3. ASSUME NEW l \in Lists, Discard(l) PROVE Goal
  <2>1. /\ pc[l] = "putted" /\ put_tasks' = put_tasks \ {keys[l][at[l]]}
        /\ \A m \in Lists : m # l => at'[m] = at[m] /\ pc'[m] = pc[m]
    BY <1>3 DEF Discard, Discarded, GoTo, WalkInv
  <2>2. \/ pc'[l] \in {"done", "raised"} /\ at'[l] = at[l]
        \/ pc'[l] = "put" /\ at'[l] = at[l] + 1
    BY <1>3 DEF Discard, GoTo, WalkInv
  <2>3. /\ Pending(l) = {keys[l][i] : i \in at[l] + 1 .. Len(keys[l])}
        /\ Cleared(l) = {keys[l][i] : i \in 1 .. at[l] - 1}
    BY <2>1, PendingAt
  <2>4. Cleared(l)' = {keys[l][i] : i \in 1 .. at[l]}
    <3>1. (at[l] + 1) - 1 = at[l]
      BY <1>0
    <3> QED
      BY <1>1, <2>2, <3>1, PendingAtNext
  <2>5. Pending(l)' \subseteq Pending(l)
    BY <1>1, <2>2, <2>3, PendingAtNext
  <2>6. Cleared(l) \subseteq Cleared(l)' /\ keys[l][at[l]] \in Cleared(l)'
    <3>1. 1 .. at[l] - 1 \subseteq 1 .. at[l] /\ at[l] \in 1 .. at[l]
      BY <1>0, SMT
    <3> QED
      BY <2>3, <2>4, <3>1
  <2> QED
    BY <1>2, <2>1, <2>5, <2>6
<1>4. ASSUME NEW l \in Lists, Mark(l) PROVE Goal
  <2>1. /\ pc[l] \notin Walked /\ pc'[l] = "marked" /\ at' = at /\ at[l] = 1
        /\ put_tasks' = put_tasks \cup KeySet(l)
        /\ \A m \in Lists : m # l => pc'[m] = pc[m]
    BY <1>0, <1>4 DEF Mark, GoTo, WalkInv, Walked
  <2>2. Pending(l)' \subseteq put_tasks'
    <3>1. Pending(l)' = {keys[l][i] : i \in 1 .. Len(keys[l])}
      BY <1>1, <2>1, PendingAtNext
    <3> QED
      BY <2>1, <3>1, ListShape DEF WalkInv
  <2>3. Cleared(l) = {}
    BY <2>1, PendingAt
  <2> QED
    BY <1>2, <2>1, <2>2, <2>3
<1>5. ASSUME NEW l \in Lists,
             \/ SubmitWrapped(l) \/ EnterWrapped(l) \/ Submit(l) \/ StartList(l) \/ EndPut(l)
      PROVE  Goal
  <2>1. /\ put_tasks' = put_tasks /\ at' = at
        /\ \A m \in Lists : m # l => pc'[m] = pc[m]
    BY <1>5 DEF SubmitWrapped, EnterWrapped, Submit, StartList, EndPut, GoTo, WalkInv
  <2>2. CASE SubmitWrapped(l) \/ EnterWrapped(l)
    <3>1. pc[l] \notin Walked /\ pc'[l] \notin {"marked", "queued", "put", "putted"}
      BY <2>2 DEF SubmitWrapped, EnterWrapped, GoTo, WalkInv, Walked
    <3>2. Pending(l)' = {} /\ Cleared(l) = {}
      BY <3>1, PendingAt, PendingAtNext
    <3> QED
      BY <1>2, <2>1, <3>2
  <2>3. CASE Submit(l) \/ StartList(l)
    <3>1. /\ pc[l] \in {"marked", "queued"} /\ pc[l] \notin Walked
          /\ pc'[l] \in {"queued", "refused", "put"}
      BY <2>3 DEF Submit, StartList, GoTo, WalkInv, Walked
    <3>2. /\ Pending(l) = {keys[l][i] : i \in at[l] .. Len(keys[l])} /\ Cleared(l) = {}
          /\ Pending(l)' \subseteq {keys[l][i] : i \in at[l] .. Len(keys[l])}
      BY <1>1, <2>1, <3>1, PendingAt, PendingAtNext
    <3> QED
      BY <1>2, <2>1, <3>2
  <2>4. CASE EndPut(l)
    <3>1. pc[l] = "put" /\ pc'[l] = "putted"
      BY <2>4 DEF EndPut, GoTo, WalkInv
    <3>2. /\ Pending(l) = {keys[l][i] : i \in at[l] .. Len(keys[l])}
          /\ Pending(l)' = {keys[l][i] : i \in at[l] + 1 .. Len(keys[l])}
      BY <1>1, <2>1, <3>1, PendingAt, PendingAtNext
    <3>3. /\ Cleared(l) = {keys[l][i] : i \in 1 .. at[l] - 1}
          /\ Cleared(l)' = {keys[l][i] : i \in 1 .. at[l] - 1}
      BY <1>1, <2>1, <3>1, PendingAt, PendingAtNext
    <3>4. at[l] + 1 .. Len(keys[l]) \subseteq at[l] .. Len(keys[l])
      BY <1>0, SMT
    <3> QED
      BY <1>2, <2>1, <3>2, <3>3, <3>4
  <2> QED
    BY <1>5, <2>2, <2>3, <2>4
<1>6. ASSUME BeginClose \/ EndClose \/ UNCHANGED vars PROVE Goal
  BY <1>1, <1>6 DEF BeginClose, EndClose, vars, Pending, Cleared
<1> QED
  BY <1>3, <1>4, <1>5, <1>6 DEF Next, ExecutorStep

(* A key in _put_tasks keeps a list that accounts for it.                  *)
LEMMA GhostNext ==
  ASSUME WalkInv, WalkInv', NoGhostPending, [Next]_vars
  PROVE  NoGhostPending'
<1> DEFINE Accounts(l, k) ==
      \/ pc[l] \in {"marked", "queued", "put", "putted"}
         /\ \E i \in at[l] .. Len(keys[l]) : keys[l][i] = k
      \/ pc[l] = "raised" /\ \E i \in at[l] + 1 .. Len(keys[l]) : keys[l][i] = k
      \/ pc[l] = "refused" /\ k \in KeySet(l)
<1>0. \A l \in Lists : /\ at[l] \in Nat /\ 1 <= at[l] /\ Len(keys[l]) \in Nat
                       /\ pc[l] \notin Walked => at[l] = 1
                       /\ KeySet(l) = {keys[l][i] : i \in 1 .. Len(keys[l])}
  BY ListShape, SMT DEF WalkInv
<1>1. keys' = keys
  BY DEF Next, ExecutorStep, SubmitWrapped, EnterWrapped, Mark, Submit, StartList, EndPut,
         Discard, BeginClose, EndClose, vars
<1> SUFFICES ASSUME NEW k \in put_tasks' PROVE \E l \in Lists : Accounts(l, k)'
  BY DEF NoGhostPending
<1>2. ASSUME NEW m \in Lists, at'[m] = at[m], pc'[m] = pc[m], Accounts(m, k)
      PROVE  Accounts(m, k)'
  BY <1>1, <1>2 DEF KeySet
<1>3. k \in put_tasks => \E m \in Lists : Accounts(m, k)
  BY DEF NoGhostPending
<1>4. ASSUME NEW l \in Lists, Mark(l) PROVE \E m \in Lists : Accounts(m, k)'
  <2>1. /\ pc[l] \in {"new", "entered"} /\ pc'[l] = "marked" /\ at' = at /\ at[l] = 1
        /\ put_tasks' = put_tasks \cup KeySet(l)
        /\ \A m \in Lists : m # l => pc'[m] = pc[m]
    BY <1>0, <1>4 DEF Mark, GoTo, WalkInv, Walked
  <2>2. CASE k \in KeySet(l)
    BY <1>0, <1>1, <2>1, <2>2
  <2>3. CASE k \in put_tasks
    <3> PICK m \in Lists : Accounts(m, k)
      BY <1>3, <2>3
    <3> QED
      BY <1>2, <2>1
  <2> QED
    BY <2>1, <2>2, <2>3
<1>5. ASSUME NEW l \in Lists, Discard(l) PROVE \E m \in Lists : Accounts(m, k)'
  <2>1. /\ pc[l] = "putted" /\ k \in put_tasks /\ k # keys[l][at[l]]
        /\ \A m \in Lists : m # l => at'[m] = at[m] /\ pc'[m] = pc[m]
    BY <1>5 DEF Discard, Discarded, GoTo, WalkInv
  <2> PICK m \in Lists : Accounts(m, k)
    BY <1>3, <2>1
  <2>2. CASE m # l
    BY <1>2, <2>1, <2>2
  <2>3. CASE m = l
    <3> PICK i \in at[l] .. Len(keys[l]) : keys[l][i] = k
      BY <2>1, <2>3
    <3>1. i # at[l]
      BY <2>1
    <3>2. i \in at[l] + 1 .. Len(keys[l]) /\ at[l] # Len(keys[l])
      BY <1>0, <3>1, SMT
    <3>3. \/ pc'[l] = "raised" /\ at'[l] = at[l]
          \/ pc'[l] = "put" /\ at'[l] = at[l] + 1
      BY <1>5, <3>2 DEF Discard, GoTo, WalkInv
    <3> QED
      BY <1>1, <3>2, <3>3
  <2> QED
    BY <2>2, <2>3
<1>6. ASSUME NEW l \in Lists,
             \/ SubmitWrapped(l) \/ EnterWrapped(l) \/ Submit(l) \/ StartList(l) \/ EndPut(l)
      PROVE  \E m \in Lists : Accounts(m, k)'
  <2>1. /\ put_tasks' = put_tasks /\ at' = at
        /\ \A m \in Lists : m # l => pc'[m] = pc[m]
    BY <1>6 DEF SubmitWrapped, EnterWrapped, Submit, StartList, EndPut, GoTo, WalkInv
  <2>2. \/ pc[l] \in {"new", "wrapped"}
        \/ pc[l] = "marked" /\ pc'[l] \in {"queued", "refused"}
        \/ pc[l] \in {"queued", "put"} /\ pc'[l] \in {"put", "putted"}
    BY <1>6 DEF SubmitWrapped, EnterWrapped, Submit, StartList, EndPut, GoTo, WalkInv
  <2> PICK m \in Lists : Accounts(m, k)
    BY <1>3, <2>1
  <2>3. CASE m # l
    BY <1>2, <2>1, <2>3
  <2>4. CASE m = l
    <3>1. \E i \in at[l] .. Len(keys[l]) : keys[l][i] = k
      BY <2>2, <2>4
    <3>2. KeySet(l)' = KeySet(l)
      BY <1>1 DEF KeySet
    <3>3. pc[l] = "marked" => k \in KeySet(l)
      BY <1>0, <3>1 DEF Walked
    <3> QED
      BY <1>1, <2>1, <2>2, <2>4, <3>1, <3>2, <3>3
  <2> QED
    BY <2>3, <2>4
<1>7. ASSUME BeginClose \/ EndClose \/ UNCHANGED vars PROVE \E m \in Lists : Accounts(m, k)'
  BY <1>2, <1>3, <1>7 DEF BeginClose, EndClose, vars
<1> QED
  BY <1>4, <1>5, <1>6, <1>7 DEF Next, ExecutorStep

(* Once the client is released nothing gets back to the executor.          *)
LEMMA ReleaseNext ==
  ASSUME WalkInv, NoPutAfterRelease, [Next]_vars
  PROVE  NoPutAfterRelease'
<1>1. ASSUME NEW l \in Lists,
             \/ SubmitWrapped(l) \/ EnterWrapped(l) \/ Mark(l) \/ Submit(l)
             \/ StartList(l) \/ EndPut(l) \/ Discard(l)
      PROVE  NoPutAfterRelease'
  BY <1>1 DEF SubmitWrapped, EnterWrapped, Mark, Submit, StartList, EndPut, Discard, GoTo,
              WalkInv, NoPutAfterRelease
<1>2. ASSUME EndClose PROVE NoPutAfterRelease'
  BY <1>2 DEF EndClose, Drained, HoldsThread, NoPutAfterRelease
<1>3. ASSUME BeginClose \/ UNCHANGED vars PROVE NoPutAfterRelease'
  BY <1>3 DEF BeginClose, vars, NoPutAfterRelease
<1> QED
  BY <1>1, <1>2, <1>3 DEF Next, ExecutorStep

(* Every step preserves the plugin's invariant.                            *)
LEMMA PluginNext == PluginInv /\ [Next]_vars => PluginInv'
<1> SUFFICES ASSUME PluginInv, [Next]_vars PROVE PluginInv'
  OBVIOUS
<1>1. WalkInv /\ WalkInv'
  BY WalkNext DEF PluginInv
<1>2. PendingIsVisible'
  <2> SUFFICES ASSUME NEW l \in Lists, NEW k \in Pending(l)'
               PROVE  k \in put_tasks' \/ \E m \in Lists : k \in Cleared(m)'
    BY DEF PendingIsVisible
  <2>1. /\ k \in Pending(l) \/ k \in put_tasks'
        /\ \A m \in Lists : Cleared(m) \subseteq Cleared(m)'
        /\ k \in put_tasks => k \in put_tasks' \/ \E m \in Lists : k \in Cleared(m)'
    BY <1>1, StepOfTheSet
  <2>2. k \in Pending(l) => k \in put_tasks \/ \E m \in Lists : k \in Cleared(m)
    BY DEF PluginInv, PendingIsVisible
  <2> QED
    BY <2>1, <2>2
<1>3. NoGhostPending'
  BY <1>1, GhostNext DEF PluginInv
<1>4. NoPutAfterRelease'
  BY <1>1, ReleaseNext DEF PluginInv
<1> QED
  BY <1>1, <1>2, <1>3, <1>4 DEF PluginInv

-----------------------------------------------------------------------------
(* exists_in_put_tasks answers true of a key from its submission to the    *)
(* end of its put, unless another submission of the key has ended before   *)
(* (batched_submit_put_task, _put_all).                                    *)
THEOREM PendingStaysVisible == Spec => []PendingIsVisible
<1>1. PluginInv => PendingIsVisible
  BY DEF PluginInv
<1> QED
  BY <1>1, PluginInit, PluginNext, PTL DEF Spec

(* No key is pending without a cause: a list that will still discard it,   *)
(* one that raised before it, or one the executor refused (_put_all).      *)
THEOREM NoKeyIsPendingForNothing == Spec => []NoGhostPending
<1>1. PluginInv => NoGhostPending
  BY DEF PluginInv
<1> QED
  BY <1>1, PluginInit, PluginNext, PTL DEF Spec

(* After close() has released the client no put runs and none will, also   *)
(* for submissions that race with the shutdown (close).                    *)
THEOREM ReleaseIsLast == Spec => []NoPutAfterRelease
<1>1. PluginInv => NoPutAfterRelease
  BY DEF PluginInv
<1> QED
  BY <1>1, PluginInit, PluginNext, PTL DEF Spec
=============================================================================
