-------------------------- MODULE MCBatchedEngine --------------------------
(* One worker with lists of three items in chunks of two, a second worker  *)
(* on the same records whose own puts are refused.  k1 holds a sharded     *)
(* payload of 3 bytes, k2 a single record of 1.                            *)
EXTENDS BatchedEngine, MCAerospikeEngine

CONSTANTS k2

TwoKeys == {k1, k2}
FirstWorker == {w1}
OneAndThree == [d \in Payloads |-> IF d = d1 THEN 3 ELSE 1]
OnePayloadEach == [k \in Keys |-> IF k = k1 THEN {d1} ELSE {d2}]
CallersBuffer == {"caller"}

Long == [key |-> k1, data |-> d1]
Short == [key |-> k2, data |-> d2]
SomeLists == {<<Short, Long, Short>>}
=============================================================================
