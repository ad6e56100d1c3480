------------------------- MODULE MCAerospikeEngine -------------------------
(***************************************************************************)
(* Small instances of AerospikeEngine.  Payloads have 3 bytes unless said  *)
(* otherwise; a target of 2 shards them in two segments, a target of 1 in  *)
(* three, and a limit of 4 leaves them in one record.                      *)
(***************************************************************************)
EXTENDS AerospikeEngine, TLC

CONSTANTS k1, w1, w2, d1, d2

OneKey == {k1}
TwoWorkers == {w1, w2}
OnePayload == {d1}
TwoPayloads == {d1, d2}

SameSize == [d \in Payloads |-> 3]
TwoSizes == [d \in Payloads |-> IF d = d1 THEN 3 ELSE 4]
AnyPayload == [k \in Keys |-> Payloads]

Pairs   == [target |-> 2, max |-> 4, min |-> 1, single |-> 1]
Triples == [target |-> 1, max |-> 4, min |-> 1, single |-> 1]
Thirds  == [target |-> 3, max |-> 4, min |-> 1, single |-> 1]
Refused == [target |-> 5, max |-> 4, min |-> 1, single |-> 4]

AllPairs       == [w \in Workers |-> Pairs]
PairsThirds    == [w \in Workers |-> IF w = w1 THEN Pairs ELSE Thirds]
PairsTriples   == [w \in Workers |-> IF w = w1 THEN Pairs ELSE Triples]
PairsRefused   == [w \in Workers |-> IF w = w1 THEN Pairs ELSE Refused]

NoWorkers == {}
AllWorkers == Workers
Minus1 == -1

AllOps == {"put", "get", "pin", "unpin", "remove"}
PutGet == {"put", "get"}
PutGetRemove == {"put", "get", "remove"}
PutPin == {"put", "pin"}
Unpinned == {FALSE}
Fresh == {"fresh"}
FreshOrCaller == {"fresh", "caller"}

WorkerSymmetry == Permutations(Workers)
=============================================================================
