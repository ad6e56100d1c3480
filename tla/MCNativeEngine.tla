-------------------------- MODULE MCNativeEngine --------------------------
(* A Python worker and a native one on the records of two keys: payload d1 *)
(* of k1 has 4 bytes and is two segments of 2 for both, d2 of k2 has 3 and *)
(* is a single record.  Native reads come with buffers of 3 to 5 bytes.    *)
EXTENDS NativeEngine, MCAerospikeEngine

CONSTANTS k2

TwoKeys == {k1, k2}
SecondWorker == {w2}
ThreeToFive == 3 .. 5

ThreeAndFour == [d \in Payloads |-> IF d = d1 THEN 4 ELSE 3]
OnePayloadEach == [k \in Keys |-> IF k = k1 THEN {d1} ELSE {d2}]

(* A write block of 6 bytes and a margin of 2: max 4, target 3.            *)
Discovered == [max_record_size |-> 0, write_block_size |-> 6]
ThirdsForBoth == [w \in Workers |-> IF w \in Native THEN NativeLimits(0, 3, Discovered)
                                    ELSE Thirds]
=============================================================================
