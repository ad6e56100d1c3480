------------------------- MODULE BatchedEngineProofs ------------------------
(***************************************************************************)
(* The flags of the batched calls, for all constants: lists of any length, *)
(* chunks of any size, any number of workers.  The first invariant,        *)
(* BatchGood, is about the list in work alone; the second, BatchedInv,     *)
(* joins it to the invariants of the engine the calls run on.              *)
(***************************************************************************)
EXTENDS BatchedEngine, AerospikeEngineProofs, SequenceTheorems

Item == [key : Keys, data : Payloads]
Phases == Over \cup {"chunk", "loop", "put", "write", "read", "get"}
BatchRecord ==
    [kind : {"put", "get"}, items : Seq(Item), phase : Phases, offset : Nat, at : Nat,
     todo : SUBSET Nat, multi : SUBSET Nat, flags : Seq(BOOLEAN), done : SUBSET Nat,
     filled : Seq(Payloads \cup {NoData})]

(* The last item of the chunk of list b.                                   *)
EndOf(b) == Least(b.offset + ChunkKeys, Len(b.items))

(* The item in work and the number of flags, by phase.                     *)
Places(b) ==
    /\ b.phase \notin Over => b.offset < Len(b.items)
    /\ b.phase \in {"loop", "put", "write"} => b.kind = "put"
    /\ b.phase \in {"read", "get"} => b.kind = "get"
    /\ b.phase \in {"loop", "put"} =>
         /\ b.at \in b.offset + 1 .. EndOf(b) + 1 /\ Len(b.flags) = b.at - 1
         /\ b.phase = "put" => b.at <= EndOf(b)
    /\ b.kind = "put" /\ b.phase \in {"chunk", "write"} => Len(b.flags) = b.offset
    /\ b.kind = "put" /\ b.phase = "returned" => Len(b.flags) = Len(b.items)
    /\ b.phase \in {"write", "read", "get"} => b.todo \subseteq b.offset + 1 .. EndOf(b)
    /\ b.multi \subseteq 1 .. Len(b.items)
    /\ b.phase = "get" => b.at \in 1 .. Len(b.items)
    /\ Len(b.filled) = Len(b.items)
    /\ b.kind = "get" => Len(b.flags) = Len(b.items)

(* The flags listed so far say what was acknowledged, and nothing else     *)
(* was except in the batch that is under way.                              *)
FlagsSay(b) ==
    b.kind = "put" =>
        /\ \A i \in 1 .. Len(b.flags) : b.flags[i] <=> i \in b.done
        /\ b.phase \in {"chunk", "loop", "put"} => b.done \subseteq 1 .. Len(b.flags)
        /\ b.phase = "write" => b.done \subseteq 1 .. EndOf(b)

(* What a batch_write sends are single records.                            *)
WritesSingle(w, b) ==
    b.phase = "write" =>
        \A i \in b.offset + 1 .. EndOf(b) :
            LayoutOf(w, b.items[i].data) # ConfigError /\ LayoutOf(w, b.items[i].data).nseg = 1

BatchGood(w, b) == b \in BatchRecord /\ Places(b) /\ FlagsSay(b) /\ WritesSingle(w, b)

ListsInv == batch \in [Batchers -> BatchRecord] /\ \A w \in Batchers : BatchGood(w, batch[w])
(* Arithmetic of the chunks.                                               *)
LEMMA ChunkEnds ==
    ASSUME NEW b \in BatchRecord
    PROVE  /\ b.offset \in Nat /\ Len(b.items) \in Nat /\ EndOf(b) \in Nat
           /\ EndOf(b) <= Len(b.items)
           /\ b.offset < Len(b.items) => b.offset < EndOf(b)
<1>1. b.offset \in Nat /\ b.items \in Seq(Item)
  BY DEF BatchRecord
<1>2. Len(b.items) \in Nat /\ ChunkKeys \in Nat /\ ChunkKeys > 0
  BY <1>1, BatchesAssumption
<1> QED
  BY <1>1, <1>2 DEF EndOf, Least

(* A new list.                                                             *)
LEMMA NewList ==
    ASSUME NEW w \in Batchers, NEW kind \in {"put", "get"}, NEW items \in Seq(Item),
           NEW phase \in {"chunk", "none"}, phase = "chunk" => items # <<>>
    PROVE  BatchGood(w, Batch(kind, items, phase))
<1> DEFINE b == Batch(kind, items, phase)
<1>1. /\ Len(items) \in Nat /\ DOMAIN items = 1 .. Len(items)
      /\ phase = "chunk" => 0 < Len(items)
  BY EmptySeq
<1>2. /\ b.kind = kind /\ b.items = items /\ b.phase = phase /\ b.offset = 0 /\ b.at = 1
      /\ b.todo = {} /\ b.multi = {} /\ b.done = {}
      /\ b.flags = (IF kind = "put" THEN <<>> ELSE [i \in 1 .. Len(items) |-> FALSE])
      /\ b.filled = [i \in 1 .. Len(items) |-> NoData]
  BY <1>1 DEF Batch
<1>3. /\ b.filled \in Seq(Payloads \cup {NoData}) /\ Len(b.filled) = Len(items)
      /\ b.flags \in Seq(BOOLEAN)
      /\ kind = "put" => Len(b.flags) = 0
      /\ kind = "get" => Len(b.flags) = Len(items)
  <2> DEFINE n == Len(items)
             down == [i \in 1 .. n |-> FALSE]
             empty == [i \in 1 .. n |-> NoData]
  <2>1. down \in Seq(BOOLEAN) /\ Len(down) = n
    BY <1>1
  <2>2. empty \in Seq(Payloads \cup {NoData}) /\ Len(empty) = n
    BY <1>1
  <2>3. <<>> \in Seq(BOOLEAN) /\ Len(<<>>) = 0
    OBVIOUS
  <2>4. b.flags = (IF kind = "put" THEN <<>> ELSE down) /\ b.filled = empty
    BY <1>2
  <2> HIDE DEF down, empty, b, n
  <2>5. b.filled \in Seq(Payloads \cup {NoData}) /\ Len(b.filled) = n
    BY <2>2, <2>4
  <2>6. CASE kind = "put"
    BY <2>3, <2>4, <2>5, <2>6 DEF n
  <2>7. CASE kind = "get"
    BY <2>1, <2>4, <2>5, <2>7 DEF n
  <2> QED
    BY <2>6, <2>7
<1>4. b \in BatchRecord
  BY <1>2, <1>3 DEF BatchRecord, Batch, Phases, Over
<1>5. Places(b)
  BY <1>1, <1>2, <1>3 DEF Places, Over
<1>6. FlagsSay(b) /\ WritesSingle(w, b)
  BY <1>1, <1>2, <1>3 DEF FlagsSay, WritesSingle
<1> QED
  BY <1>4, <1>5, <1>6 DEF BatchGood

(* The fields of a list that an action does not name stay as they are.     *)
LEMMA OpenChunkGood ==
    ASSUME NEW w \in Batchers, BatchGood(w, batch[w]), OpenChunk(w)
    PROVE  \E c : BatchGood(w, c) /\ Update(w, c)
<1> DEFINE b == batch[w]
           goes == IF b.kind = "get" THEN "read"
                   ELSE IF \E i \in Chunk(w) : PlanOf(w, i) = ConfigError THEN "raised"
                   ELSE IF \E i \in Chunk(w) : PlanOf(w, i).nseg > 1 THEN "loop"
                   ELSE "write"
           c == [b EXCEPT !.at = b.offset + 1, !.todo = Chunk(w), !.phase = goes]
<1>1. Update(w, c) /\ b.phase = "chunk"
  BY DEF OpenChunk
<1>2. Chunk(w) = b.offset + 1 .. EndOf(b)
  BY DEF Chunk, ChunkEnd, EndOf
<1>3. b \in BatchRecord /\ Places(b) /\ FlagsSay(b)
  BY DEF BatchGood
<1>4. goes \in {"read", "raised", "loop", "write"}
  OBVIOUS
<1>5. goes = "read" <=> b.kind = "get"
  OBVIOUS
<1>6. ASSUME goes = "write", NEW i \in b.offset + 1 .. EndOf(b)
      PROVE  LayoutOf(w, b.items[i].data) # ConfigError /\ LayoutOf(w, b.items[i].data).nseg = 1
  <2>1. LayoutOf(w, b.items[i].data) # ConfigError /\ ~(LayoutOf(w, b.items[i].data).nseg > 1)
    BY <1>2, <1>6 DEF PlanOf, DataOf, LayoutOf
  <2>2. i \in 1 .. Len(b.items)
    BY <1>3, ChunkEnds
  <2>3. b.items[i] \in Item
    BY <1>3, <2>2 DEF BatchRecord
  <2>4. b.items[i].data \in Payloads
    BY <2>3 DEF Item
  <2>5. w \in Workers
    BY BatchersAssumption
  <2>6. LayoutOf(w, b.items[i].data).nseg \in Nat /\ LayoutOf(w, b.items[i].data).nseg >= 1
    BY <2>1, <2>4, <2>5, PlanOK DEF LayoutOf
  <2> QED
    BY <2>1, <2>6
<1>7. /\ c.kind = b.kind /\ c.items = b.items /\ c.phase = goes /\ c.offset = b.offset
      /\ c.at = b.offset + 1 /\ c.todo = b.offset + 1 .. EndOf(b) /\ c.multi = b.multi
      /\ c.flags = b.flags /\ c.done = b.done /\ c.filled = b.filled
      /\ EndOf(c) = EndOf(b)
  BY <1>2, <1>3 DEF BatchRecord, EndOf
<1>8. c \in BatchRecord
  <2> HIDE DEF goes
  <2>1. b.offset + 1 \in Nat /\ Chunk(w) \subseteq Nat /\ goes \in Phases
    BY <1>2, <1>3, <1>4, ChunkEnds DEF Phases, Over
  <2> QED
    BY <1>3, <2>1 DEF BatchRecord
<1>12. /\ b.offset \in Nat /\ EndOf(b) \in Nat /\ b.offset < EndOf(b)
       /\ EndOf(b) <= Len(b.items) /\ Len(b.items) \in Nat
       /\ b.kind \in {"put", "get"} /\ Len(b.flags) \in Nat
  BY <1>1, <1>3, ChunkEnds DEF Places, Over, BatchRecord
<1> HIDE DEF c, goes, b
<1>9. Places(c)
  BY <1>1, <1>3, <1>4, <1>5, <1>7, <1>12 DEF Places, Over
<1>10. FlagsSay(c)
  <2>1. SUFFICES ASSUME c.kind = "put" PROVE FlagsSay(c)
    BY DEF FlagsSay
  <2>2. /\ \A i \in 1 .. Len(b.flags) : b.flags[i] <=> i \in b.done
        /\ b.done \subseteq 1 .. Len(b.flags) /\ Len(b.flags) = b.offset
    BY <1>1, <1>3, <1>7, <2>1 DEF FlagsSay, Places
  <2> QED
    BY <1>4, <1>7, <1>12, <2>2 DEF FlagsSay
<1>11. WritesSingle(w, c)
  BY <1>6, <1>7 DEF WritesSingle
<1> QED
  BY <1>1, <1>8, <1>9, <1>10, <1>11 DEF BatchGood

(* The flags of a batch, listed after those of the chunks before it.       *)
LEMMA Listed ==
    ASSUME NEW s \in Seq(BOOLEAN), NEW D, NEW o \in Nat, NEW n \in Nat,
           NEW new \in [1 .. n -> BOOLEAN], \A j \in 1 .. n : new[j] <=> o + j \in D
    PROVE  /\ s \o new \in Seq(BOOLEAN) /\ Len(s \o new) = Len(s) + n
           /\ \A i \in 1 .. Len(s) : (s \o new)[i] = s[i]
           /\ \A j \in 1 .. n : (s \o new)[Len(s) + j] <=> o + j \in D
<1>2. new \in Seq(BOOLEAN)
  BY SeqDef
<1>3. Len(new) = n /\ Len(s) \in Nat
  BY <1>2, LenProperties
<1>4. /\ s \o new \in Seq(BOOLEAN) /\ Len(s \o new) = Len(s) + Len(new)
      /\ \A i \in 1 .. Len(s) + Len(new) : (s \o new)[i] =
             IF i <= Len(s) THEN s[i] ELSE new[i - Len(s)]
  BY <1>2, ConcatProperties
<1>5. \A i \in 1 .. Len(s) : (s \o new)[i] = s[i]
  BY <1>3, <1>4
<1>6. ASSUME NEW j \in 1 .. n PROVE (s \o new)[Len(s) + j] = new[j]
  <2>1. /\ Len(s) + j \in 1 .. Len(s) + Len(new) /\ ~(Len(s) + j <= Len(s))
        /\ Len(s) + j - Len(s) = j
    BY <1>3
  <2> QED
    BY <1>4, <2>1
<1> QED
  BY <1>3, <1>4, <1>5, <1>6

LEMMA CloseChunkGood ==
    ASSUME NEW w \in Batchers, BatchGood(w, batch[w]), CloseChunk(w)
    PROVE  \E c : BatchGood(w, c) /\ Update(w, c)
<1> DEFINE b == batch[w]
           n == ChunkEnd(w) - b.offset
           new == [j \in 1 .. n |-> b.offset + j \in b.done]
           flags == IF b.phase = "write" THEN b.flags \o new ELSE b.flags
           goes == IF ChunkEnd(w) = Len(b.items) THEN "returned" ELSE "chunk"
           c == [b EXCEPT !.offset = ChunkEnd(w), !.flags = flags, !.phase = goes]
<1>1. /\ Update(w, c)
      /\ \/ b.phase = "loop" /\ b.at \notin Chunk(w)
         \/ b.phase \in {"write", "read"} /\ b.todo = {} /\ b.multi = {}
  BY DEF CloseChunk
<1>2. Chunk(w) = b.offset + 1 .. EndOf(b) /\ ChunkEnd(w) = EndOf(b)
  BY DEF Chunk, ChunkEnd, EndOf
<1>3. b \in BatchRecord /\ Places(b) /\ FlagsSay(b)
  BY DEF BatchGood
<1>4. /\ b.offset \in Nat /\ EndOf(b) \in Nat /\ b.offset < EndOf(b)
      /\ EndOf(b) <= Len(b.items) /\ Len(b.items) \in Nat /\ n \in Nat
  BY <1>1, <1>2, <1>3, ChunkEnds DEF Places, Over
<1>5. flags \in Seq(BOOLEAN) /\ Len(flags) \in Nat
      /\ (b.phase = "write" => /\ Len(flags) = Len(b.flags) + n
                               /\ \A i \in 1 .. Len(b.flags) : flags[i] = b.flags[i]
                               /\ \A j \in 1 .. n :
                                     flags[Len(b.flags) + j] <=> b.offset + j \in b.done)
  <2>1. b.flags \in Seq(BOOLEAN) /\ Len(b.flags) \in Nat
    BY <1>3 DEF BatchRecord
  <2> DEFINE out == b.flags \o new
  <2>2. /\ out \in Seq(BOOLEAN) /\ Len(out) = Len(b.flags) + n
        /\ \A i \in 1 .. Len(b.flags) : out[i] = b.flags[i]
        /\ \A j \in 1 .. n : out[Len(b.flags) + j] <=> b.offset + j \in b.done
    <3>1. n \in Nat /\ b.offset \in Nat
      BY <1>4
    <3>2. DOMAIN new = 1 .. n /\ \A j \in 1 .. n : new[j] = (b.offset + j \in b.done)
      OBVIOUS
    <3>3. ASSUME NEW j \in 1 .. n
          PROVE  new[j] \in BOOLEAN /\ (new[j] <=> b.offset + j \in b.done)
      <4>1. new[j] = (b.offset + j \in b.done) /\ (b.offset + j \in b.done) \in BOOLEAN
        BY <3>2
      <4> HIDE DEF new
      <4> QED
        BY <4>1, Zenon
    <3>4. new = [j \in DOMAIN new |-> new[j]]
      OBVIOUS
    <3>5. new \in [1 .. n -> BOOLEAN] /\ \A j \in 1 .. n : new[j] <=> b.offset + j \in b.done
      <4> HIDE DEF new
      <4> QED
        BY <3>2, <3>3, <3>4
    <3> HIDE DEF n, new, b
    <3> QED
      BY <2>1, <3>1, <3>5, Listed, Zenon DEF out
  <2>3. flags = IF b.phase = "write" THEN out ELSE b.flags
    OBVIOUS
  <2> HIDE DEF out, flags, n, b
  <2>4. CASE b.phase = "write"
    <3>1. flags = out
      BY <2>3, <2>4
    <3>2. Len(flags) \in Nat
      BY <1>4, <2>1, <2>2, <3>1
    <3> QED
      BY <2>2, <3>1, <3>2, Zenon
  <2>5. CASE b.phase # "write"
    BY <2>1, <2>3, <2>5
  <2> QED
    BY <2>4, <2>5
<1>7. /\ c.kind = b.kind /\ c.items = b.items /\ c.phase = goes /\ c.offset = EndOf(b)
      /\ c.at = b.at /\ c.todo = b.todo /\ c.multi = b.multi
      /\ c.flags = flags /\ c.done = b.done /\ c.filled = b.filled
  BY <1>2, <1>3 DEF BatchRecord
<1>8. /\ b.phase # "write" => flags = b.flags
      /\ goes = (IF EndOf(b) = Len(b.items) THEN "returned" ELSE "chunk")
  BY <1>2
<1>9. c \in BatchRecord
  <2> HIDE DEF goes, flags
  <2>1. goes \in Phases
    BY <1>8 DEF Phases, Over
  <2> QED
    BY <1>2, <1>3, <1>4, <1>5, <2>1 DEF BatchRecord
<1>10. b.flags \in Seq(BOOLEAN) /\ Len(b.flags) \in Nat /\ b.at \in Nat
  BY <1>3 DEF BatchRecord
<1>11. b.kind = "put" => Len(flags) = EndOf(b)
  <2> HIDE DEF flags, goes, c
  <2>1. CASE b.phase = "loop"
    BY <1>1, <1>2, <1>3, <1>4, <1>8, <1>10, <2>1 DEF Places
  <2>2. CASE b.phase = "write"
    <3>1. b.kind = "put" => Len(b.flags) = b.offset
      BY <1>3, <2>2 DEF Places
    <3> QED
      BY <1>2, <1>4, <1>5, <2>2, <3>1
  <2>3. CASE b.phase = "read"
    BY <1>3, <2>3 DEF Places
  <2> QED
    BY <1>1, <2>1, <2>2, <2>3
<1>12. b.kind = "put" => /\ \A i \in 1 .. EndOf(b) : flags[i] <=> i \in b.done
                         /\ b.done \subseteq 1 .. EndOf(b)
  <2> HIDE DEF flags, goes, c
  <2>1. CASE b.phase = "loop"
    BY <1>3, <1>8, <1>11, <2>1 DEF FlagsSay
  <2>2. CASE b.phase = "write"
    <3> SUFFICES ASSUME b.kind = "put"
                 PROVE  /\ \A i \in 1 .. EndOf(b) : flags[i] <=> i \in b.done
                        /\ b.done \subseteq 1 .. EndOf(b)
      OBVIOUS
    <3>1. Len(b.flags) = b.offset /\ b.done \subseteq 1 .. EndOf(b)
      BY <1>3, <2>2 DEF Places, FlagsSay
    <3>2. \A i \in 1 .. b.offset : flags[i] <=> i \in b.done
      BY <1>3, <1>5, <2>2, <3>1 DEF FlagsSay
    <3>3. ASSUME NEW i \in b.offset + 1 .. EndOf(b) PROVE flags[i] <=> i \in b.done
      <4>1. i - b.offset \in 1 .. n /\ b.offset + (i - b.offset) = i
        BY <1>2, <1>4
      <4> QED
        BY <1>5, <2>2, <3>1, <4>1
    <3> QED
      BY <1>4, <3>1, <3>2, <3>3
  <2>3. CASE b.phase = "read"
    BY <1>3, <2>3 DEF Places
  <2> QED
    BY <1>1, <2>1, <2>2, <2>3
<1> HIDE DEF c, goes, flags, n, b
<1>13. Places(c)
  <2>1. c.phase \in {"returned", "chunk"} /\ (c.phase = "chunk" => EndOf(b) # Len(b.items))
    BY <1>7, <1>8
  <2>2. c.phase \notin Over => c.offset < Len(c.items)
    BY <1>4, <1>7, <2>1 DEF Over
  <2>3. c.multi \subseteq 1 .. Len(c.items)
    BY <1>3, <1>7 DEF Places
  <2>4. c.kind = "get" => Len(c.flags) = Len(c.items)
    BY <1>1, <1>3, <1>7, <1>8 DEF Places
  <2>5. Len(c.filled) = Len(c.items)
    BY <1>3, <1>7 DEF Places
  <2>6. c.kind = "put" => /\ c.phase = "chunk" => Len(c.flags) = c.offset
                          /\ c.phase = "returned" => Len(c.flags) = Len(c.items)
    BY <1>7, <1>8, <1>11
  <2> QED
    BY <2>1, <2>2, <2>3, <2>4, <2>5, <2>6 DEF Places
<1>14. FlagsSay(c)
  BY <1>7, <1>8, <1>11, <1>12 DEF FlagsSay
<1>15. WritesSingle(w, c)
  BY <1>7, <1>8 DEF WritesSingle
<1> QED
  BY <1>1, <1>9, <1>13, <1>14, <1>15 DEF BatchGood

(* A call that is cut short.                                               *)
LEMMA CutShortGood ==
    ASSUME NEW w \in Batchers, BatchGood(w, batch[w]), NEW how,
           how = "raised" \/ (how = "returned" /\ batch[w].kind = "get"), End(w, how)
    PROVE  \E c : BatchGood(w, c) /\ Update(w, c)
<1> DEFINE b == batch[w]
           c == [b EXCEPT !.phase = how]
<1>1. Update(w, c)
  BY DEF End
<1>2. b \in BatchRecord /\ Places(b) /\ FlagsSay(b)
  BY DEF BatchGood
<1>3. /\ c.kind = b.kind /\ c.items = b.items /\ c.phase = how /\ c.offset = b.offset
      /\ c.at = b.at /\ c.todo = b.todo /\ c.multi = b.multi
      /\ c.flags = b.flags /\ c.done = b.done /\ c.filled = b.filled
  BY <1>2 DEF BatchRecord
<1>4. c \in BatchRecord
  <2>1. how \in Phases
    BY DEF Phases, Over
  <2> QED
    BY <1>2, <2>1 DEF BatchRecord
<1> HIDE DEF c
<1>5. Places(c)
  BY <1>2, <1>3 DEF Places, Over
<1>6. FlagsSay(c) /\ WritesSingle(w, c)
  BY <1>2, <1>3 DEF FlagsSay, WritesSingle
<1> QED
  BY <1>1, <1>4, <1>5, <1>6 DEF BatchGood

LEMMA CallPutGood ==
    ASSUME NEW w \in Batchers, BatchGood(w, batch[w]), CallPut(w)
    PROVE  \E c : BatchGood(w, c) /\ Update(w, c)
<1> DEFINE b == batch[w]
           c == [b EXCEPT !.phase = "put"]
<1>1. Update(w, c) /\ b.phase = "loop" /\ b.at \in b.offset + 1 .. EndOf(b)
  BY DEF End, CallPut, Chunk, ChunkEnd, EndOf
<1>2. b \in BatchRecord /\ Places(b) /\ FlagsSay(b)
  BY DEF BatchGood
<1>3. /\ c.kind = b.kind /\ c.items = b.items /\ c.phase = "put" /\ c.offset = b.offset
      /\ c.at = b.at /\ c.todo = b.todo /\ c.multi = b.multi
      /\ c.flags = b.flags /\ c.done = b.done /\ c.filled = b.filled /\ EndOf(c) = EndOf(b)
  BY <1>2 DEF BatchRecord, EndOf
<1>4. c \in BatchRecord
  BY <1>2 DEF BatchRecord, Phases
<1>5. b.offset \in Nat /\ EndOf(b) \in Nat /\ b.at \in Nat
  BY <1>2, ChunkEnds DEF BatchRecord
<1> HIDE DEF b, c
<1>6. Places(c)
  BY <1>1, <1>2, <1>3, <1>5 DEF Places, Over
<1>7. FlagsSay(c) /\ WritesSingle(w, c)
  BY <1>1, <1>2, <1>3 DEF FlagsSay, WritesSingle
<1> QED
  BY <1>1, <1>4, <1>6, <1>7 DEF BatchGood

(* put returned: one flag more, which says what put did.                   *)
LEMMA NextFlagGood ==
    ASSUME NEW w \in Batchers, BatchGood(w, batch[w]), batch[w].phase = "put",
           NEW flag \in BOOLEAN, NEW done,
           done = IF flag THEN batch[w].done \cup {batch[w].at} ELSE batch[w].done
    PROVE  BatchGood(w, [batch[w] EXCEPT !.phase = "loop", !.at = @ + 1,
                            !.flags = Append(batch[w].flags, flag), !.done = done])
<1> DEFINE b == batch[w]
           flags == Append(b.flags, flag)
           c == [b EXCEPT !.phase = "loop", !.at = @ + 1, !.flags = flags, !.done = done]
<1>1. b \in BatchRecord /\ Places(b) /\ FlagsSay(b)
  BY DEF BatchGood
<1>2. /\ b.offset \in Nat /\ EndOf(b) \in Nat /\ b.at \in Nat /\ b.kind = "put"
      /\ b.flags \in Seq(BOOLEAN) /\ Len(b.flags) \in Nat /\ b.done \subseteq Nat
      /\ b.at \in b.offset + 1 .. EndOf(b) /\ Len(b.flags) = b.at - 1
      /\ b.offset < Len(b.items)
  BY <1>1, ChunkEnds DEF BatchRecord, Places, Over
<1>3. /\ flags \in Seq(BOOLEAN) /\ Len(flags) = b.at
      /\ flags[b.at] = flag
      /\ \A i \in 1 .. Len(b.flags) : flags[i] = b.flags[i]
  <2>1. flags \in Seq(BOOLEAN) /\ Len(flags) = Len(b.flags) + 1
    BY <1>2
  <2>2. /\ flags[Len(b.flags) + 1] = flag
        /\ \A i \in 1 .. Len(b.flags) : flags[i] = b.flags[i]
    <3>1. b.flags \in Seq(BOOLEAN)
      BY <1>2
    <3> HIDE DEF b
    <3> QED
      BY <3>1
  <2> HIDE DEF flags, b
  <2> QED
    BY <1>2, <2>1, <2>2
<1> HIDE DEF flags
<1>4. /\ c.kind = b.kind /\ c.items = b.items /\ c.phase = "loop" /\ c.offset = b.offset
      /\ c.at = b.at + 1 /\ c.todo = b.todo /\ c.multi = b.multi
      /\ c.flags = flags /\ c.done = done /\ c.filled = b.filled /\ EndOf(c) = EndOf(b)
  BY <1>1 DEF BatchRecord, EndOf
<1>5. c \in BatchRecord
  <2>1. done \subseteq Nat /\ b.at + 1 \in Nat
    BY <1>2
  <2> QED
    BY <1>1, <1>3, <2>1 DEF BatchRecord, Phases
<1>6. done = IF flag THEN b.done \cup {b.at} ELSE b.done
  OBVIOUS
<1> HIDE DEF b, c
<1>7. Places(c)
  BY <1>1, <1>2, <1>3, <1>4 DEF Places, Over
<1>8. b.done \subseteq 1 .. b.at - 1 /\ \A i \in 1 .. b.at - 1 : b.flags[i] <=> i \in b.done
  <2>1. b.phase = "put"
    BY DEF b
  <2> QED
    BY <1>1, <1>2, <2>1 DEF FlagsSay
<1>9. done \subseteq 1 .. b.at
  <2>1. b.at \in 1 .. b.at /\ 1 .. b.at - 1 \subseteq 1 .. b.at
    BY <1>2
  <2> QED
    BY <1>6, <1>8, <2>1
<1>10. ASSUME NEW i \in 1 .. b.at PROVE flags[i] <=> i \in done
  <2>1. CASE i = b.at
    <3>1. b.at \notin b.done
      BY <1>2, <1>8
    <3>2. flag <=> b.at \in done
      BY <1>6, <3>1
    <3> QED
      BY <1>3, <2>1, <3>2
  <2>2. CASE i # b.at
    <3>1. i \in 1 .. b.at - 1
      BY <1>2, <2>2
    <3>2. i \in done <=> i \in b.done
      BY <1>6, <2>2
    <3>3. flags[i] = b.flags[i]
      BY <1>2, <1>3, <3>1
    <3> QED
      BY <1>8, <3>1, <3>2, <3>3
  <2> QED
    BY <2>1, <2>2
<1>11. FlagsSay(c) /\ WritesSingle(w, c)
  BY <1>3, <1>4, <1>9, <1>10 DEF FlagsSay, WritesSingle
<1> QED
  BY <1>5, <1>7, <1>11 DEF BatchGood, b, c, flags

LEMMA AfterPutGood ==
    ASSUME NEW w \in Batchers, BatchGood(w, batch[w]), AfterPut(w)
    PROVE  \E c : BatchGood(w, c) /\ Update(w, c)
<1> DEFINE b == batch[w]
           yes == [b EXCEPT !.phase = "loop", !.at = @ + 1,
                            !.flags = Append(b.flags, TRUE), !.done = b.done \cup {b.at}]
           no  == [b EXCEPT !.phase = "loop", !.at = @ + 1,
                            !.flags = Append(b.flags, FALSE), !.done = b.done]
<1>1. b.phase = "put" /\ b \in BatchRecord
  BY DEF AfterPut, BatchGood
<1>2. BatchGood(w, yes)
  BY <1>1, NextFlagGood
<1>3. BatchGood(w, no)
  BY <1>1, NextFlagGood
<1>4. [b EXCEPT !.phase = "loop", !.at = @ + 1, !.flags = FlagsAfterFailure(b)] = no
  BY <1>1 DEF BatchRecord, FlagsAfterFailure
<1>5. Update(w, yes) \/ Update(w, no) \/ End(w, "raised")
  BY <1>4 DEF AfterPut
<1> HIDE DEF yes, no
<1> QED
  BY <1>2, <1>3, <1>5, CutShortGood

LEMMA WriteItemGood ==
    ASSUME NEW w \in Batchers, BatchGood(w, batch[w]), NEW i, WriteItem(w, i)
    PROVE  \E c : BatchGood(w, c) /\ Update(w, c)
<1> DEFINE b == batch[w]
<1>1. PICK done \in {b.done, b.done \cup {i}} :
          Update(w, [b EXCEPT !.todo = @ \ {i}, !.done = done])
  <2>1. b \in BatchRecord
    BY DEF BatchGood
  <2>2. [b EXCEPT !.todo = @ \ {i}] = [b EXCEPT !.todo = @ \ {i}, !.done = b.done]
    BY <2>1 DEF BatchRecord
  <2> QED
    BY <2>2 DEF WriteItem
<1> DEFINE c == [b EXCEPT !.todo = @ \ {i}, !.done = done]
<1>2. b \in BatchRecord /\ Places(b) /\ FlagsSay(b) /\ WritesSingle(w, b)
  BY DEF BatchGood
<1>3. /\ b.phase = "write" /\ i \in b.todo
      /\ b.offset \in Nat /\ EndOf(b) \in Nat /\ b.kind = "put" /\ Len(b.flags) = b.offset
      /\ b.todo \subseteq b.offset + 1 .. EndOf(b) /\ b.done \subseteq Nat
  BY <1>2, ChunkEnds DEF WriteItem, BatchRecord, Places
<1>4. /\ c.kind = b.kind /\ c.items = b.items /\ c.phase = b.phase /\ c.offset = b.offset
      /\ c.at = b.at /\ c.todo = b.todo \ {i} /\ c.multi = b.multi
      /\ c.flags = b.flags /\ c.done = done /\ c.filled = b.filled /\ EndOf(c) = EndOf(b)
  BY <1>2 DEF BatchRecord, EndOf
<1>5. i \in b.offset + 1 .. EndOf(b) /\ done \subseteq Nat
  BY <1>3
<1>6. c \in BatchRecord
  <2>1. b.todo \ {i} \subseteq Nat
    BY <1>3
  <2> QED
    BY <1>2, <1>5, <2>1 DEF BatchRecord
<1>7. Update(w, c)
  BY <1>1
<1> HIDE DEF b, c
<1>8. Places(c)
  BY <1>2, <1>3, <1>4 DEF Places, Over
<1>9. FlagsSay(c)
  <2>1. done \subseteq 1 .. EndOf(b)
    BY <1>2, <1>3, <1>5 DEF FlagsSay
  <2>2. \A j \in 1 .. Len(b.flags) : b.flags[j] <=> j \in done
    BY <1>2, <1>3, <1>5 DEF FlagsSay
  <2> QED
    BY <1>3, <1>4, <2>1, <2>2 DEF FlagsSay
<1>10. WritesSingle(w, c)
  BY <1>2, <1>4 DEF WritesSingle
<1> QED
  BY <1>6, <1>7, <1>8, <1>9, <1>10 DEF BatchGood

(* A list read by batched_get_preallocated: its places are its items.      *)
LEMMA ReadingGood ==
    ASSUME NEW w \in Batchers, NEW b, BatchGood(w, b), b.phase \in {"read", "get"},
           NEW c \in BatchRecord, c.kind = b.kind, c.items = b.items, c.offset = b.offset,
           c.phase \in {"read", "get"}, c.todo \subseteq b.offset + 1 .. EndOf(b),
           c.multi \subseteq 1 .. Len(b.items), c.phase = "get" => c.at \in 1 .. Len(b.items),
           Len(c.flags) = Len(b.flags), Len(c.filled) = Len(b.filled)
    PROVE  BatchGood(w, c)
<1>1. Places(b)
  BY DEF BatchGood
<1>2. EndOf(c) = EndOf(b)
  BY DEF EndOf
<1>3. Places(c)
  BY <1>1, <1>2 DEF Places, Over
<1>4. b.kind = "get"
  BY <1>1 DEF Places
<1> QED
  BY <1>3, <1>4 DEF BatchGood, FlagsSay, WritesSingle

(* A flag and a buffer of the list are set.                                *)
LEMMA RaiseFlag ==
    ASSUME NEW b \in BatchRecord, Places(b), b.kind = "get", NEW i \in 1 .. Len(b.items),
           NEW d \in Payloads \cup {NoData}
    PROVE  /\ [b.flags EXCEPT ![i] = TRUE] \in Seq(BOOLEAN)
           /\ Len([b.flags EXCEPT ![i] = TRUE]) = Len(b.flags)
           /\ [b.filled EXCEPT ![i] = d] \in Seq(Payloads \cup {NoData})
           /\ Len([b.filled EXCEPT ![i] = d]) = Len(b.filled)
<1>1. /\ b.flags \in Seq(BOOLEAN) /\ b.filled \in Seq(Payloads \cup {NoData})
      /\ i \in 1 .. Len(b.flags) /\ i \in 1 .. Len(b.filled)
  BY DEF BatchRecord, Places
<1>2. /\ [b.flags EXCEPT ![i] = TRUE] \in Seq(BOOLEAN)
      /\ Len([b.flags EXCEPT ![i] = TRUE]) = Len(b.flags)
  BY <1>1, ExceptSeq
<1>3. /\ [b.filled EXCEPT ![i] = d] \in Seq(Payloads \cup {NoData})
      /\ Len([b.filled EXCEPT ![i] = d]) = Len(b.filled)
  BY <1>1, ExceptSeq
<1> QED
  BY <1>2, <1>3

LEMMA ReadItemGood ==
    ASSUME NEW w \in Batchers, BatchGood(w, batch[w]), StoreOK,
           NEW i \in DOMAIN batch[w].items, ReadItem(w, i)
    PROVE  \E c : BatchGood(w, c) /\ Update(w, c)
<1> DEFINE b == batch[w]
           left == b.todo \ {i}
           k == KeyOf(w, i)
           d == Held(Copy(CallerBuffer(k, DataOf(w, i)), Inline(meta[k].b)))
           c1 == [b EXCEPT !.todo = left]
           c2 == [b EXCEPT !.todo = left, !.multi = @ \cup {i}]
           flags == [b.flags EXCEPT ![i] = TRUE]
           filled == [b.filled EXCEPT ![i] = d]
           c3 == [b EXCEPT !.todo = left, !.filled = filled, !.flags = flags]
<1>1. b.phase = "read" /\ b \in BatchRecord /\ Places(b)
  BY DEF BatchGood, ReadItem
<1>2. [b EXCEPT !.todo = @ \ {i}, !.filled[i] = d, !.flags[Place(b, i)] = TRUE] = c3
  BY <1>1 DEF BatchRecord, Place
<1>3. \/ Update(w, c1) \/ Update(w, c2)
      \/ Update(w, c3) /\ Ready(k) /\ meta[k].b # NoData
  BY <1>2 DEF ReadItem
<1>4. /\ i \in 1 .. Len(b.items) /\ b.kind = "get" /\ b.multi \cup {i} \subseteq 1 .. Len(b.items)
      /\ left \subseteq b.offset + 1 .. EndOf(b) /\ left \subseteq Nat
      /\ b.multi \subseteq Nat /\ b.multi \cup {i} \subseteq Nat
  BY <1>1 DEF Places, BatchRecord
<1>5. Len(b.flags) = Len(b.items) /\ Len(b.filled) = Len(b.items)
  BY <1>1, <1>4 DEF Places
<1>6. BatchGood(w, c1)
  <2>1. /\ c1 \in BatchRecord /\ c1.kind = b.kind /\ c1.items = b.items /\ c1.offset = b.offset
        /\ c1.phase = "read" /\ c1.todo = left /\ c1.multi = b.multi
        /\ c1.flags = b.flags /\ c1.filled = b.filled
    BY <1>1, <1>4 DEF BatchRecord
  <2> HIDE DEF c1, b, left
  <2> QED
    BY <1>1, <1>4, <2>1, ReadingGood DEF b
<1>7. BatchGood(w, c2)
  <2>1. /\ c2 \in BatchRecord /\ c2.kind = b.kind /\ c2.items = b.items /\ c2.offset = b.offset
        /\ c2.phase = "read" /\ c2.todo = left /\ c2.multi = b.multi \cup {i}
        /\ c2.flags = b.flags /\ c2.filled = b.filled
    BY <1>1, <1>4 DEF BatchRecord
  <2> HIDE DEF c2, b, left
  <2> QED
    BY <1>1, <1>4, <2>1, ReadingGood DEF b
<1>8. ASSUME meta[k].b # NoData, Ready(k) PROVE BatchGood(w, c3)
  <2>1. d \in Payloads \cup {NoData}
    <3>1. k \in Keys
      <4>1. b.items \in Seq(Item)
        BY <1>1 DEF BatchRecord
      <4>2. b.items[i] \in Item
        BY <1>4, <4>1
      <4> QED
        BY <4>2 DEF KeyOf, Item
    <3>2. meta[k] \in MetaRecord
      BY <1>8, <3>1 DEF StoreOK, Ready
    <3> HIDE DEF k
    <3>3. meta[k].b \in Payloads \cup {NoData}
      BY <3>2 DEF MetaRecord
    <3>4. Copy(CallerBuffer(k, DataOf(w, i)), Inline(meta[k].b)).of \in Payloads \cup {NoData}
      BY <3>3 DEF Copy, CallerBuffer, NoBuf, Inline
    <3> QED
      BY <3>4 DEF Held
  <2> HIDE DEF d
  <2>2. /\ flags \in Seq(BOOLEAN) /\ Len(flags) = Len(b.flags)
        /\ filled \in Seq(Payloads \cup {NoData}) /\ Len(filled) = Len(b.filled)
    BY <1>1, <1>4, <2>1, RaiseFlag
  <2> HIDE DEF flags, filled
  <2>3. /\ c3 \in BatchRecord /\ c3.kind = b.kind /\ c3.items = b.items /\ c3.offset = b.offset
        /\ c3.phase = "read" /\ c3.todo = left /\ c3.multi = b.multi
        /\ c3.flags = flags /\ c3.filled = filled
    BY <1>1, <1>4, <2>2 DEF BatchRecord
  <2> HIDE DEF c3, b, left
  <2> QED
    BY <1>1, <1>4, <2>2, <2>3, ReadingGood DEF b
<1> HIDE DEF c1, c2, c3
<1> QED
  BY <1>3, <1>6, <1>7, <1>8

LEMMA CallGetGood ==
    ASSUME NEW w \in Batchers, BatchGood(w, batch[w]), CallGet(w)
    PROVE  \E c : BatchGood(w, c) /\ Update(w, c)
<1> DEFINE b == batch[w]
<1>1. b.phase = "read" /\ b.todo = {} /\ b \in BatchRecord /\ Places(b)
  BY DEF BatchGood, CallGet
<1>2. PICK i \in b.multi : Update(w, [b EXCEPT !.phase = "get", !.at = i])
  BY DEF CallGet
<1> DEFINE c == [b EXCEPT !.phase = "get", !.at = i]
<1>3. i \in 1 .. Len(b.items) /\ i \in Nat /\ b.multi \subseteq 1 .. Len(b.items)
  BY <1>1 DEF Places, BatchRecord
<1>4. /\ c \in BatchRecord /\ c.kind = b.kind /\ c.items = b.items /\ c.offset = b.offset
      /\ c.phase = "get" /\ c.todo = {} /\ c.multi = b.multi /\ c.at = i
      /\ c.flags = b.flags /\ c.filled = b.filled
  BY <1>1, <1>3 DEF BatchRecord, Phases
<1>5. Update(w, c)
  BY <1>2
<1> HIDE DEF c, b
<1>6. BatchGood(w, c)
  BY <1>1, <1>3, <1>4, ReadingGood DEF b
<1> QED
  BY <1>5, <1>6

LEMMA AfterGetGood ==
    ASSUME NEW w \in Batchers, BatchGood(w, batch[w]), LocalOK, AfterGet(w)
    PROVE  \E c : BatchGood(w, c) /\ Update(w, c)
<1> DEFINE b == batch[w]
           d == Held(buf[w])
           c1 == [b EXCEPT !.phase = "read", !.multi = LeftToGet(w)]
           flags == [b.flags EXCEPT ![b.at] = TRUE]
           filled == [b.filled EXCEPT ![b.at] = d]
           c2 == [b EXCEPT !.phase = "read", !.multi = LeftToGet(w),
                           !.flags = flags, !.filled = filled]
<1>1. b.phase = "get" /\ b \in BatchRecord /\ Places(b)
  BY DEF BatchGood, AfterGet
<1>2. [b EXCEPT !.phase = "read", !.multi = LeftToGet(w),
                !.flags[b.at] = TRUE, !.filled[b.at] = Held(buf[w])] = c2
  BY <1>1 DEF BatchRecord
<1>3. /\ LeftToGet(w) \subseteq 1 .. Len(b.items) /\ LeftToGet(w) \subseteq Nat
      /\ b.at \in 1 .. Len(b.items) /\ b.kind = "get" /\ b.todo \subseteq b.offset + 1 .. EndOf(b)
  BY <1>1 DEF Places, BatchRecord, LeftToGet
<1>4. d \in Payloads \cup {NoData}
  <2>1. buf[w].of \in Payloads \cup {NoData}
    BY BatchersAssumption DEF LocalOK, BufType
  <2> QED
    BY <2>1 DEF Held
<1>5. BatchGood(w, c1)
  <2>1. /\ c1 \in BatchRecord /\ c1.kind = b.kind /\ c1.items = b.items /\ c1.offset = b.offset
        /\ c1.phase = "read" /\ c1.todo = b.todo /\ c1.multi = LeftToGet(w)
        /\ c1.flags = b.flags /\ c1.filled = b.filled
    BY <1>1, <1>3 DEF BatchRecord, Phases
  <2> HIDE DEF c1, b
  <2> QED
    BY <1>1, <1>3, <2>1, ReadingGood DEF b
<1>6. BatchGood(w, c2)
  <2> HIDE DEF d
  <2>2. /\ flags \in Seq(BOOLEAN) /\ Len(flags) = Len(b.flags)
        /\ filled \in Seq(Payloads \cup {NoData}) /\ Len(filled) = Len(b.filled)
    BY <1>1, <1>3, <1>4, RaiseFlag
  <2> HIDE DEF flags, filled
  <2>3. /\ c2 \in BatchRecord /\ c2.kind = b.kind /\ c2.items = b.items /\ c2.offset = b.offset
        /\ c2.phase = "read" /\ c2.todo = b.todo /\ c2.multi = LeftToGet(w)
        /\ c2.flags = flags /\ c2.filled = filled
    BY <1>1, <1>3, <2>2 DEF BatchRecord, Phases
  <2> HIDE DEF c2, b
  <2> QED
    BY <1>1, <1>3, <2>2, <2>3, ReadingGood DEF b
<1>7. \/ Update(w, c1) \/ Update(w, c2)
      \/ \E how \in {"returned", "raised"} : End(w, how)
  BY <1>2 DEF AfterGet
<1> HIDE DEF c1, c2
<1> QED
  BY <1>3, <1>5, <1>6, <1>7, CutShortGood

(* The item i of a list.                                                   *)
LEMMA ItemOK ==
    ASSUME NEW w \in Batchers, BatchGood(w, batch[w]), NEW i \in 1 .. Len(batch[w].items)
    PROVE  KeyOf(w, i) \in Keys /\ DataOf(w, i) \in Payloads
<1>1. batch[w].items \in Seq(Item)
  BY DEF BatchGood, BatchRecord
<1>2. batch[w].items[i] \in Item
  BY <1>1
<1> QED
  BY <1>2 DEF KeyOf, DataOf, Item

(* What the batch_write under way has not been answered for.               *)
Sent(w) == {BatchWrite(w, i) : i \in batch[w].todo}

LEMMA SentOK ==
    ASSUME NEW w \in Batchers, BatchGood(w, batch[w]), batch[w].phase = "write"
    PROVE  Sent(w) \subseteq Requests
<1> SUFFICES ASSUME NEW i \in batch[w].todo PROVE BatchWrite(w, i) \in Requests
  BY DEF Sent
<1>1. i \in 1 .. Len(batch[w].items)
  BY ChunkEnds DEF BatchGood, Places
<1>2. KeyOf(w, i) \in Keys /\ DataOf(w, i) \in Payloads
  BY <1>1, ItemOK
<1> DEFINE k == KeyOf(w, i)
           d == DataOf(w, i)
           c == w \in CrcWorkers
           p == FALSE
           t == _ttl_value(p)
<1>3. c \in BOOLEAN /\ t \in Int /\ p \in BOOLEAN /\ 1 \in 1 .. MaxSegs
  <2>1. p \in BOOLEAN
    OBVIOUS
  <2>2. t \in Int
    <3> HIDE DEF p
    <3> QED
      BY <2>1, TtlOK
  <2>3. 1 \in 1 .. MaxSegs
    BY MaxSegsAssumption
  <2>4. c \in BOOLEAN
    OBVIOUS
  <2> HIDE DEF c, p, t
  <2> QED
    BY <2>1, <2>2, <2>3, <2>4
<1>4. BatchWrite(w, i) = [kind |-> "put", key |-> k, data |-> d, nseg |-> 1, crc |-> c,
                          pin |-> p, ttl |-> t]
  BY DEF BatchWrite, PutRequest
<1> HIDE DEF k, d, c, p, t
<1>5. k \in Keys /\ d \in Payloads
  BY <1>2 DEF k, d
<1>6. [kind |-> "put", key |-> k, data |-> d, nseg |-> 1, crc |-> c,
       pin |-> p, ttl |-> t] \in MetaRequests
  BY <1>3, <1>5 DEF MetaRequests
<1> QED
  BY <1>4, <1>6 DEF Requests

(* A chunk's batch_write: one of its writes is served, or none; what fails *)
(* may be served later.                                                    *)
Writes(w) ==
    /\ batch[w].phase = "write"
    /\ late' \subseteq late \cup Sent(w)
    /\ UNCHANGED <<meta, seg>> \/ (\E r \in Sent(w) : Serve(r))
    /\ UNCHANGED <<local, offered>>

(* A list of batched_put is offered.                                       *)
Offers ==
    /\ UNCHANGED <<store, local>>
    /\ offered' \in [Keys -> SUBSET Payloads]
    /\ \A k \in Keys : /\ offered[k] \subseteq offered'[k]
                       /\ offered'[k] \subseteq offered[k] \cup Rendered[k]

(* To the engine, a step of a batched call is a step of its own, or a list *)
(* that is offered, or a write of a batch.                                 *)
LEMMA BatchForms ==
    ASSUME ListsInv, OfferedOK, [BNext]_bvars
    PROVE  [Next]_vars \/ Offers \/ (\E w \in Batchers : Writes(w))
<1>0. \A w \in Batchers : w \in Workers /\ BatchGood(w, batch[w])
  BY BatchersAssumption DEF ListsInv
<1>1. ASSUME NEW w \in Batchers, NEW kind \in {"put", "get"}, NEW items \in Batches,
             BeginBatch(w, kind, items)
      PROVE  Offers
  <2>1. UNCHANGED <<store, local>>
    BY <1>1 DEF BeginBatch
  <2>2. CASE kind = "get"
    BY <1>1, <2>1, <2>2 DEF BeginBatch, Offers, OfferedOK
  <2>3. CASE kind = "put"
    <3> DEFINE of(k) == {items[i].data : i \in {j \in DOMAIN items : items[j].key = k}}
    <3>1. offered' = [k \in Keys |-> offered[k] \cup of(k)]
      BY <1>1, <2>3 DEF BeginBatch
    <3>2. ASSUME NEW k \in Keys PROVE of(k) \subseteq Rendered[k] /\ Rendered[k] \subseteq Payloads
      BY BatchesAssumption, RenderedAssumption
    <3> HIDE DEF of
    <3> QED
      BY <2>1, <3>1, <3>2 DEF Offers, OfferedOK
  <2> QED
    BY <2>2, <2>3
<1>2. ASSUME NEW w \in Batchers, CallPut(w) PROVE Next
  <2> DEFINE i == batch[w].at
             k == KeyOf(w, i)
             d == DataOf(w, i)
  <2>1. i \in 1 .. Len(batch[w].items)
    BY <1>0, <1>2, ChunkEnds DEF CallPut, Chunk, ChunkEnd, BatchGood, EndOf
  <2>2. k \in Keys /\ d \in Payloads
    BY <1>0, <2>1, ItemOK
  <2>3. PutPlan(w, k, d, FALSE)
    BY <1>2 DEF CallPut
  <2> HIDE DEF k, d
  <2>4. PutStart(w, k, d, FALSE)
    BY <2>3 DEF PutStart, PutPlan
  <2>5. Begin(w, k)
    BY <2>2, <2>4, BatchersAssumption DEF Begin
  <2> QED
    BY <1>0, <2>2, <2>5 DEF Next
<1>3. ASSUME NEW w \in Batchers, CallGet(w) PROVE Next
  <2>1. PICK i \in batch[w].multi :
          LET k == KeyOf(w, i)
          IN  GetNoEntry(w, k) \/ GetMetaFails(w, k) \/ GetInline(w, k) \/ GetSharded(w, k)
    BY <1>3 DEF CallGet
  <2>2. i \in 1 .. Len(batch[w].items)
    BY <1>0 DEF BatchGood, Places
  <2> DEFINE k == KeyOf(w, i)
  <2>3. k \in Keys
    BY <1>0, <2>2, ItemOK
  <2>4. GetNoEntry(w, k) \/ GetMetaFails(w, k) \/ GetInline(w, k) \/ GetSharded(w, k)
    BY <2>1
  <2> HIDE DEF k
  <2>5. Begin(w, k)
    BY <2>4 DEF Begin
  <2> QED
    BY <1>0, <2>3, <2>5 DEF Next
<1>4. ASSUME NEW w \in Batchers, NEW i, WriteItem(w, i) PROVE Writes(w)
  <2>1. /\ batch[w].phase = "write" /\ i \in batch[w].todo /\ UNCHANGED <<local, offered>>
        /\ UNCHANGED <<meta, seg>> \/ Serve(BatchWrite(w, i))
        /\ HoldBack({BatchWrite(w, i)})
    BY <1>4 DEF WriteItem, Resent
  <2>2. BatchWrite(w, i) \in Sent(w)
    BY <2>1 DEF Sent
  <2>3. late' \subseteq late \cup Sent(w)
    BY <2>1, <2>2 DEF HoldBack
  <2> QED
    BY <2>1, <2>2, <2>3 DEF Writes
<1>5. ASSUME NEW w \in Batchers, WriteFails(w) PROVE Writes(w)
  BY <1>5 DEF WriteFails, Writes, HoldBack, Sent
<1>6. ASSUME NEW w \in Batchers, BatchStep(w)
      PROVE  [Next]_vars \/ Writes(w)
  BY <1>0, <1>2, <1>3, <1>4, <1>6
     DEF BatchStep, OpenChunk, CloseChunk, AfterPut, AfterGet, ReadItem, Next
<1>7. ASSUME NEW w \in Batchers, BatchTrouble(w)
      PROVE  [Next]_vars \/ Writes(w)
  BY <1>0, <1>5, <1>7 DEF BatchTrouble, ReadFails, Next, Environment
<1>8. ASSUME NEW w \in Workers \ Batchers,
             (\E k \in Keys : Begin(w, k)) \/ Progress(w) \/ Failure(w) \/ Crash(w)
      PROVE  Next
  BY <1>8 DEF Next, Environment
<1>9. ASSUME \/ \E r \in late : ServeLate(r)
             \/ \E k \in Keys : ExpireMeta(k)
             \/ \E k \in Keys, i \in Indices : ExpireSegment(k, i)
      PROVE  Next
  BY <1>9 DEF Next, Environment
<1>10. CASE UNCHANGED bvars
  BY <1>10 DEF bvars
<1> QED
  BY <1>1, <1>6, <1>7, <1>8, <1>9, <1>10 DEF BNext

(* A step of one call leaves the other lists alone.                        *)
LEMMA UpdateGood ==
    ASSUME ListsInv, NEW w \in Batchers, NEW c, BatchGood(w, c), Update(w, c)
    PROVE  ListsInv'
<1>1. c \in BatchRecord
  BY DEF BatchGood
<1>2. batch' \in [Batchers -> BatchRecord]
  BY <1>1 DEF ListsInv, Update
<1>3. ASSUME NEW v \in Batchers PROVE BatchGood(v, batch'[v])
  BY DEF ListsInv, Update
<1> QED
  BY <1>2, <1>3 DEF ListsInv

LEMMA NoBatchGood == \A w \in Batchers : BatchGood(w, NoBatch)
<1>1. <<>> \in Seq(Item)
  BY EmptySeq
<1> QED
  BY <1>1, NewList DEF NoBatch

(* Every step keeps the lists in order.                                    *)
LEMMA NextLists ==
    ASSUME ListsInv, StoreOK, LocalOK, [BNext]_bvars
    PROVE  ListsInv'
<1>0. \A w \in Batchers : BatchGood(w, batch[w])
  BY DEF ListsInv
<1>1. ASSUME NEW w \in Batchers, NEW kind \in {"put", "get"}, NEW items \in Batches,
             BeginBatch(w, kind, items)
      PROVE  ListsInv'
  <2>1. items \in Seq(Item) /\ items # <<>>
    BY BatchesAssumption DEF Item
  <2>2. BatchGood(w, Batch(kind, items, "chunk"))
    BY <2>1, NewList
  <2> QED
    BY <1>1, <2>2, UpdateGood DEF BeginBatch
<1>2. CASE UNCHANGED batch
  BY <1>2 DEF ListsInv
<1>3. ASSUME NEW w \in Batchers, BatchStep(w) PROVE ListsInv'
  <2>1. CASE UNCHANGED batch
    BY <1>2, <2>1
  <2>2. CASE \/ OpenChunk(w) \/ CloseChunk(w) \/ CallPut(w) \/ AfterPut(w)
             \/ CallGet(w) \/ AfterGet(w)
    BY <1>0, <2>2, OpenChunkGood, CloseChunkGood, CallPutGood, AfterPutGood, CallGetGood,
       AfterGetGood, UpdateGood
  <2>3. ASSUME NEW i \in DOMAIN batch[w].items, WriteItem(w, i) \/ ReadItem(w, i)
        PROVE  ListsInv'
    BY <1>0, <2>3, WriteItemGood, ReadItemGood, UpdateGood
  <2> QED
    BY <1>3, <2>1, <2>2, <2>3 DEF BatchStep
<1>4. ASSUME NEW w \in Batchers, BatchTrouble(w) PROVE ListsInv'
  <2>1. CASE UNCHANGED batch
    BY <1>2, <2>1
  <2>2. CASE WriteFails(w)
    BY <1>0, <2>2, CutShortGood, UpdateGood DEF WriteFails
  <2>3. CASE ReadFails(w)
    <3>1. batch[w].kind = "get"
      BY <1>0, <2>3 DEF ReadFails, BatchGood, Places
    <3> QED
      BY <1>0, <2>3, <3>1, CutShortGood, UpdateGood DEF ReadFails
  <2>4. CASE Update(w, NoBatch)
    BY <2>4, NoBatchGood, UpdateGood
  <2> QED
    BY <1>4, <2>1, <2>2, <2>3, <2>4 DEF BatchTrouble
<1> QED
  BY <1>1, <1>2, <1>3, <1>4 DEF BNext, bvars

(* The engine's invariant holds under the batched calls.                   *)
LEMMA NextEngine ==
    ASSUME ListsInv, IInv, [BNext]_bvars
    PROVE  IInv'
<1>1. CASE [Next]_vars
  BY <1>1, NextIInv
<1>2. CASE Offers
  <2>1. StoreOK' /\ OfferedOK'
    BY <1>2 DEF Offers, IInv, store, StoreOK, OfferedOK
  <2>2. LocalOK'
    BY <1>2 DEF Offers, IInv, local, LocalOK, WorkerOK, Idle
  <2> QED
    BY <2>1, <2>2 DEF IInv
<1>3. ASSUME NEW w \in Batchers, Writes(w) PROVE IInv'
  <2>1. Sent(w) \subseteq Requests
    BY <1>3, SentOK DEF ListsInv, Writes
  <2>2. StoreOK /\ LocalOK /\ OfferedOK /\ late' \subseteq Requests
    BY <1>3, <2>1 DEF IInv, StoreOK, Writes
  <2>3. ASSUME UNCHANGED <<meta, seg>> PROVE StoreOK'
    BY <2>2, <2>3 DEF StoreOK
  <2>4. ASSUME NEW r \in Sent(w), Serve(r) PROVE StoreOK'
    BY <2>1, <2>2, <2>4, ServeOK DEF StoreOK
  <2>5. StoreOK'
    BY <1>3, <2>2, <2>3, <2>4 DEF Writes, StoreOK
  <2>6. LocalOK' /\ OfferedOK'
    BY <1>3, <2>2 DEF Writes, local, LocalOK, WorkerOK, Idle, OfferedOK
  <2> QED
    BY <2>5, <2>6 DEF IInv
<1> QED
  BY <1>1, <1>2, <1>3, BatchForms DEF IInv

LEMMA InitLists == BInit => IInv /\ ListsInv
<1>1. BInit => ListsInv
  BY NoBatchGood DEF BInit, ListsInv, BatchGood
<1> QED
  BY <1>1, InitIInv DEF BInit

(* The lists of batched_put and batched_get_preallocated stay in order.    *)
LEMMA ListsStayInOrder == BSpec => [](IInv /\ ListsInv)
<1>1. IInv /\ ListsInv /\ [BNext]_bvars => IInv' /\ ListsInv'
  BY NextLists, NextEngine DEF IInv
<1> QED
  BY <1>1, InitLists, PTL DEF BSpec

(* batched_put returns one flag per item, in the order of the list, and it *)
(* is up exactly when the last write of the item was acknowledged: for     *)
(* lists of any length, cut into chunks of any size, single records and    *)
(* sharded ones mixed, with writes that fail one by one.                   *)
THEOREM FlagsTellTheTruth == BSpec => []FlagsTellWhatIsStored
<1>1. ListsInv => FlagsTellWhatIsStored
  <2> SUFFICES ASSUME ListsInv, NEW w \in Batchers,
                      batch[w].kind = "put", batch[w].phase = "returned"
               PROVE  /\ DOMAIN batch[w].flags = DOMAIN batch[w].items
                      /\ \A i \in DOMAIN batch[w].items : batch[w].flags[i] <=> i \in batch[w].done
    BY DEF FlagsTellWhatIsStored
  <2> DEFINE b == batch[w]
  <2>1. b \in BatchRecord /\ Places(b) /\ FlagsSay(b)
    BY DEF ListsInv, BatchGood
  <2>2. /\ DOMAIN b.flags = 1 .. Len(b.flags) /\ DOMAIN b.items = 1 .. Len(b.items)
        /\ Len(b.flags) = Len(b.items)
    BY <2>1 DEF BatchRecord, Places
  <2> HIDE DEF b
  <2>3. b.kind = "put"
    BY DEF b
  <2>4. \A i \in DOMAIN b.items : b.flags[i] <=> i \in b.done
    BY <2>1, <2>2, <2>3 DEF FlagsSay
  <2> QED
    BY <2>2, <2>4 DEF b
<1> QED
  BY <1>1, ListsStayInOrder, PTL

-----------------------------------------------------------------------------
(* What a list in work has been given, and what its raised flags stand     *)
(* for, when O is offered.                                                 *)
ListFrom(O, b) ==
    /\ b.kind = "put" /\ b.phase \notin Over =>
         \A i \in 1 .. Len(b.items) : b.items[i].data \in O[b.items[i].key]
    /\ b.kind = "get" =>
         \A i \in 1 .. Len(b.flags) : b.flags[i] => b.filled[i] \in O[b.items[i].key]

(* The call of get that the loop of list b waits for is about the item in  *)
(* work: p, r, f and j are the worker's pc, ret, buf and job.              *)
LoopCalls(p, r, f, j, b) ==
    b.phase = "get" =>
        \/ p = "idle" /\ (r = "hit" => f.key = b.items[b.at].key)
        \/ p \in {"getseg", "getcopy"} /\ j.key = b.items[b.at].key

CallsInv ==
    \A w \in Batchers :
        ListFrom(offered, batch[w]) /\ LoopCalls(pc[w], ret[w], buf[w], job[w], batch[w])

BatchedInv == IInv /\ FromInv /\ ListsInv /\ CallsInv

(* A batch_write sends whole payloads that were offered, to one record.    *)
LEMMA SentFrom ==
    ASSUME NEW w \in Batchers, BatchGood(w, batch[w]), batch[w].phase = "write",
           ListFrom(offered, batch[w]), NEW r \in Sent(w)
    PROVE  RequestFrom(offered[r.key], r)
<1>1. PICK i \in batch[w].todo : r = BatchWrite(w, i)
  BY DEF Sent
<1> DEFINE b == batch[w]
           k == KeyOf(w, i)
           d == DataOf(w, i)
<1>2. i \in b.offset + 1 .. EndOf(b) /\ i \in 1 .. Len(b.items) /\ b.kind = "put"
  BY ChunkEnds DEF BatchGood, Places
<1>3. d \in offered[k]
  BY <1>2 DEF ListFrom, KeyOf, DataOf, Over
<1>4. LayoutOf(w, d) # ConfigError /\ LayoutOf(w, d).nseg = 1
  BY <1>2 DEF BatchGood, WritesSingle, DataOf
<1>5. /\ r.kind = "put" /\ r.key = k /\ r.data = d /\ r.nseg = 1
      /\ r.crc = (w \in CrcWorkers)
  BY <1>1 DEF BatchWrite, PutRequest
<1>6. w \in Workers
  BY BatchersAssumption
<1> HIDE DEF k, d
<1>7. Laid(offered[k], d, 1)
  BY <1>3, <1>4, <1>6 DEF Laid
<1>8. AllCheck => r.crc
  BY <1>5, <1>6 DEF AllCheck
<1> QED
  BY <1>5, <1>7, <1>8 DEF RequestFrom

(* The bytes still come from puts, and what was offered stays offered.     *)
LEMMA BatchedFrom ==
    ASSUME Guarded, BatchedInv, [BNext]_bvars
    PROVE  FromInv' /\ \A k \in Keys : offered[k] \subseteq offered'[k]
<1>0. IInv /\ FromInv /\ ListsInv /\ CallsInv
  BY DEF BatchedInv
<1>1. CASE [Next]_vars
  <2>1. CASE UNCHANGED vars
    BY <1>0, <1>1, <2>1, NextFrom DEF vars
  <2>2. CASE Next
    <3>1. (\E w \in Workers : WorkerStep(w)) \/ (UNCHANGED <<local, offered>>)
      BY <1>0, <2>2, StepForms
    <3>2. \A k \in Keys : offered[k] \subseteq offered'[k]
      BY <1>0, <3>1, OffersGrow DEF FromInv
    <3> QED
      BY <1>0, <1>1, <3>2, NextFrom
  <2> QED
    BY <1>1, <2>1, <2>2
<1>2. ASSUME \A k \in Keys : offered[k] \subseteq offered'[k], UNCHANGED local
      PROVE  \A v \in Workers : WorkerFrom(v)'
  <2>1. \A v \in Workers : WorkerFrom(v)
    BY <1>0 DEF FromInv
  <2> QED
    BY <1>0, <1>2, <2>1, OthersFrom DEF local
<1>3. CASE Offers
  <2>1. /\ UNCHANGED local
        /\ \A k \in Keys : offered[k] \subseteq offered'[k] /\ offered'[k] \subseteq Rendered[k]
    BY <1>0, <1>3 DEF Offers, FromInv, StoreFrom
  <2>2. RecordsStep
    BY <1>3 DEF Offers, store, RecordsStep, Asked
  <2>3. StoreFrom'
    BY <1>0, <2>1, <2>2, StoreStaysFrom
  <2> QED
    BY <1>2, <2>1, <2>3 DEF FromInv
<1>4. ASSUME NEW w \in Batchers, Writes(w)
      PROVE  FromInv' /\ \A k \in Keys : offered[k] \subseteq offered'[k]
  <2>1. /\ BatchGood(w, batch[w]) /\ batch[w].phase = "write" /\ ListFrom(offered, batch[w])
        /\ UNCHANGED local /\ offered' = offered /\ late' \subseteq late \cup Sent(w)
        /\ UNCHANGED <<meta, seg>> \/ (\E r \in Sent(w) : Serve(r))
    BY <1>0, <1>4 DEF ListsInv, CallsInv, Writes
  <2>2. Sent(w) \subseteq Requests /\ \A r \in Sent(w) : RequestFrom(offered[r.key], r)
    BY <2>1, SentOK, SentFrom
  <2>3. \A r \in late' : RequestFrom(offered[r.key], r)
    BY <1>0, <2>1, <2>2 DEF FromInv, StoreFrom
  <2>4. ASSUME NEW r \in Sent(w), Serve(r)
        PROVE  /\ \A k \in Keys : meta'[k] # Absent => MetaFrom(offered[k], meta'[k])
               /\ \A k \in Keys, i \in Indices :
                    seg'[k][i] # Absent => Sliced(offered[k], i, seg'[k][i].frag)
    BY <1>0, <2>2, <2>4, ServeFrom
  <2>5. /\ \A k \in Keys : meta'[k] # Absent => MetaFrom(offered[k], meta'[k])
        /\ \A k \in Keys, i \in Indices :
             seg'[k][i] # Absent => Sliced(offered[k], i, seg'[k][i].frag)
    BY <1>0, <2>1, <2>4 DEF FromInv, StoreFrom
  <2>6. StoreFrom'
    BY <1>0, <2>1, <2>3, <2>5 DEF FromInv, StoreFrom
  <2> QED
    BY <1>2, <2>1, <2>6 DEF FromInv
<1> QED
  BY <1>0, <1>1, <1>3, <1>4, BatchForms DEF IInv

(* A step that raises no flag.                                             *)
LEMMA KeptList ==
    ASSUME NEW w \in Batchers, NEW b, BatchGood(w, b), NEW O, NEW P, ListFrom(O, b),
           \A k \in Keys : O[k] \subseteq P[k],
           NEW c, c.kind = b.kind, c.items = b.items,
           c.phase \notin Over => b.phase \notin Over,
           b.kind = "get" => c.flags = b.flags /\ c.filled = b.filled
    PROVE  ListFrom(P, c)
<1>1. b.items \in Seq(Item) /\ Len(b.items) \in Nat
  BY DEF BatchGood, BatchRecord
<1>2. \A i \in 1 .. Len(b.items) : b.items[i].key \in Keys
  <2> SUFFICES ASSUME NEW i \in 1 .. Len(b.items) PROVE b.items[i].key \in Keys
    OBVIOUS
  <2>1. b.items[i] \in Item
    BY <1>1
  <2> QED
    BY <2>1 DEF Item
<1>3. b.kind = "get" => Len(b.flags) = Len(b.items)
  BY DEF BatchGood, Places
<1> QED
  BY <1>2, <1>3 DEF ListFrom

(* The list of a call after a step of it.                                  *)
LEMMA OwnList ==
    ASSUME BatchedInv, NEW w \in Batchers, \A k \in Keys : offered[k] \subseteq offered'[k],
           \/ OpenChunk(w) \/ CloseChunk(w) \/ CallPut(w) \/ AfterPut(w)
           \/ CallGet(w) \/ AfterGet(w) \/ WriteFails(w) \/ ReadFails(w)
           \/ (\E i \in DOMAIN batch[w].items : WriteItem(w, i) \/ ReadItem(w, i))
    PROVE  ListFrom(offered', batch'[w])
<1> DEFINE b == batch[w]
           c == batch'[w]
<1>0. /\ BatchGood(w, b) /\ ListFrom(offered, b) /\ b \in BatchRecord /\ Places(b)
      /\ batch \in [Batchers -> BatchRecord] /\ w \in Workers
  BY BatchersAssumption DEF BatchedInv, ListsInv, CallsInv, BatchGood
<1>1. ASSUME c.kind = b.kind, c.items = b.items, b.phase \notin Over,
             b.kind = "get" => c.flags = b.flags /\ c.filled = b.filled
      PROVE  ListFrom(offered', batch'[w])
  <2> HIDE DEF b, c
  <2>1. ListFrom(offered', c)
    BY <1>0, <1>1, KeptList
  <2> QED
    BY <2>1 DEF c
<1>2. ASSUME NEW how, End(w, how), b.phase \notin Over PROVE ListFrom(offered', batch'[w])
  <2>1. c.kind = b.kind /\ c.items = b.items /\ c.flags = b.flags /\ c.filled = b.filled
    BY <1>0, <1>2 DEF End, Update, BatchRecord
  <2> QED
    BY <1>1, <1>2, <2>1
<1>r. ASSUME NEW i \in 1 .. Len(b.items), NEW d, d \in offered'[b.items[i].key], b.kind = "get",
             c.kind = b.kind, c.items = b.items, Len(c.flags) = Len(b.items), c.filled[i] = d,
             \A j \in 1 .. Len(b.items) :
                 j # i => c.flags[j] = b.flags[j] /\ c.filled[j] = b.filled[j]
      PROVE  ListFrom(offered', batch'[w])
  <2>1. ASSUME NEW j \in 1 .. Len(c.flags), c.flags[j]
        PROVE  c.filled[j] \in offered'[c.items[j].key]
    <3>0. j \in 1 .. Len(b.items) /\ b.items[j].key \in Keys
      <4>1. j \in 1 .. Len(b.items)
        BY <1>r, <2>1
      <4> QED
        BY <1>0, <4>1, ItemOK DEF KeyOf
    <3>1. CASE j = i
      BY <1>r, <3>1
    <3>2. CASE j # i
      <4>1. b.flags[j] /\ j \in 1 .. Len(b.flags)
        BY <1>0, <1>r, <2>1, <3>0, <3>2 DEF Places
      <4>2. b.filled[j] \in offered[b.items[j].key]
        BY <1>0, <1>r, <4>1 DEF ListFrom
      <4> QED
        BY <1>r, <3>0, <3>2, <4>2
    <3> QED
      BY <3>1, <3>2
  <2> QED
    BY <1>r, <2>1 DEF ListFrom
<1>f. /\ b.flags \in Seq(BOOLEAN) /\ b.filled \in Seq(Payloads \cup {NoData})
      /\ b.kind = "get" => /\ DOMAIN b.flags = 1 .. Len(b.items)
                           /\ DOMAIN b.filled = 1 .. Len(b.items)
  BY <1>0 DEF BatchRecord, Places
<1>l. ASSUME NEW i \in 1 .. Len(b.items), b.kind = "get"
      PROVE  Len([b.flags EXCEPT ![i] = TRUE]) = Len(b.items)
  <2>1. Len(b.flags) = Len(b.items)
    BY <1>0, <1>l DEF Places
  <2> QED
    BY <1>f, <2>1, ExceptSeq
<1>3. CASE OpenChunk(w)
  <2>1. /\ c.kind = b.kind /\ c.items = b.items /\ c.flags = b.flags /\ c.filled = b.filled
        /\ b.phase = "chunk"
    BY <1>0, <1>3 DEF OpenChunk, Update, BatchRecord
  <2> QED
    BY <1>1, <2>1 DEF Over
<1>4. CASE CloseChunk(w)
  <2>1. /\ c.kind = b.kind /\ c.items = b.items /\ c.filled = b.filled
        /\ b.phase # "write" => c.flags = b.flags
        /\ b.phase \in {"loop", "write", "read"}
    BY <1>0, <1>4 DEF CloseChunk, Update, BatchRecord
  <2>2. b.phase = "write" => b.kind = "put"
    BY <1>0 DEF Places
  <2> QED
    BY <1>1, <2>1, <2>2 DEF Over
<1>5. CASE CallPut(w) \/ WriteFails(w) \/ ReadFails(w)
  BY <1>2, <1>5 DEF CallPut, WriteFails, ReadFails, Over
<1>6. CASE AfterPut(w)
  <2>1. CASE End(w, "raised")
    BY <1>2, <1>6, <2>1 DEF AfterPut, Over
  <2>2. CASE ~End(w, "raised")
    <3>1. c.kind = b.kind /\ c.items = b.items /\ b.phase = "put"
      BY <1>0, <1>6, <2>2 DEF AfterPut, Update, BatchRecord
    <3>2. b.kind = "put"
      BY <1>0, <3>1 DEF Places
    <3> QED
      BY <1>1, <3>1, <3>2 DEF Over
  <2> QED
    BY <2>1, <2>2
<1>7. CASE CallGet(w)
  <2>1. /\ c.kind = b.kind /\ c.items = b.items /\ c.flags = b.flags /\ c.filled = b.filled
        /\ b.phase = "read"
    BY <1>0, <1>7 DEF CallGet, Update, BatchRecord
  <2> QED
    BY <1>1, <2>1 DEF Over
<1>8. ASSUME NEW i, WriteItem(w, i) PROVE ListFrom(offered', batch'[w])
  <2>1. /\ c.kind = b.kind /\ c.items = b.items /\ c.flags = b.flags /\ c.filled = b.filled
        /\ b.phase = "write"
    <3>1. \/ Update(w, [b EXCEPT !.todo = @ \ {i}, !.done = @ \cup {i}])
          \/ Update(w, [b EXCEPT !.todo = @ \ {i}])
      BY <1>8 DEF WriteItem
    <3>2. b.phase = "write"
      BY <1>8 DEF WriteItem
    <3>3. CASE Update(w, [b EXCEPT !.todo = @ \ {i}, !.done = @ \cup {i}])
      BY <1>0, <3>2, <3>3 DEF Update, BatchRecord
    <3>4. CASE Update(w, [b EXCEPT !.todo = @ \ {i}])
      BY <1>0, <3>2, <3>4 DEF Update, BatchRecord
    <3> QED
      BY <3>1, <3>3, <3>4
  <2> QED
    BY <1>1, <2>1 DEF Over
<1>9. CASE AfterGet(w)
  <2>0. /\ b.phase = "get" /\ b.kind = "get" /\ b.at \in 1 .. Len(b.items) /\ b.phase \notin Over
        /\ pc[w] = "idle"
    BY <1>0, <1>9 DEF AfterGet, Places, Over, Idle
  <2>1. CASE \E how : End(w, how)
    BY <1>2, <2>0, <2>1
  <2>2. CASE Update(w, [b EXCEPT !.phase = "read", !.multi = LeftToGet(w)])
    <3>1. c.kind = b.kind /\ c.items = b.items /\ c.flags = b.flags /\ c.filled = b.filled
      BY <1>0, <2>2 DEF Update, BatchRecord
    <3> QED
      BY <1>1, <2>0, <3>1
  <2>3. CASE /\ ret[w] = "hit"
             /\ Update(w, [b EXCEPT !.phase = "read", !.multi = LeftToGet(w),
                                    !.flags[b.at] = TRUE, !.filled[b.at] = Held(buf[w])])
    <3> DEFINE d == Held(buf[w])
    <3>1. buf[w].key = b.items[b.at].key
      BY <2>0, <2>3 DEF BatchedInv, CallsInv, LoopCalls
    <3>2. HitFrom(offered[buf[w].key], buf[w]) /\ buf[w].key \in Keys /\ OfferedOK
      BY <1>0, <2>3 DEF BatchedInv, FromInv, WorkerFrom, IInv
    <3>3. d \in offered[buf[w].key]
      BY <3>2, SentinelAssumption DEF HitFrom, Held, OfferedOK
    <3>4. d \in offered'[b.items[b.at].key]
      BY <3>1, <3>2, <3>3
    <3> HIDE DEF d
    <3>5. /\ c.kind = b.kind /\ c.items = b.items
          /\ c.flags = [b.flags EXCEPT ![b.at] = TRUE]
          /\ c.filled = [b.filled EXCEPT ![b.at] = d]
      BY <1>0, <2>3 DEF Update, BatchRecord, d
    <3> HIDE DEF b, c
    <3>e. /\ Len(c.flags) = Len(b.items) /\ c.filled[b.at] = d
          /\ \A j \in 1 .. Len(b.items) :
               j # b.at => c.flags[j] = b.flags[j] /\ c.filled[j] = b.filled[j]
      <4>1. Len(c.flags) = Len(b.items)
        BY <1>l, <2>0, <3>5
      <4> QED
        BY <1>f, <2>0, <3>5, <4>1
    <3> QED
      BY <1>r, <2>0, <3>4, <3>5, <3>e
  <2> QED
    BY <1>9, <2>1, <2>2, <2>3 DEF AfterGet
<1>10. ASSUME NEW i \in DOMAIN b.items, ReadItem(w, i) PROVE ListFrom(offered', batch'[w])
  <2> DEFINE k == KeyOf(w, i)
             m == meta[k]
             into == CallerBuffer(k, DataOf(w, i))
             copy == Copy(into, Inline(m.b))
  <2>0. /\ b.phase = "read" /\ b.kind = "get" /\ i \in 1 .. Len(b.items) /\ b.phase \notin Over
    <3>1. b.phase = "read"
      BY <1>10 DEF ReadItem
    <3>2. DOMAIN b.items = 1 .. Len(b.items)
      BY <1>0 DEF BatchRecord
    <3> QED
      BY <1>0, <1>10, <3>1, <3>2 DEF Places, Over
  <2>1. CASE \/ Update(w, [b EXCEPT !.todo = @ \ {i}])
             \/ Update(w, [b EXCEPT !.todo = @ \ {i}, !.multi = @ \cup {i}])
    <3>1. c.kind = b.kind /\ c.items = b.items /\ c.flags = b.flags /\ c.filled = b.filled
      <4>1. CASE Update(w, [b EXCEPT !.todo = @ \ {i}])
        BY <1>0, <4>1 DEF Update, BatchRecord
      <4>2. CASE Update(w, [b EXCEPT !.todo = @ \ {i}, !.multi = @ \cup {i}])
        BY <1>0, <4>2 DEF Update, BatchRecord
      <4> QED
        BY <2>1, <4>1, <4>2
    <3> QED
      BY <1>1, <2>0, <3>1
  <2>2. CASE /\ Ready(k) /\ m.b # NoData
             /\ Update(w, [b EXCEPT !.todo = @ \ {i}, !.filled[i] = Held(copy),
                                    !.flags[Place(b, i)] = TRUE])
    <3>1. k \in Keys /\ k = b.items[i].key
      BY <1>0, <2>0, ItemOK DEF KeyOf
    <3> HIDE DEF k
    <3>2. m \in MetaRecord /\ MetaFrom(offered[k], m)
      BY <2>2, <3>1 DEF Ready, BatchedInv, IInv, StoreOK, FromInv, StoreFrom
    <3>3. m.b \in offered[k] /\ m.b \in Payloads
      BY <2>2, <3>2 DEF MetaFrom, MetaRecord
    <3>4. Held(copy) = m.b
      <4>1. Size[m.b] \in Nat
        BY <3>3, SizeAssumption
      <4>2. into.n = 0 /\ into \in BufType
        <5>1. DataOf(w, i) \in Payloads
          BY <1>0, <2>0, ItemOK
        <5>2. Size[DataOf(w, i)] \in Nat
          BY <5>1, SizeAssumption
        <5>3. 0 \in 0 .. MaxSegs
          BY MaxSegsAssumption
        <5> QED
          BY <3>1, <5>2, <5>3 DEF CallerBuffer, NoBuf, BufType
      <4>3. Inline(m.b).lo = 0 /\ Inline(m.b).hi = Size[m.b] /\ Inline(m.b).data = m.b
        BY DEF Inline
      <4> HIDE DEF m, into
      <4>4. copy.of = m.b /\ copy.n = Size[m.b]
        BY <4>1, <4>2, <4>3 DEF Copy, BufType
      <4> QED
        BY <2>2, <4>4 DEF Held
    <3> DEFINE d == Held(copy)
    <3>5. d \in offered'[b.items[i].key]
      BY <3>1, <3>3, <3>4
    <3> HIDE DEF d
    <3>6. /\ c.kind = b.kind /\ c.items = b.items
          /\ c.flags = [b.flags EXCEPT ![i] = TRUE]
          /\ c.filled = [b.filled EXCEPT ![i] = d]
      BY <1>0, <2>2 DEF Update, BatchRecord, Place, d
    <3> HIDE DEF b, c
    <3>e. /\ Len(c.flags) = Len(b.items) /\ c.filled[i] = d
          /\ \A j \in 1 .. Len(b.items) :
               j # i => c.flags[j] = b.flags[j] /\ c.filled[j] = b.filled[j]
      <4>1. Len(c.flags) = Len(b.items)
        BY <1>l, <2>0, <3>6
      <4> QED
        BY <1>f, <2>0, <3>6, <4>1
    <3> QED
      BY <1>r, <2>0, <3>5, <3>6, <3>e
  <2> QED
    BY <1>10, <2>1, <2>2 DEF ReadItem
<1> QED
  BY <1>3, <1>4, <1>5, <1>6, <1>7, <1>8, <1>9, <1>10

(* The get that the loop calls is about the item in work.                  *)
LEMMA CallGetCalls ==
    ASSUME BatchedInv, NEW w \in Batchers, CallGet(w)
    PROVE  LoopCalls(pc'[w], ret'[w], buf'[w], job'[w], batch'[w])
<1> DEFINE b == batch[w]
           c == batch'[w]
<1>0. /\ BatchGood(w, b) /\ b \in BatchRecord /\ batch \in [Batchers -> BatchRecord]
      /\ w \in Workers
  BY BatchersAssumption DEF BatchedInv, ListsInv, BatchGood
<1>s. /\ pc \in [Workers -> PcType] /\ job \in [Workers -> JobType]
      /\ buf \in [Workers -> BufType] /\ ret \in [Workers -> Results]
  BY DEF BatchedInv, IInv, LocalOK
<1>1. PICK i \in b.multi :
         /\ \/ GetNoEntry(w, KeyOf(w, i)) \/ GetMetaFails(w, KeyOf(w, i))
            \/ GetInline(w, KeyOf(w, i)) \/ GetSharded(w, KeyOf(w, i))
         /\ Update(w, [b EXCEPT !.phase = "get", !.at = i])
  BY DEF CallGet
<1> DEFINE k == KeyOf(w, i)
<1>2. c.items[c.at].key = k
  BY <1>0, <1>1 DEF Update, BatchRecord, KeyOf
<1> HIDE DEF k, c
<1>3. ASSUME NEW r, NEW f, Return(w, r, f), r = "hit" => f.key = k
      PROVE  LoopCalls(pc'[w], ret'[w], buf'[w], job'[w], c)
  <2>1. pc'[w] = "idle" /\ ret'[w] = r /\ buf'[w] = f
    BY <1>0, <1>s, <1>3 DEF Return
  <2> QED
    BY <1>2, <1>3, <2>1 DEF LoopCalls
<1>4. CASE GetNoEntry(w, k) \/ GetMetaFails(w, k)
  <2>1. Return(w, "miss", NoBuf) \/ Return(w, "error", NoBuf)
    BY <1>4 DEF GetNoEntry, GetMetaFails
  <2> QED
    BY <1>3, <2>1 DEF c
<1>5. CASE GetInline(w, k)
  <2>1. PICK f \in ReadBuffers(k, meta[k]) :
          \/ Return(w, "miss", f)
          \/ Return(w, "error", Release(f))
          \/ FinishGet(w, meta[k], Copy(f, Inline(meta[k].b)))
    BY <1>5 DEF GetInline
  <2>2. f.key = k /\ DOMAIN f = DOMAIN NoBuf
    BY DEF ReadBuffers, FreshBuffer, CallerBuffer, NoBuf
  <2>3. Copy(f, Inline(meta[k].b)).key = k
    BY <2>2 DEF Copy, NoBuf
  <2>4. \/ Return(w, "miss", f) \/ Return(w, "error", Release(f))
        \/ Return(w, "miss", Release(Copy(f, Inline(meta[k].b))))
        \/ Return(w, "error", Release(Copy(f, Inline(meta[k].b))))
        \/ Return(w, "hit", Copy(f, Inline(meta[k].b)))
    BY <2>1 DEF FinishGet
  <2> QED
    BY <1>3, <2>3, <2>4 DEF c
<1>6. CASE GetSharded(w, k)
  <2>1. pc'[w] = "getseg" /\ job'[w].key = k
    BY <1>0, <1>s, <1>6 DEF GetSharded, NoJob
  <2> QED
    BY <1>2, <2>1 DEF LoopCalls, c
<1> QED
  BY <1>1, <1>4, <1>5, <1>6 DEF k

(* While the loop waits for it, get goes on with that item.                *)
LEMMA ProgressCalls ==
    ASSUME BatchedInv, NEW w \in Batchers, Progress(w) \/ Failure(w), batch' = batch
    PROVE  LoopCalls(pc'[w], ret'[w], buf'[w], job'[w], batch'[w])
<1> DEFINE b == batch[w]
           k == b.items[b.at].key
<1> SUFFICES ASSUME b.phase = "get"
             PROVE  \/ pc'[w] = "idle" /\ (ret'[w] = "hit" => buf'[w].key = k)
                    \/ pc'[w] \in {"getseg", "getcopy"} /\ job'[w].key = k
  BY DEF LoopCalls
<1>s. /\ pc \in [Workers -> PcType] /\ job \in [Workers -> JobType]
      /\ buf \in [Workers -> BufType] /\ ret \in [Workers -> Results] /\ w \in Workers
  BY BatchersAssumption DEF BatchedInv, IInv, LocalOK
<1>1. pc[w] \in {"idle", "getseg", "getcopy"} /\ (pc[w] # "idle" => job[w].key = k)
  BY DEF BatchedInv, CallsInv, LoopCalls
<1>2. (\E i \in Indices : GetSegment(w, i)) \/ GetCopy(w) \/ GetSegmentsFail(w)
  BY <1>1 DEF Progress, Failure, PutSegment, PutMeta, PutFails, PinWrite, PinWriteFails,
              UnpinWrite, UnpinWriteFails, RemoveMeta, RemoveMetaFails, RemoveSegment,
              RemoveSegmentsFail
<1>3. pc[w] # "idle" /\ job[w].key = k
  BY <1>1, <1>2 DEF GetSegment, GetCopy, GetSegmentsFail
<1>4. buf[w].key = k
  BY <1>s, <1>1, <1>3 DEF BatchedInv, FromInv, WorkerFrom, Reading, BufferFor
<1> HIDE DEF k, b
<1>5. ASSUME NEW r, NEW f, Return(w, r, f), r = "hit" => f.key = k
      PROVE  pc'[w] = "idle" /\ (ret'[w] = "hit" => buf'[w].key = k)
  BY <1>s, <1>5 DEF Return
<1>6. ASSUME NEW i \in Indices, GetSegment(w, i)
      PROVE  pc'[w] \in {"getseg", "getcopy"} /\ job'[w].key = k
  BY <1>s, <1>3, <1>6 DEF GetSegment
<1>7. CASE GetSegmentsFail(w)
  BY <1>5, <1>7 DEF GetSegmentsFail
<1>8. CASE GetCopy(w)
  <2> DEFINE f == Copy(buf[w], got[w][buf[w].next])
  <2>1. f.key = k
    BY <1>s, <1>4 DEF Copy, BufType
  <2>2. \/ Return(w, "miss", Release(buf[w])) \/ Return(w, "error", Release(buf[w]))
        \/ Return(w, "miss", Release(f)) \/ Return(w, "error", Release(f))
        \/ Return(w, "hit", f)
        \/ UNCHANGED <<pc, job>>
    BY <1>8 DEF GetCopy, FinishGet
  <2> HIDE DEF f
  <2>3. CASE UNCHANGED <<pc, job>>
    BY <1>1, <1>3, <2>3
  <2> QED
    BY <1>5, <2>1, <2>2, <2>3
<1> QED
  BY <1>2, <1>6, <1>7, <1>8

(* A call whose worker does not move.                                      *)
LEMMA OtherCalls ==
    ASSUME BatchedInv, NEW v \in Batchers, \A k \in Keys : offered[k] \subseteq offered'[k],
           batch'[v] = batch[v],
           pc'[v] = pc[v], job'[v] = job[v], buf'[v] = buf[v], ret'[v] = ret[v]
    PROVE  /\ ListFrom(offered', batch'[v])
           /\ LoopCalls(pc'[v], ret'[v], buf'[v], job'[v], batch'[v])
<1>1. /\ BatchGood(v, batch[v]) /\ ListFrom(offered, batch[v])
      /\ LoopCalls(pc[v], ret[v], buf[v], job[v], batch[v])
  BY DEF BatchedInv, ListsInv, CallsInv
<1>2. ListFrom(offered', batch[v])
  BY <1>1, KeptList
<1> QED
  BY <1>1, <1>2

(* A step of call w alone leaves the other calls as they are.              *)
LEMMA OneCalls ==
    ASSUME BatchedInv, NEW w \in Batchers, \A k \in Keys : offered[k] \subseteq offered'[k],
           NEW b, Update(w, b), UNCHANGED local \/ WorkerStep(w),
           ListFrom(offered', batch'[w]),
           LoopCalls(pc'[w], ret'[w], buf'[w], job'[w], batch'[w])
    PROVE  CallsInv'
<1> SUFFICES ASSUME NEW v \in Batchers
             PROVE  /\ ListFrom(offered', batch'[v])
                    /\ LoopCalls(pc'[v], ret'[v], buf'[v], job'[v], batch'[v])
  BY DEF CallsInv
<1>1. CASE v = w
  BY <1>1
<1>2. CASE v # w
  <2>1. batch'[v] = batch[v]
    BY <1>2 DEF Update, BatchedInv, ListsInv
  <2>2. pc'[v] = pc[v] /\ job'[v] = job[v] /\ buf'[v] = buf[v] /\ ret'[v] = ret[v]
    <3>1. CASE UNCHANGED local
      BY <3>1 DEF local
    <3>2. CASE WorkerStep(w)
      BY <1>2, <3>2, OneMoves, BatchersAssumption DEF BatchedInv
    <3> QED
      BY <3>1, <3>2
  <2> QED
    BY <2>1, <2>2, OtherCalls
<1> QED
  BY <1>1, <1>2

(* A worker moves inside put or get, or on its own.                        *)
LEMMA MoverCalls ==
    ASSUME BatchedInv, \A k \in Keys : offered[k] \subseteq offered'[k], batch' = batch,
           NEW w \in Workers, WorkerStep(w),
           w \in Batchers => Progress(w) \/ Failure(w)
    PROVE  CallsInv'
<1> SUFFICES ASSUME NEW v \in Batchers
             PROVE  /\ ListFrom(offered', batch'[v])
                    /\ LoopCalls(pc'[v], ret'[v], buf'[v], job'[v], batch'[v])
  BY DEF CallsInv
<1>1. CASE v = w
  <2>1. BatchGood(v, batch[v]) /\ ListFrom(offered, batch[v])
    BY DEF BatchedInv, ListsInv, CallsInv
  <2>2. ListFrom(offered', batch[v])
    BY <2>1, KeptList
  <2> QED
    BY <1>1, <2>2, ProgressCalls
<1>2. CASE v # w
  <2>1. pc'[v] = pc[v] /\ job'[v] = job[v] /\ buf'[v] = buf[v] /\ ret'[v] = ret[v]
    BY <1>2, OneMoves, BatchersAssumption DEF BatchedInv
  <2> QED
    BY <2>1, OtherCalls
<1> QED
  BY <1>1, <1>2

(* The lists keep what their flags stand for, and their calls.             *)
LEMMA NextCalls ==
    ASSUME Guarded, BatchedInv, [BNext]_bvars
    PROVE  CallsInv'
<1>0. \A k \in Keys : offered[k] \subseteq offered'[k]
  BY BatchedFrom
<1>i. IInv /\ ListsInv /\ batch \in [Batchers -> BatchRecord]
      /\ \A w \in Batchers : w \in Workers /\ BatchGood(w, batch[w]) /\ batch[w] \in BatchRecord
  BY BatchersAssumption DEF BatchedInv, ListsInv, BatchGood
<1>q. ASSUME UNCHANGED batch, UNCHANGED local PROVE CallsInv'
  <2> SUFFICES ASSUME NEW v \in Batchers
               PROVE  /\ ListFrom(offered', batch'[v])
                      /\ LoopCalls(pc'[v], ret'[v], buf'[v], job'[v], batch'[v])
    BY DEF CallsInv
  <2> QED
    BY <1>0, <1>q, OtherCalls DEF local
<1>1. ASSUME NEW w \in Batchers, NEW kind \in {"put", "get"}, NEW items \in Batches,
             BeginBatch(w, kind, items)
      PROVE  CallsInv'
  <2> DEFINE b == Batch(kind, items, "chunk")
  <2>1. Update(w, b) /\ UNCHANGED local
    BY <1>1 DEF BeginBatch
  <2>2. batch'[w] = b
    BY <1>i, <2>1 DEF Update
  <2>3. items \in Seq(Item) /\ DOMAIN items = 1 .. Len(items)
    <3>1. items \in Seq(Item)
      BY BatchesAssumption DEF Item
    <3> QED
      BY <3>1
  <2>4. ListFrom(offered', b)
    <3>1. CASE kind = "get"
      <4>1. b.kind = "get" /\ b.flags = [i \in 1 .. Len(items) |-> FALSE]
        BY <2>3, <3>1 DEF Batch
      <4>2. Len(b.flags) = Len(items)
        <5>1. BatchGood(w, b)
          BY <1>1, BatchesAssumption, <2>3, NewList
        <5>2. b.items = items
          BY DEF Batch
        <5> HIDE DEF b
        <5> QED
          BY <4>1, <5>1, <5>2 DEF BatchGood, Places
      <4>3. \A i \in 1 .. Len(b.flags) : ~b.flags[i]
        BY <4>1, <4>2
      <4> HIDE DEF b
      <4> QED
        BY <4>1, <4>3 DEF ListFrom
    <3>2. CASE kind = "put"
      <4>1. b.kind = "put" /\ b.items = items
        BY <3>2 DEF Batch
      <4>2. ASSUME NEW i \in 1 .. Len(items) PROVE items[i].data \in offered'[items[i].key]
        <5>1. items[i] \in Item
          BY <2>3
        <5>2. items[i].key \in Keys
          BY <5>1 DEF Item
        <5>3. items[i].data \in {items[j].data :
                 j \in {l \in DOMAIN items : items[l].key = items[i].key}}
          BY <2>3
        <5>4. offered' = [k \in Keys |-> offered[k] \cup
                 {items[j].data : j \in {l \in DOMAIN items : items[l].key = k}}]
          BY <1>1, <3>2 DEF BeginBatch
        <5> QED
          BY <5>2, <5>3, <5>4
      <4> HIDE DEF b
      <4> QED
        BY <4>1, <4>2 DEF ListFrom
    <3> QED
      BY <3>1, <3>2
  <2>5. LoopCalls(pc'[w], ret'[w], buf'[w], job'[w], b)
    BY DEF LoopCalls, Batch
  <2> HIDE DEF b
  <2> QED
    BY <1>0, <2>1, <2>2, <2>4, <2>5, OneCalls
<1>2. ASSUME NEW w \in Batchers, NEW b, Update(w, b), UNCHANGED local \/ WorkerStep(w),
             batch'[w].phase # "get",
             \/ OpenChunk(w) \/ CloseChunk(w) \/ CallPut(w) \/ AfterPut(w)
             \/ AfterGet(w) \/ WriteFails(w) \/ ReadFails(w)
             \/ (\E i \in DOMAIN batch[w].items : WriteItem(w, i) \/ ReadItem(w, i))
      PROVE  CallsInv'
  <2>2. ListFrom(offered', batch'[w])
    BY <1>0, <1>2, OwnList
  <2>3. LoopCalls(pc'[w], ret'[w], buf'[w], job'[w], batch'[w])
    BY <1>2 DEF LoopCalls
  <2> QED
    BY <1>0, <1>2, <2>2, <2>3, OneCalls
<1>e. ASSUME NEW w \in Batchers, NEW how, how # "get", End(w, how)
      PROVE  (\E b : Update(w, b)) /\ batch'[w].phase # "get"
  BY <1>i, <1>e DEF End, Update, BatchRecord
<1>3. ASSUME NEW w \in Batchers, OpenChunk(w) \/ CloseChunk(w) PROVE CallsInv'
  <2>1. (\E b : Update(w, b)) /\ UNCHANGED local
    BY <1>3 DEF OpenChunk, CloseChunk, vars, local
  <2>2. batch'[w].phase # "get"
    <3>1. CASE OpenChunk(w)
      BY <1>i, <3>1 DEF OpenChunk, Update, BatchRecord
    <3>2. CASE CloseChunk(w)
      BY <1>i, <3>2 DEF CloseChunk, Update, BatchRecord
    <3> QED
      BY <1>3, <3>1, <3>2
  <2> QED
    BY <1>2, <1>3, <2>1, <2>2
<1>4. ASSUME NEW w \in Batchers, AfterPut(w) PROVE CallsInv'
  <2>1. (\E b : Update(w, b)) /\ UNCHANGED local
    BY <1>4 DEF AfterPut, End, vars, local
  <2>2. batch'[w].phase # "get"
    <3>1. CASE End(w, "raised")
      BY <1>e, <3>1
    <3>2. CASE ~End(w, "raised")
      BY <1>i, <1>4, <3>2 DEF AfterPut, Update, BatchRecord
    <3> QED
      BY <3>1, <3>2
  <2> QED
    BY <1>2, <1>4, <2>1, <2>2
<1>g. ASSUME NEW w \in Batchers, AfterGet(w) PROVE CallsInv'
  <2> DEFINE b == batch[w]
  <2>1. (\E c : Update(w, c)) /\ UNCHANGED local
    BY <1>g DEF AfterGet, End, vars, local
  <2>2. batch'[w].phase # "get"
    <3>1. CASE \E how \in {"returned", "raised"} : End(w, how)
      BY <1>e, <3>1
    <3>2. CASE Update(w, [b EXCEPT !.phase = "read", !.multi = LeftToGet(w)])
      BY <1>i, <3>2 DEF Update, BatchRecord
    <3>3. CASE Update(w, [b EXCEPT !.phase = "read", !.multi = LeftToGet(w),
                                   !.flags[b.at] = TRUE, !.filled[b.at] = Held(buf[w])])
      BY <1>i, <3>3 DEF Update, BatchRecord
    <3> QED
      BY <1>g, <3>1, <3>2, <3>3 DEF AfterGet
  <2> QED
    BY <1>2, <1>g, <2>1, <2>2
<1>5. ASSUME NEW w \in Batchers, WriteFails(w) \/ ReadFails(w) PROVE CallsInv'
  <2>1. (\E b : Update(w, b)) /\ batch'[w].phase # "get"
    BY <1>e, <1>5 DEF WriteFails, ReadFails
  <2>2. UNCHANGED local
    BY <1>5 DEF WriteFails, ReadFails, vars, local
  <2> QED
    BY <1>2, <1>5, <2>1, <2>2
<1>6. ASSUME NEW w \in Batchers, NEW i \in DOMAIN batch[w].items, WriteItem(w, i)
      PROVE  CallsInv'
  <2> DEFINE b == batch[w]
  <2>1. UNCHANGED local /\ b.phase = "write"
    BY <1>6 DEF WriteItem, local
  <2>2. \/ Update(w, [b EXCEPT !.todo = @ \ {i}, !.done = @ \cup {i}])
        \/ Update(w, [b EXCEPT !.todo = @ \ {i}])
    BY <1>6 DEF WriteItem
  <2>3. batch'[w].phase = b.phase
    <3>1. CASE Update(w, [b EXCEPT !.todo = @ \ {i}, !.done = @ \cup {i}])
      BY <1>i, <3>1 DEF Update, BatchRecord
    <3>2. CASE Update(w, [b EXCEPT !.todo = @ \ {i}])
      BY <1>i, <3>2 DEF Update, BatchRecord
    <3> QED
      BY <2>2, <3>1, <3>2
  <2>4. \E c : Update(w, c)
    BY <2>2
  <2> QED
    BY <1>2, <1>6, <2>1, <2>3, <2>4
<1>r. ASSUME NEW w \in Batchers, NEW i \in DOMAIN batch[w].items, ReadItem(w, i)
      PROVE  CallsInv'
  <2> DEFINE b == batch[w]
             k == KeyOf(w, i)
             copy == Copy(CallerBuffer(k, DataOf(w, i)), Inline(meta[k].b))
  <2>1. UNCHANGED local /\ b.phase = "read"
    BY <1>r DEF ReadItem, vars, local
  <2>2. \/ Update(w, [b EXCEPT !.todo = @ \ {i}])
        \/ Update(w, [b EXCEPT !.todo = @ \ {i}, !.multi = @ \cup {i}])
        \/ Update(w, [b EXCEPT !.todo = @ \ {i}, !.filled[i] = Held(copy),
                               !.flags[Place(b, i)] = TRUE])
    BY <1>r DEF ReadItem
  <2>3. batch'[w].phase = b.phase
    <3>1. CASE Update(w, [b EXCEPT !.todo = @ \ {i}])
      BY <1>i, <3>1 DEF Update, BatchRecord
    <3>2. CASE Update(w, [b EXCEPT !.todo = @ \ {i}, !.multi = @ \cup {i}])
      BY <1>i, <3>2 DEF Update, BatchRecord
    <3>3. CASE Update(w, [b EXCEPT !.todo = @ \ {i}, !.filled[i] = Held(copy),
                                   !.flags[Place(b, i)] = TRUE])
      <4> HIDE DEF copy
      <4> QED
        BY <1>i, <3>3 DEF Update, BatchRecord
    <3> QED
      BY <2>2, <3>1, <3>2, <3>3
  <2>4. \E c : Update(w, c)
    BY <2>2
  <2> QED
    BY <1>2, <1>r, <2>1, <2>3, <2>4
<1>7. ASSUME NEW w \in Batchers, CallPut(w) PROVE CallsInv'
  <2> DEFINE i == batch[w].at
             b == [batch[w] EXCEPT !.phase = "put"]
  <2>1. /\ Update(w, b) /\ batch'[w].phase # "get"
        /\ PutPlan(w, KeyOf(w, i), DataOf(w, i), FALSE)
    BY <1>e, <1>7 DEF CallPut, End
  <2>2. i \in 1 .. Len(batch[w].items)
    BY <1>i, <1>7, ChunkEnds DEF CallPut, Chunk, ChunkEnd, EndOf
  <2>3. KeyOf(w, i) \in Keys /\ DataOf(w, i) \in Payloads
    BY <1>i, <2>2, ItemOK
  <2>4. WorkerStep(w)
    BY <2>1, <2>3, BatchersAssumption DEF WorkerStep
  <2> HIDE DEF b
  <2> QED
    BY <1>2, <1>7, <2>1, <2>4
<1>8. ASSUME NEW w \in Batchers, CallGet(w) PROVE CallsInv'
  <2>1. PICK i \in batch[w].multi :
         /\ \/ GetNoEntry(w, KeyOf(w, i)) \/ GetMetaFails(w, KeyOf(w, i))
            \/ GetInline(w, KeyOf(w, i)) \/ GetSharded(w, KeyOf(w, i))
         /\ Update(w, [batch[w] EXCEPT !.phase = "get", !.at = i])
    BY <1>8 DEF CallGet
  <2>2. i \in 1 .. Len(batch[w].items)
    BY <1>i DEF BatchGood, Places
  <2>3. KeyOf(w, i) \in Keys
    BY <1>i, <2>2, ItemOK
  <2>4. WorkerStep(w)
    <3>1. 0 \in Indices
      BY MaxSegsAssumption DEF Indices
    <3> QED
      BY <1>i, <2>1, <2>3, <3>1, GetForms
  <2>5. ListFrom(offered', batch'[w])
    BY <1>0, <1>8, OwnList
  <2>6. LoopCalls(pc'[w], ret'[w], buf'[w], job'[w], batch'[w])
    BY <1>8, CallGetCalls
  <2> QED
    BY <1>0, <2>1, <2>4, <2>5, <2>6, OneCalls
<1>9. ASSUME NEW w \in Batchers, Progress(w) \/ Failure(w), UNCHANGED batch PROVE CallsInv'
  <2>1. WorkerStep(w)
    BY <1>i, <1>9, WorkerForms
  <2> QED
    BY <1>0, <1>i, <1>9, <2>1, MoverCalls
<1>10. ASSUME NEW w \in Batchers, Crash(w), Update(w, NoBatch) PROVE CallsInv'
  <2>1. WorkerStep(w)
    BY <1>i, <1>10, WorkerForms
  <2>2. batch'[w] = NoBatch /\ NoBatch.kind = "put" /\ NoBatch.phase = "none"
    BY <1>i, <1>10 DEF Update, NoBatch, Batch
  <2>3. /\ ListFrom(offered', batch'[w])
        /\ LoopCalls(pc'[w], ret'[w], buf'[w], job'[w], batch'[w])
    BY <2>2 DEF ListFrom, LoopCalls, Over
  <2> QED
    BY <1>0, <1>10, <2>1, <2>3, OneCalls
<1>11. ASSUME NEW w \in Workers \ Batchers, UNCHANGED batch,
              (\E k \in Keys : Begin(w, k)) \/ Progress(w) \/ Failure(w) \/ Crash(w)
       PROVE  CallsInv'
  <2>1. WorkerStep(w)
    BY <1>i, <1>11, WorkerForms
  <2> QED
    BY <1>0, <1>11, <2>1, MoverCalls
<1>12. ASSUME UNCHANGED batch,
              \/ \E r \in late : ServeLate(r)
              \/ \E k \in Keys : ExpireMeta(k)
              \/ \E k \in Keys, i \in Indices : ExpireSegment(k, i)
       PROVE  CallsInv'
  <2>1. UNCHANGED local
    BY <1>12 DEF ServeLate, ExpireMeta, ExpireSegment
  <2> QED
    BY <1>12, <1>q, <2>1
<1>13. CASE UNCHANGED bvars
  BY <1>13, <1>q DEF bvars, vars, local
<1>14. ASSUME NEW w \in Batchers, BatchStep(w) PROVE CallsInv'
  BY <1>3, <1>4, <1>6, <1>7, <1>8, <1>9, <1>g, <1>r, <1>14 DEF BatchStep
<1>15. ASSUME NEW w \in Batchers, BatchTrouble(w) PROVE CallsInv'
  BY <1>5, <1>9, <1>10, <1>15 DEF BatchTrouble
<1> QED
  BY <1>1, <1>11, <1>12, <1>13, <1>14, <1>15 DEF BNext

(* A flag that batched_get_preallocated raised stands for a buffer, at its *)
(* place of the list, that holds a payload put for that key, whole: for    *)
(* lists of any length and chunks of any size, whatever is put, removed,   *)
(* expired or served late meanwhile, and also when a timeout cuts the call *)
(* short; provided that keys are content addressed and the engines agree   *)
(* on the layout, or that all engines keep checksums.                      *)
THEOREM RaisedFlagsAreFilled ==
    ASSUME Guarded
    PROVE  BSpec => []FlaggedIsFilled
<1>1. BInit => BatchedInv
  <2> SUFFICES ASSUME BInit PROVE BatchedInv
    OBVIOUS
  <2>1. IInv /\ ListsInv /\ FromInv
    BY InitLists, InitFrom DEF BInit
  <2>2. NoBatch.kind = "put" /\ NoBatch.phase = "none"
    BY DEF NoBatch, Batch
  <2>3. ASSUME NEW w \in Batchers
        PROVE  /\ ListFrom(offered, batch[w])
               /\ LoopCalls(pc[w], ret[w], buf[w], job[w], batch[w])
    <3>1. batch[w] = NoBatch
      BY DEF BInit
    <3> QED
      BY <2>2, <3>1 DEF ListFrom, LoopCalls, Over
  <2> QED
    BY <2>1, <2>3 DEF BatchedInv, CallsInv
<1>2. BatchedInv /\ [BNext]_bvars => BatchedInv'
  <2> SUFFICES ASSUME BatchedInv, [BNext]_bvars PROVE BatchedInv'
    OBVIOUS
  <2>1. IInv' /\ ListsInv'
    BY NextEngine, NextLists DEF BatchedInv, IInv
  <2>2. FromInv' /\ CallsInv'
    BY BatchedFrom, NextCalls
  <2> QED
    BY <2>1, <2>2 DEF BatchedInv
<1>3. BatchedInv => FlaggedIsFilled
  <2> SUFFICES ASSUME BatchedInv, NEW w \in Batchers, batch[w].kind = "get",
                      NEW i \in DOMAIN batch[w].flags, batch[w].flags[i]
               PROVE  batch[w].filled[i] \in offered[KeyOf(w, i)]
    BY DEF FlaggedIsFilled
  <2>1. BatchGood(w, batch[w]) /\ ListFrom(offered, batch[w])
    BY DEF BatchedInv, ListsInv, CallsInv
  <2>2. i \in 1 .. Len(batch[w].flags)
    BY <2>1 DEF BatchGood, BatchRecord
  <2> QED
    BY <2>1, <2>2 DEF ListFrom, KeyOf
<1> QED
  BY <1>1, <1>2, <1>3, PTL DEF BSpec
=============================================================================
