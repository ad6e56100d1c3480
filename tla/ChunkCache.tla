----------------------------- MODULE ChunkCache -----------------------------
(***************************************************************************)
(* What the storage engine promises LMCache, without records, segments or  *)
(* requests: a map from keys to chunks that forgets at will and never      *)
(* invents.  An entry appears or changes in one step, whole, and is one    *)
(* of the chunks callers gave for that key; an answer is one of them too.  *)
(***************************************************************************)
CONSTANTS Keys, Clients, Chunks, Nothing

VARIABLES given,   \* given[k]: the chunks handed in for k
          entry,   \* entry[k]: the chunk a lookup finds, or Nothing
          answer   \* answer[c]: the key and chunk client c holds, or Nothing

vars == <<given, entry, answer>>

Init == /\ given = [k \in Keys |-> {}]
        /\ entry = [k \in Keys |-> Nothing]
        /\ answer = [c \in Clients |-> Nothing]

(* A client hands in a chunk and gives up the answer it had.               *)
Offer(c, k) ==
    /\ \E d \in Chunks : given' = [given EXCEPT ![k] = @ \cup {d}]
    /\ answer' = [answer EXCEPT ![c] = Nothing]
    /\ UNCHANGED entry

(* One of the chunks handed in becomes the entry.                          *)
Store(k) ==
    /\ \E d \in given[k] : entry' = [entry EXCEPT ![k] = d]
    /\ UNCHANGED <<given, answer>>

(* The entry goes away: it expires, is evicted, removed or half replaced.  *)
Lose(k) ==
    /\ entry' = [entry EXCEPT ![k] = Nothing]
    /\ UNCHANGED <<given, answer>>

(* A client gets an answer, which may be nothing.                          *)
Answer(c, k) ==
    /\ \E a \in {Nothing} \cup [key : {k}, data : given[k]] :
           answer' = [answer EXCEPT ![c] = a]
    /\ UNCHANGED <<given, entry>>

Next == \E c \in Clients, k \in Keys : Offer(c, k) \/ Store(k) \/ Lose(k) \/ Answer(c, k)

Spec == Init /\ [][Next]_vars
=============================================================================
