------------------------- MODULE MCRemoteConnector -------------------------
(* Two concurrent calls of any kind, batches of two and lists of three.    *)
EXTENDS RemoteConnector

AnyCall == [kind : {"get", "put"}, n : {1}]
           \cup [kind : {"batched_get", "batched_put"}, n : {2}]
           \cup [kind : {"non_blocking"}, n : {3}]
GetsTimeOut == {"get", "batched_get"}
TwoPuts == [kind : {"batched_put"}, n : {2}]
NoTimeouts == {}
=============================================================================
