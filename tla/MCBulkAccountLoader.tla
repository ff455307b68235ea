------------------------ MODULE MCBulkAccountLoader ------------------------
(* A subscriber, a caller of load(), and a request for other accounts.     *)
EXTENDS BulkAccountLoader

CONSTANTS ann, k1
MCAccountOf == [s \in {ann} |-> k1]
MCBatchOf == [k \in {k1} |-> 1]
=============================================================================
