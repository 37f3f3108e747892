----------------------------- MODULE MCLogPool -----------------------------
(* The main thread logs twice and a client's thread once. *)
EXTENDS LogPool

CONSTANTS main, client

MCThreads == {main, client}
MCSayMax == [p \in MCThreads |-> IF p = main THEN 2 ELSE 1]
=============================================================================
