--------------------------- MODULE MCServerConn ---------------------------
(* ServerConn on small sets; handles and workers are interchangeable. *)
EXTENDS ServerConn, TLC

Perms == Permutations(Handles) \cup Permutations(Workers)
=============================================================================
