--------------------------- MODULE MCRecvBuffer ---------------------------
(* A client that sends frames of two, three, two and three units. *)
EXTENDS RecvBuffer

Frames == [k \in {1, 3, 6, 8} |-> IF k \in {3, 8} THEN 3 ELSE 2]
Bytes == 10
=============================================================================
