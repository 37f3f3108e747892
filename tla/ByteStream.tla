---------------------------- MODULE ByteStream ----------------------------
(***************************************************************************)
(* What a connection's buffer promises in either direction: bytes come out *)
(* in the order they went in, each once, none invented.  The k-th byte of  *)
(* the stream is the number k.                                             *)
(***************************************************************************)
EXTENDS Integers

CONSTANT StreamLen   \* bound on the bytes of the stream

VARIABLES
  put,    \* bytes the producer has saved
  got,    \* bytes the consumer has taken
  last    \* the bytes of its last taking, in order

Init ==
  /\ put = 0
  /\ got = 0
  /\ last = <<>>

Put(n) ==
  /\ put' = put + n
  /\ UNCHANGED <<got, last>>

Get(n) ==
  /\ n <= put - got
  /\ got' = got + n
  /\ last' = [i \in 1 .. n |-> got + i]
  /\ UNCHANGED put

Next == \E n \in 1 .. StreamLen : Put(n) \/ Get(n)

Spec == Init /\ [][Next]_<<put, got, last>>
=============================================================================
