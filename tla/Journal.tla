------------------------------ MODULE Journal ------------------------------
(***************************************************************************)
(* What the log promises to its threads: the messages of a thread are      *)
(* taken care of in the order it sent them, each once.  Threads are not    *)
(* ordered against each other.                                             *)
(***************************************************************************)
EXTENDS Integers

CONSTANT Threads

VARIABLES
  said,     \* messages each thread has sent so far
  handled   \* how many of them have been taken care of

Init ==
  /\ said = [p \in Threads |-> 0]
  /\ handled = [p \in Threads |-> 0]

Say(p) ==
  /\ said' = [said EXCEPT ![p] = @ + 1]
  /\ UNCHANGED handled

Handle(p) ==
  /\ handled[p] < said[p]
  /\ handled' = [handled EXCEPT ![p] = @ + 1]
  /\ UNCHANGED said

Next == \E p \in Threads : Say(p) \/ Handle(p)

Spec == Init /\ [][Next]_<<said, handled>>
=============================================================================
