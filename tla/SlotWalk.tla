------------------------------ MODULE SlotWalk ------------------------------
(***************************************************************************)
(* What the two threads of the server may do to the client slots, seen     *)
(* from either side: the worker opens free slots and shuts connections     *)
(* down; the main loop walks over the slots and, at the slot it is at and  *)
(* at no other, grants security, shuts down, or frees what was shut down.  *)
(***************************************************************************)
EXTENDS Integers

CONSTANT MaxConnect

VARIABLES
  phase,   \* of each slot: "Free", "Connect" or "Secure"
  closed,  \* the slots that are shut down and not yet freed
  at       \* the slot the main loop is at

Slots == 1 .. MaxConnect

Init ==
  /\ phase = [s \in Slots |-> "Free"]
  /\ closed = {}
  /\ at = 1

(* Worker. *)
Open(s) ==
  /\ phase[s] = "Free"
  /\ phase' = [phase EXCEPT ![s] = "Connect"]
  /\ UNCHANGED <<closed, at>>

Lose(s) ==
  /\ phase[s] # "Free"
  /\ closed' = closed \cup {s}
  /\ UNCHANGED <<phase, at>>

(* Main loop: a frame of the client is served, which may make it secure,   *)
(* and it may be shut down.                                                *)
Serve ==
  /\ phase[at] # "Free"
  /\ \E st \in {phase[at], "Secure"} : phase' = [phase EXCEPT ![at] = st]
  /\ closed' \in {closed, closed \cup {at}}

Free ==
  /\ at \in closed
  /\ phase' = [phase EXCEPT ![at] = "Free"]
  /\ closed' = closed \ {at}

Stay == UNCHANGED <<phase, closed>>

Main ==
  /\ Serve \/ Free \/ Stay
  /\ at' \in {at, IF at = MaxConnect THEN 1 ELSE at + 1}

Next == Main \/ \E s \in Slots : Open(s) \/ Lose(s)

Spec == Init /\ [][Next]_<<phase, closed, at>>
=============================================================================
