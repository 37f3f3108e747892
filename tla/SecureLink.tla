---------------------------- MODULE SecureLink ----------------------------
(***************************************************************************)
(* What the handshake promises to a client and a server that meet over a   *)
(* sequence of connections: first the client learns the connection's key,  *)
(* then the server grants it, then the client trusts the connection, which *)
(* it may leave at any time.  Nothing crosses from one connection to       *)
(* another.                                                                *)
(***************************************************************************)
CONSTANTS Conns, NoConn

VARIABLES
  learned,   \* connections whose key the client has learned
  granted,   \* connections the server has made secure
  trusted    \* the connection the client takes for secure, or NoConn

Init ==
  /\ learned = {}
  /\ granted = {}
  /\ trusted = NoConn

Learn(c) ==
  /\ learned' = learned \cup {c}
  /\ UNCHANGED <<granted, trusted>>

Grant(c) ==
  /\ c \in learned
  /\ granted' = granted \cup {c}
  /\ UNCHANGED <<learned, trusted>>

Trust(c) ==
  /\ c \in granted
  /\ trusted' = c
  /\ UNCHANGED <<learned, granted>>

Leave ==
  /\ trusted' = NoConn
  /\ UNCHANGED <<learned, granted>>

Next == Leave \/ \E c \in Conns : Learn(c) \/ Grant(c) \/ Trust(c)

Spec == Init /\ [][Next]_<<learned, granted, trusted>>
=============================================================================
