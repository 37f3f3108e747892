------------------------------ MODULE Session ------------------------------
(***************************************************************************)
(* What the main thread keeps about the clients once they talk: the        *)
(* handshake (cmd_security), the count of secure clients, the registry of  *)
(* server clients (m_Connection), login, the user table and the pairing    *)
(* of waiting players.  One main step is one handler: the worker takes     *)
(* part only by giving a free slot to a new connection and by shutting a   *)
(* client down, at any moment.  ServerConn has the rest of the life cycle; *)
(* a refused or failed accept leaves nothing here.                         *)
(*                                                                         *)
(* Both tables come from malloc and no constructor runs (IContainer.h:26), *)
(* so clientID, clientType and the users hold whatever was in the memory.  *)
(***************************************************************************)
EXTENDS Integers, FiniteSets

CONSTANTS
  MaxConnect,  \* number of slots, and of users
  Ids,         \* the ids that clients give in cs_md5_security
  MaxServerId, \* MAX_SERVER_ID
  ZeroedHeap,  \* malloc happened to return zeroed memory
  RepeatMax    \* bound on the handshakes of clients already secure

Slots == 1 .. MaxConnect
Users == 1 .. MaxConnect
NoSlot == 0
AllIds == Ids \cup {0}
RegIds == {i \in AllIds : 0 <= i /\ i < MaxServerId}
UserStates == {"free", "wait", "play", "other"}  \* 0, 1, 2, any other byte

ASSUME SessionOK ==
  /\ MaxConnect \in Nat \ {0}
  /\ Ids \subseteq Int
  /\ MaxServerId \in Nat
  /\ ZeroedHeap \in BOOLEAN
  /\ RepeatMax \in Nat

VARIABLES
  state,     \* "Free", "Connect" or "Secure"
  closing,   \* closeState = S_CLOSE_SHUTDOWN
  keyed,     \* rCode is set: shutDown by a given client clears it
  clientID, isServer,  \* clientID; clientType # S_TYPE_USER
  secCount,  \* m_SecurityCount
  registry,  \* m_Connection
  ustate, uid,         \* S_USER_GATE: state, id
  at,        \* the main loop: the slot it is at, or the end of the walk
  parsing,   \* in parseCommand(c) for that slot
  repeats    \* handshakes of clients already secure, so far

connVars == <<state, closing, keyed>>
idVars == <<clientID, isServer, secCount, registry, repeats>>
userVars == <<ustate, uid>>
mainVars == <<at, parsing>>
vars == <<connVars, idVars, userVars, mainVars>>

Init ==
  /\ state = [s \in Slots |-> "Free"]
  /\ closing = [s \in Slots |-> FALSE]
  /\ keyed = [s \in Slots |-> FALSE]
  /\ clientID \in [Slots -> IF ZeroedHeap THEN {0} ELSE AllIds]
  /\ isServer \in [Slots -> IF ZeroedHeap THEN {FALSE} ELSE BOOLEAN]
  /\ secCount = 0
  /\ registry = [i \in RegIds |-> NoSlot]
  /\ ustate \in [Users -> IF ZeroedHeap THEN {"free"} ELSE UserStates]
  /\ uid = [u \in Users |-> NoSlot]
  /\ at = 1
  /\ parsing = FALSE
  /\ repeats = 0
-----------------------------------------------------------------------------
(* Worker thread.                                                          *)

(* onAccpet, from getFreeLinker to strcpy(rCode): the peer says nothing    *)
(* before it has the code.  Reset leaves clientID and clientType alone.    *)
Accept(s) ==
  /\ state[s] = "Free"
  /\ state' = [state EXCEPT ![s] = "Connect"]
  /\ closing' = [closing EXCEPT ![s] = FALSE]
  /\ keyed' = [keyed EXCEPT ![s] = TRUE]
  /\ UNCHANGED <<idVars, userVars, mainVars>>

(* shutDown on the worker, by socket (rCode stays) or by client *)
Lost(s) == \E k \in {keyed[s], FALSE} :
  /\ state[s] # "Free"
  /\ ~closing[s]
  /\ closing' = [closing EXCEPT ![s] = TRUE]
  /\ keyed' = [keyed EXCEPT ![s] = k]
  /\ UNCHANGED <<state, idVars, userVars, mainVars>>
-----------------------------------------------------------------------------
(* Main thread.                                                            *)

(* shutDown(s, 0, c, kind) with the client given *)
ShutDown(s) ==
  IF closing[s]
  THEN UNCHANGED <<closing, keyed>>
  ELSE /\ closing' = [closing EXCEPT ![s] = TRUE]
       /\ keyed' = [keyed EXCEPT ![s] = FALSE]

(* Mutant: the next slot inherits the parse call of this one. *)
AdvanceParsing == at' = at + 1 /\ UNCHANGED parsing

Advance == at' = at + 1 /\ parsing' = FALSE

Skip ==
  /\ at \in Slots /\ ~parsing
  /\ state[at] = "Free"
  /\ Advance
  /\ UNCHANGED <<connVars, idVars, userVars>>

(* Mutant: the registry is not cleared. *)
CloseKeepsEntry ==
  /\ at \in Slots /\ ~parsing
  /\ closing[at]
  /\ secCount' = IF state[at] = "Secure" THEN secCount - 1 ELSE secCount
  /\ state' = [state EXCEPT ![at] = "Free"]
  /\ closing' = [closing EXCEPT ![at] = FALSE]
  /\ keyed' = [keyed EXCEPT ![at] = FALSE]
  /\ Advance
  /\ UNCHANGED <<clientID, isServer, registry, repeats, userVars>>

(* Mutant: closeState stays as it is. *)
CloseStaysClosing ==
  /\ at \in Slots /\ ~parsing
  /\ closing[at]
  /\ secCount' = IF state[at] = "Secure" THEN secCount - 1 ELSE secCount
  /\ registry' = [i \in RegIds |-> IF i = clientID[at] THEN NoSlot
                                                       ELSE registry[i]]
  /\ state' = [state EXCEPT ![at] = "Free"]
  /\ keyed' = [keyed EXCEPT ![at] = FALSE]
  /\ Advance
  /\ UNCHANGED <<closing, clientID, isServer, repeats, userVars>>

(* checkConnect: nothing is posted or five seconds have passed; closeSocket *)
(* uncounts a secure client and clears the entry of the slot's clientID,    *)
(* onClientDisconnect resets the slot.  No user is given back.              *)
Close ==
  /\ at \in Slots /\ ~parsing
  /\ closing[at]
  /\ secCount' = IF state[at] = "Secure" THEN secCount - 1 ELSE secCount
  /\ registry' = [i \in RegIds |-> IF i = clientID[at] THEN NoSlot
                                                       ELSE registry[i]]
  /\ state' = [state EXCEPT ![at] = "Free"]
  /\ closing' = [closing EXCEPT ![at] = FALSE]
  /\ keyed' = [keyed EXCEPT ![at] = FALSE]
  /\ Advance
  /\ UNCHANGED <<clientID, isServer, repeats, userVars>>

(* checkConnect: a closing client must wait, or an open one is timed out.  *)
WaitOrTimeOut ==
  /\ at \in Slots /\ ~parsing
  /\ state[at] # "Free"
  /\ ShutDown(at)
  /\ Advance
  /\ UNCHANGED <<state, idVars, userVars>>

(* It is open when closeState is read; the worker may shut it down since.  *)
Enter ==
  /\ at \in Slots /\ ~parsing
  /\ state[at] # "Free"
  /\ ~closing[at]
  /\ parsing' = TRUE
  /\ UNCHANGED <<connVars, idVars, userVars, at>>

(* A frame is decoded with the slot's rCode; without it the head is bad.   *)
HasFrame == parsing /\ keyed[at]

(* cmd_security with the right version and digest: the client is secure,   *)
(* for the first time or again.  The reply may find no room (2004).        *)
Handshake(id, server) ==
  /\ HasFrame
  /\ state[at] = "Secure" => repeats < RepeatMax
  /\ state' = [state EXCEPT ![at] = "Secure"]
  /\ clientID' = [clientID EXCEPT ![at] = id]
  /\ isServer' = [isServer EXCEPT ![at] = server]
  /\ registry' = [i \in RegIds |-> IF server /\ i = id THEN at
                                                       ELSE registry[i]]
  /\ secCount' = secCount + 1
  /\ repeats' = IF state[at] = "Secure" THEN repeats + 1 ELSE repeats
  /\ UNCHANGED <<closing, keyed>> \/ ShutDown(at)
  /\ UNCHANGED <<userVars, mainVars>>

(* command 100 before the handshake: isSecure_F_Close, kind 2006 *)
LoginRefused ==
  /\ HasFrame
  /\ state[at] = "Connect"
  /\ ShutDown(at)
  /\ Advance
  /\ UNCHANGED <<state, idVars, userVars>>

FirstFree(u) ==
  /\ ustate[u] = "free"
  /\ \A v \in Users : v < u => ustate[v] # "free"

(* onLoginGame: the first free user waits for a player; end() finds no     *)
(* message begun and shuts the client down (2005).  Without a free user    *)
(* the handler changes nothing.                                            *)
Login == \E u \in Users :
  /\ HasFrame
  /\ state[at] = "Secure"
  /\ FirstFree(u)
  /\ ustate' = [ustate EXCEPT ![u] = "wait"]
  /\ uid' = [uid EXCEPT ![u] = at]
  /\ ShutDown(at)
  /\ UNCHANGED <<state, idVars, mainVars>>

(* Out of the parse loop and through postSend, either of which may shut    *)
(* the client down (2001, 2004, 1004).                                     *)
Leave ==
  /\ parsing
  /\ UNCHANGED <<closing, keyed>> \/ ShutDown(at)
  /\ Advance
  /\ UNCHANGED <<state, idVars, userVars>>
-----------------------------------------------------------------------------
Waiting == {u \in Users : ustate[u] = "wait"}

(* Mutant: the scan begins at the second user. *)
MatchSkipsFirst ==
  /\ at = MaxConnect + 1
  /\ ustate' = [u \in Users |->
                  IF u \in Waiting \ {1} /\ Cardinality(Waiting \ {1}) > 1
                  THEN "play" ELSE ustate[u]]
  /\ at' = 1
  /\ UNCHANGED <<connVars, idVars, uid, parsing>>

(* Mutant: only the later of two players is taken off the waiting list. *)
MatchSecondOnly ==
  /\ at = MaxConnect + 1
  /\ ustate' = [u \in Users |->
                  IF u \in Waiting /\ \E v \in Waiting : v < u
                  THEN "play" ELSE ustate[u]]
  /\ at' = 1
  /\ UNCHANGED <<connVars, idVars, uid, parsing>>

(* checkOnlineUserNotInGame: the first waiting user is paired with every   *)
(* later one.  InserGameMap inserts nothing: its test wants an entry that  *)
(* is already there.                                                       *)
Match ==
  /\ at = MaxConnect + 1
  /\ ustate' = [u \in Users |->
                  IF u \in Waiting /\ Waiting # {u} THEN "play" ELSE ustate[u]]
  /\ at' = 1
  /\ UNCHANGED <<connVars, idVars, uid, parsing>>

Worker == \E s \in Slots : Accept(s) \/ Lost(s)

Main ==
  \/ Skip \/ Close \/ WaitOrTimeOut \/ Enter
  \/ \E id \in Ids, server \in BOOLEAN : Handshake(id, server)
  \/ LoginRefused \/ Login \/ Leave \/ Match

Next == Worker \/ Main

Spec == Init /\ [][Next]_vars

(* The main loop never stops, and a buffer of frames runs out. *)
FairSpec == Spec /\ WF_vars(Main)
-----------------------------------------------------------------------------
(* Every variable has its type. *)
SessionTypeOK ==
  /\ state \in [Slots -> {"Free", "Connect", "Secure"}]
  /\ closing \in [Slots -> BOOLEAN]
  /\ keyed \in [Slots -> BOOLEAN]
  /\ clientID \in [Slots -> AllIds]
  /\ isServer \in [Slots -> BOOLEAN]
  /\ secCount \in Int
  /\ registry \in [RegIds -> Slots \cup {NoSlot}]
  /\ ustate \in [Users -> UserStates]
  /\ uid \in [Users -> Slots \cup {NoSlot}]
  /\ at \in 1 .. MaxConnect + 1
  /\ parsing \in BOOLEAN
  /\ parsing => at \in Slots /\ state[at] # "Free"
  /\ repeats \in Nat

SecureSlots == {s \in Slots : state[s] = "Secure"}

(* m_SecurityCount is the number of secure connections: so the comment     *)
(* beside its declaration (TcpServer.h).  A client that repeats its        *)
(* handshake is counted again.                                             *)
SecureCount == secCount = Cardinality(SecureSlots)

(* How far it is off: raised by every handshake and lowered once by        *)
(* closeSocket, it exceeds the number of secure clients by the handshakes  *)
(* that secure clients repeated, and is never set right again.             *)
SecurityCountMatches == secCount = Cardinality(SecureSlots) + repeats

(* While no client has repeated its handshake, an entry of the registry    *)
(* names a secure client that has that id: closeSocket leaves no entry     *)
(* that points at a freed slot or at its next owner.                       *)
RegistryBound ==
  repeats = 0 =>
    \A i \in RegIds : registry[i] # NoSlot =>
      /\ state[registry[i]] = "Secure"
      /\ clientID[registry[i]] = i

(* checkOnlineUserNotInGame leaves at most one user waiting. *)
MatchLeavesOne == [][at' < at => Cardinality(Waiting') <= 1]_vars

(* Between this module's main loop and workers the slots change hands as   *)
(* in ServerConn: both implement SlotWalk, the end of the walk being its   *)
(* beginning.                                                              *)
Closed == {s \in Slots : closing[s]}
WalkAt == IF at \in Slots THEN at ELSE 1

Walk == INSTANCE SlotWalk WITH
  phase <- state, closed <- Closed, at <- WalkAt

WalkSlots == Walk!Spec

(* Two users that wait at the same time are both put into a game. *)
WaitersMatched ==
  \A u, v \in Users :
    u # v /\ u \in Waiting /\ v \in Waiting
      ~> ustate[u] = "play" /\ ustate[v] = "play"

(* A user that waits for a player, state 1, is still connected: the state  *)
(* of one that has left is 0.                                              *)
WaitingConnected ==
  \A u \in Waiting : uid[u] \in Slots /\ state[uid[u]] # "Free"
=============================================================================
