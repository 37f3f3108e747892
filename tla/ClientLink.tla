---------------------------- MODULE ClientLink ----------------------------
(***************************************************************************)
(* The handshake between a TcpClient and a TcpServer over the connections  *)
(* the client makes one after the other.  The client runs two threads over *)
(* one unlocked S_SERVER_BASE: T (TcpClient::run) connects, receives and   *)
(* reconnects, the main thread (parseCommand) handles frames and sends.    *)
(* Either may call disconnectServer while the other is at work.  On the    *)
(* server a worker greets each accepted connection with a random key and   *)
(* the main loop parses, answers, times out and closes.                    *)
(*                                                                         *)
(* Every frame is XORed with the rCode its sender has at that time and is  *)
(* read with the reader's; a different one shows as a bad head.  The n-th  *)
(* connection's random code is the key n; keys are taken to differ in the  *)
(* two characters that cover the head.  A frame is a record; bytes are the *)
(* matter of RecvBuffer and SendBuffer, server slots that of ServerConn.   *)
(***************************************************************************)
EXTENDS Integers, Sequences

CONSTANTS
  MaxConn,    \* bound on the connections the client makes
  MaxFaults,  \* bound on breaks, refusals, failed connects and timeouts
  HeartMax,   \* bound on the heartbeats sent over live connections
  RoomMax     \* frames a buffer or a direction of a connection has room for

ASSUME LinkOK ==
  /\ MaxConn \in Nat
  /\ MaxFaults \in Nat
  /\ HeartMax \in Nat
  /\ RoomMax \in Nat \ {0}

Conns == 1 .. MaxConn
NoConn == 0    \* the client's socket is not connected
NoKey == 0     \* rCode is all zero

VARIABLES
  \* TcpServer, one slot per connection
  sstate,     \* "none" in the backlog, "Connect", "Secure", "Closed"
  skey,       \* rCode
  greeting,   \* connection the worker is greeting in onAccpet
  closing,    \* closeState = S_CLOSE_SHUTDOWN
  \* the network, with what the kernels and the server's buffers hold
  up, down,   \* frames on their way to the server, to the client
  lost,       \* the connection is broken
  made,       \* connections made so far
  faults,
  \* TcpClient
  cstate,     \* "Free", "Try", "Connect" or "Secure"
  ckey,       \* rCode
  csock,      \* the connection socketfd is on
  cin, cout,  \* frames in recvBuf and in sendBuf
  tpc, thold, \* thread T; the frame it has in recvBuf_Temp
  mpc, mframe,\* main thread; the frame it is handling
  hearts,
  agree,      \* SafeCode and Version are those of the server
  learned, granted  \* history: keys the client had, connections made secure

sVars == <<sstate, skey, greeting, closing, granted>>
nVars == <<up, down, lost, made, faults>>
dVars == <<cstate, ckey, csock, cin, cout, learned>>
tVars == <<tpc, thold>>
mVars == <<mpc, mframe, hearts>>
vars == <<sVars, nVars, dVars, tVars, mVars, agree>>

Frame(cmd, key, arg) == [cmd |-> cmd, key |-> key, arg |-> arg]
NoFrame == Frame("none", NoKey, 0)
Connected == cstate \in {"Connect", "Secure"}
Gone(c) == c <= made /\ csock # c    \* the client has closed c
Dead(c) == lost[c] \/ closing[c] \/ sstate[c] = "Closed"   \* seen by the client

Init ==
  /\ sstate = [c \in Conns |-> "none"]
  /\ skey = [c \in Conns |-> NoKey]
  /\ greeting = NoConn
  /\ closing = [c \in Conns |-> FALSE]
  /\ up = [c \in Conns |-> <<>>]
  /\ down = [c \in Conns |-> <<>>]
  /\ lost = [c \in Conns |-> FALSE]
  /\ made = 0 /\ faults = 0
  /\ cstate = "Free" /\ ckey = NoKey /\ csock = NoConn
  /\ cin = <<>> /\ cout = <<>>
  /\ tpc = "top" /\ thold = NoFrame
  /\ mpc = "idle" /\ mframe = NoFrame
  /\ hearts = 0
  /\ agree \in BOOLEAN
  /\ learned = {} /\ granted = {}

Fault == faults < MaxFaults /\ faults' = faults + 1
-----------------------------------------------------------------------------
(* Client, thread T: TcpClient::run.                                       *)

(* S_SERVER_BASE::reset *)
ResetData(st) ==
  /\ cstate' = st
  /\ ckey' = NoKey
  /\ csock' = NoConn
  /\ cin' = <<>>
  /\ cout' = <<>>
  /\ UNCHANGED learned

(* disconnectServer, after its test of the state: the socket is closed,    *)
(* with what it holds unread, and a new one made.                          *)
Disconnect ==
  /\ ResetData("Free")
  /\ down' = [c \in Conns |-> IF c = csock THEN <<>> ELSE down[c]]

(* Mutant: the data is not reset before the next connection is tried. *)
TStartNoReset ==
  /\ tpc = "top" /\ cstate = "Free" /\ mpc = "idle"
  /\ cstate' = "Try"
  /\ UNCHANGED <<sVars, nVars, ckey, csock, cin, cout, learned, tVars, mVars,
                 agree>>

(* onAutoConnect: AutoTime seconds after the last reset.  The main thread  *)
(* is assumed to finish the frame it handles, or its own disconnect, in    *)
(* that time.                                                              *)
TStart ==
  /\ tpc = "top" /\ cstate = "Free" /\ mpc = "idle"
  /\ ResetData("Try")
  /\ UNCHANGED <<sVars, nVars, tVars, mVars, agree>>

(* connectServer: connect succeeds, at once or after connect_Select.  Until *)
(* then the state stays C_ConnectTry and run calls it again.               *)
TConnected ==
  /\ tpc = "top" /\ cstate = "Try"
  /\ made < MaxConn
  /\ made' = made + 1
  /\ cstate' = "Connect"
  /\ csock' = made + 1
  /\ UNCHANGED <<sVars, up, down, lost, faults, ckey, cin, cout, learned,
                 tVars, mVars, agree>>

(* ... or fails, 1008 or 1009: disconnectServer *)
TConnectFails ==
  /\ tpc = "top" /\ cstate = "Try"
  /\ Fault
  /\ Disconnect
  /\ UNCHANGED <<sVars, up, lost, made, tVars, mVars, agree>>

(* select and recv: a frame arrives in recvBuf_Temp. *)
TRecv ==
  /\ tpc = "top" /\ Connected /\ csock # NoConn
  /\ down[csock] # <<>>
  /\ thold' = Head(down[csock])
  /\ down' = [down EXCEPT ![csock] = Tail(@)]
  /\ tpc' = "save"
  /\ UNCHANGED <<sVars, up, lost, made, faults, dVars, mVars, agree>>

(* onSaveData appends it to recvBuf, whoever has reset that meanwhile; a   *)
(* full recvBuf ends in disconnectServer 1007.                             *)
TSave ==
  /\ tpc = "save"
  /\ IF Len(cin) < RoomMax
     THEN cin' = Append(cin, thold) /\ tpc' = "top"
     ELSE tpc' = (IF cstate = "Free" THEN "top" ELSE "drop") /\ UNCHANGED cin
  /\ thold' = NoFrame
  /\ UNCHANGED <<sVars, nVars, cstate, ckey, csock, cout, learned, mVars,
                 agree>>

(* recv returns 0 or fails, 1003 or 1001, or select fails because the main *)
(* thread's disconnect has closed the handle run still holds.              *)
TFails ==
  /\ tpc = "top" /\ Connected
  /\ csock # NoConn => Dead(csock)
  /\ tpc' = "drop"
  /\ UNCHANGED <<sVars, nVars, dVars, thold, mVars, agree>>

TDrop ==
  /\ tpc = "drop"
  /\ Disconnect
  /\ tpc' = "top"
  /\ UNCHANGED <<sVars, up, lost, made, faults, thold, mVars, agree>>

TStep == TStart \/ TConnected \/ TRecv \/ TSave \/ TFails \/ TDrop
-----------------------------------------------------------------------------
(* Client, main thread: TcpClient::parseCommand.                           *)

(* SendGameDataMessageLite: a frame without room, or of a client without a *)
(* connection, calls disconnectServer 6001, which does nothing if free.    *)
Enqueue(f, st, next) ==
  IF st \in {"Connect", "Secure"} /\ Len(cout) < RoomMax
  THEN cout' = Append(cout, f) /\ mpc' = next
  ELSE mpc' = (IF st = "Free" THEN next ELSE "drop") /\ UNCHANGED cout

(* onHeart: HeartTime seconds after the last one. *)
MHeart ==
  /\ mpc = "idle" /\ cstate = "Secure"
  /\ hearts < HeartMax \/ csock = NoConn
  /\ hearts' = IF csock = NoConn THEN hearts ELSE hearts + 1
  /\ Enqueue(Frame("heart", ckey, 0), cstate, "idle")
  /\ UNCHANGED <<sVars, nVars, cstate, ckey, csock, cin, learned, tVars,
                 mframe, agree>>

(* The next whole frame: a bad head is disconnectServer 2001. *)
MTake ==
  /\ mpc = "idle" /\ Connected
  /\ cin # <<>>
  /\ mframe' = Head(cin)
  /\ mpc' = IF Head(cin).key = ckey THEN "handle" ELSE "drop"
  /\ UNCHANGED <<sVars, nVars, dVars, tVars, hearts, agree>>

(* The handler of the frame has returned: recv_Head moves past it unless   *)
(* the client is no longer connected.                                      *)
Consume ==
  cin' = IF cstate' \in {"Connect", "Secure"} /\ cin # <<>> THEN Tail(cin)
         ELSE cin

(* cmd_rcode: rCode is stored and the md5 of it sent under the new key.    *)
MRcode ==
  /\ mpc = "handle" /\ mframe.cmd = "rcode"
  /\ ckey' = mframe.arg
  /\ learned' = learned \cup {mframe.arg}
  /\ Enqueue(Frame("security", mframe.arg, mframe.arg), cstate, "idle")
  /\ UNCHANGED cstate
  /\ Consume
  /\ mframe' = NoFrame
  /\ UNCHANGED <<sVars, nVars, csock, tVars, hearts, agree>>

(* Mutant: a refusal is taken for an acceptance. *)
MSecurityAny ==
  /\ mpc = "handle" /\ mframe.cmd = "security"
  /\ cstate' = "Secure"
  /\ Consume
  /\ mpc' = "idle" /\ mframe' = NoFrame
  /\ UNCHANGED <<sVars, nVars, ckey, csock, cout, learned, tVars, hearts,
                 agree>>

(* CMD_SECURITY: code 0 makes the client secure, even one T has just reset; *)
(* any other code is only reported.                                        *)
MSecurity ==
  /\ mpc = "handle" /\ mframe.cmd = "security"
  /\ cstate' = IF mframe.arg = 0 THEN "Secure" ELSE cstate
  /\ Consume
  /\ mpc' = "idle" /\ mframe' = NoFrame
  /\ UNCHANGED <<sVars, nVars, ckey, csock, cout, learned, tVars, hearts,
                 agree>>

(* A heartbeat's answer changes nothing. *)
MOther ==
  /\ mpc = "handle" /\ mframe.cmd = "heart"
  /\ UNCHANGED cstate
  /\ Consume
  /\ mpc' = "idle" /\ mframe' = NoFrame
  /\ UNCHANGED <<sVars, nVars, ckey, csock, cout, learned, tVars, hearts,
                 agree>>

(* onSend *)
MSend ==
  /\ mpc = "idle" /\ Connected /\ csock # NoConn
  /\ cout # <<>>
  /\ ~lost[csock]
  /\ Len(up[csock]) < RoomMax
  /\ up' = [up EXCEPT ![csock] = Append(@, Head(cout))]
  /\ cout' = Tail(cout)
  /\ UNCHANGED <<sVars, down, lost, made, faults, cstate, ckey, csock, cin,
                 learned, tVars, mVars, agree>>

(* onSend fails: disconnectServer 4002. *)
MSendFails ==
  /\ mpc = "idle" /\ Connected
  /\ cout # <<>>
  /\ csock # NoConn => Dead(csock)
  /\ mpc' = "drop"
  /\ UNCHANGED <<sVars, nVars, dVars, tVars, mframe, hearts, agree>>

MDrop ==
  /\ mpc = "drop"
  /\ Disconnect
  /\ mpc' = "idle" /\ mframe' = NoFrame
  /\ UNCHANGED <<sVars, up, lost, made, faults, tVars, hearts, agree>>

MStep ==
  \/ MHeart \/ MTake \/ MRcode \/ MSecurity \/ MOther
  \/ MSend \/ MSendFails \/ MDrop
-----------------------------------------------------------------------------
(* Server.                                                                 *)

(* Mutant: rCode is stored before the greeting is sent. *)
SGreetKeyed(c) ==
  /\ greeting = NoConn
  /\ c <= made /\ sstate[c] = "none"
  /\ greeting' = c
  /\ sstate' = [sstate EXCEPT ![c] = "Connect"]
  /\ skey' = [skey EXCEPT ![c] = c]
  /\ down' = [down EXCEPT ![c] = Append(@, Frame("rcode", c, c))]
  /\ UNCHANGED <<closing, granted, up, lost, made, faults, dVars, tVars,
                 mVars, agree>>

(* onAccpet, on the only worker (runServer(1)): the slot is connecting and *)
(* the random code is sent while rCode is still zero ...                   *)
SGreet(c) ==
  /\ greeting = NoConn
  /\ c <= made /\ sstate[c] = "none"
  /\ greeting' = c
  /\ sstate' = [sstate EXCEPT ![c] = "Connect"]
  /\ down' = [down EXCEPT ![c] = Append(@, Frame("rcode", NoKey, c))]
  /\ UNCHANGED <<skey, closing, granted, up, lost, made, faults, dVars, tVars,
                 mVars, agree>>

(* ... then it is stored. *)
SKey(c) ==
  /\ greeting = c
  /\ greeting' = NoConn
  /\ skey' = [skey EXCEPT ![c] = c]
  /\ UNCHANGED <<sstate, closing, granted, nVars, dVars, tVars, mVars, agree>>

(* onAccpet refuses, codes 3 to 9: the socket is closed. *)
SRefuse(c) ==
  /\ greeting = NoConn
  /\ c <= made /\ sstate[c] = "none"
  /\ Fault
  /\ sstate' = [sstate EXCEPT ![c] = "Closed"]
  /\ UNCHANGED <<skey, greeting, closing, granted, up, down, lost, made, dVars,
                 tVars, mVars, agree>>

Open(c) == sstate[c] \in {"Connect", "Secure"} /\ ~closing[c]

(* Mutant: another worker thread completes receives during onAccpet. *)
ReceivedByAnother(c) == Open(c) /\ up[c] # <<>>

(* A frame is in recvBuf.  One worker completes no receive of a connection *)
(* before onAccpet has stored its rCode.                                   *)
Received(c) == Open(c) /\ greeting # c /\ up[c] # <<>>

(* shutDown: what has not left sendBuf is not sent any more.  It clears    *)
(* rCode (key NoKey) if it is given the client, not if it looks it up.     *)
ShutDown(c, key) ==
  /\ closing' = [closing EXCEPT ![c] = TRUE]
  /\ skey' = [skey EXCEPT ![c] = key]
  /\ \E n \in 0 .. Len(down[c]) :
       down' = [down EXCEPT ![c] = SubSeq(@, 1, n)]

(* SendGameDataMessageLite: shutDown 2004 or 2005 without room. *)
Answer(c, cmd, arg) ==
  IF Len(down[c]) < RoomMax
  THEN /\ down' = [down EXCEPT ![c] = Append(@, Frame(cmd, skey[c], arg))]
       /\ UNCHANGED <<closing, skey>>
  ELSE ShutDown(c, NoKey)

(* parseCommand(c): cmd_security with the right version and md5 makes the  *)
(* client secure, code 0; with a wrong one it is answered by a code above  *)
(* 0.  cmd_heart is answered.  The frame of a client that is still not     *)
(* secure is left where it is, to be parsed and answered again.            *)
SHandle(c, f) ==
  LET ok == f.cmd = "security" /\ f.arg = skey[c] /\ agree
      secure == ok \/ sstate[c] = "Secure" IN
  /\ sstate' = [sstate EXCEPT ![c] = IF secure THEN "Secure" ELSE "Connect"]
  /\ granted' = IF ok THEN granted \cup {c} ELSE granted
  /\ up' = IF secure THEN [up EXCEPT ![c] = Tail(@)] ELSE up
  /\ Answer(c, f.cmd, IF f.cmd = "security" /\ ~ok THEN 1 ELSE 0)

(* A frame with a bad head is shutDown 2001, any other is handled. *)
SParse(c) ==
  /\ Received(c)
  /\ IF Head(up[c]).key = skey[c]
     THEN SHandle(c, Head(up[c]))
     ELSE ShutDown(c, NoKey) /\ UNCHANGED <<sstate, granted, up>>
  /\ UNCHANGED <<greeting, lost, made, faults, dVars, tVars, mVars, agree>>

(* checkConnect: ten seconds without a handshake, or HeartTime without a   *)
(* frame.                                                                  *)
STimeout(c) ==
  /\ Open(c)
  /\ Fault
  /\ ShutDown(c, NoKey)
  /\ UNCHANGED <<sstate, greeting, granted, up, lost, made, dVars, tVars,
                 mVars, agree>>

(* A receive or a send fails, because the client has closed or the network *)
(* has broken the connection: kinds 3001 to 3003, 1003 and 1004.           *)
SLost(c) ==
  /\ Open(c)
  /\ lost[c] \/ Gone(c)
  /\ \E key \in {skey[c], NoKey} : ShutDown(c, key)
  /\ UNCHANGED <<sstate, greeting, granted, up, lost, made, faults, dVars,
                 tVars, mVars, agree>>

(* closeSocket, and the Reset in onClientDisconnect *)
SClose(c) ==
  /\ closing[c] /\ sstate[c] # "Closed"
  /\ sstate' = [sstate EXCEPT ![c] = "Closed"]
  /\ skey' = [skey EXCEPT ![c] = NoKey]
  /\ up' = [up EXCEPT ![c] = <<>>]
  /\ UNCHANGED <<greeting, closing, granted, down, lost, made, faults, dVars,
                 tVars, mVars, agree>>

(* The network breaks c: what is on its way is lost from some frame on. *)
Break(c) ==
  /\ csock = c /\ ~lost[c]
  /\ Fault
  /\ lost' = [lost EXCEPT ![c] = TRUE]
  /\ \E n \in 0 .. Len(up[c]) : up' = [up EXCEPT ![c] = SubSeq(@, 1, n)]
  /\ \E n \in 0 .. Len(down[c]) :
       down' = [down EXCEPT ![c] = SubSeq(@, 1, n)]
  /\ UNCHANGED <<sVars, made, dVars, tVars, mVars, agree>>

SWorker(c) == SGreet(c) \/ SKey(c)
SMain(c) == SParse(c) \/ SLost(c) \/ SClose(c)
SFault(c) == SRefuse(c) \/ STimeout(c) \/ Break(c)
-----------------------------------------------------------------------------
Next ==
  \/ TStep \/ TConnectFails
  \/ MStep
  \/ \E c \in Conns : SWorker(c) \/ SMain(c) \/ SFault(c)

Spec == Init /\ [][Next]_vars

(* Every thread runs on and a broken connection is noticed at both ends;   *)
(* no fault has to happen.                                                 *)
FairSpec ==
  /\ Spec
  /\ WF_vars(TStep)
  /\ WF_vars(MStep)
  /\ \A c \in Conns : WF_vars(SWorker(c)) /\ WF_vars(SMain(c))
-----------------------------------------------------------------------------
Frames == [cmd : {"none", "rcode", "security", "heart"},
           key : Conns \cup {NoKey}, arg : Conns \cup {0, 1}]

TypeOK ==
  /\ sstate \in [Conns -> {"none", "Connect", "Secure", "Closed"}]
  /\ skey \in [Conns -> Conns \cup {NoKey}]
  /\ greeting \in Conns \cup {NoConn}
  /\ closing \in [Conns -> BOOLEAN]
  /\ up \in [Conns -> Seq(Frames)]
  /\ down \in [Conns -> Seq(Frames)]
  /\ lost \in [Conns -> BOOLEAN]
  /\ made \in 0 .. MaxConn
  /\ faults \in 0 .. MaxFaults
  /\ cstate \in {"Free", "Try", "Connect", "Secure"}
  /\ ckey \in Conns \cup {NoKey}
  /\ csock \in Conns \cup {NoConn}
  /\ cin \in Seq(Frames)
  /\ cout \in Seq(Frames)
  /\ tpc \in {"top", "save", "drop"}
  /\ thold \in Frames
  /\ mpc \in {"idle", "handle", "drop"}
  /\ mframe \in Frames
  /\ hearts \in 0 .. HeartMax
  /\ agree \in BOOLEAN
  /\ learned \subseteq Conns
  /\ granted \subseteq Conns

(* Neither end ever takes a frame of the other for one with a bad head:    *)
(* the greeting is read before the key is stored, everything after it      *)
(* under that key, and nothing of an earlier connection is left in a       *)
(* buffer.  (2001 in both parseCommand)                                    *)
NoBadHead ==
  /\ \A c \in Conns : Received(c) => Head(up[c]).key = skey[c]
  /\ mpc = "idle" /\ Connected /\ cin # <<>> => Head(cin).key = ckey

(* The client takes a connection for secure only when the server has made  *)
(* that very connection secure, and the server does so only for a client   *)
(* that knows its key, whatever the two client threads do to each other.   *)
SL == INSTANCE SecureLink WITH
        trusted <- IF cstate = "Secure" THEN csock ELSE NoConn
Agrees == SL!Spec

(* When the faults are over, a client with the right configuration ends up *)
(* secure at both ends and stays so: no order of the two threads leaves it *)
(* disconnected, deaf or secure without a connection.                      *)
Reconnects ==
  agree => <>[](cstate = "Secure" /\ csock # NoConn
                /\ sstate[csock] = "Secure" /\ ~closing[csock])
(* Why, as an inductive invariant.                                         *)

Elems(s) == {s[i] : i \in DOMAIN s}
Held == IF tpc = "save" THEN {thold} ELSE {}

(* Frames on their way from the server to the client's parser *)
Arriving(c) == Elems(cin) \cup Held \cup Elems(down[c])

(* Connections not made yet are untouched; the client is on the last one,  *)
(* or on none.                                                             *)
InOrderMade ==
  /\ csock \in {NoConn, made}
  /\ \A c \in Conns :
       /\ c > made => sstate[c] = "none" /\ c \notin learned
       /\ sstate[c] = "none" =>
            down[c] = <<>> /\ greeting # c /\ ~closing[c]

(* What the two client threads leave each other, whoever disconnects. *)
ThreadsShare ==
  /\ cstate = "Connect" => csock # NoConn
  /\ cstate = "Free" => csock = NoConn
  /\ cstate = "Try" =>
       /\ csock = NoConn /\ ckey = NoKey /\ cin = <<>> /\ cout = <<>>
       /\ mpc = "idle" /\ tpc = "top"
  /\ csock = NoConn /\ (cstate = "Secure" \/ mpc = "handle") =>
       cin = <<>> /\ tpc # "save"
  /\ csock # NoConn /\ mpc = "handle" => cin # <<>> /\ Head(cin) = mframe
  /\ mpc = "handle" /\ mframe.cmd = "rcode" => mframe.arg \in 1 .. made

(* The server reads under the key it gave away, and only frames of a       *)
(* client that has it.                                                     *)
ServerKeys == \A c \in Conns :
  /\ Open(c) /\ greeting # c => skey[c] = c
  /\ \A f \in Elems(up[c]) : f.key = c /\ f.cmd # "rcode"
  /\ up[c] # <<>> => c \in learned
  /\ c \in granted => c \in learned

(* Before it has read the greeting the client finds only that, and has     *)
(* said nothing ...                                                        *)
Unlearned == csock # NoConn /\ ckey = NoKey =>
  /\ cstate = "Connect"
  /\ cout = <<>> /\ up[csock] = <<>>
  /\ Arriving(csock) \subseteq {Frame("rcode", NoKey, csock)}
  /\ Len(cin) + Len(down[csock]) + (IF tpc = "save" THEN 1 ELSE 0) <= 1
  /\ sstate[csock] = "none" => Arriving(csock) = {}

(* ... and afterwards only frames under its key; an acceptance among them  *)
(* comes from a server that has made the connection secure.                *)
Learned == csock # NoConn /\ ckey # NoKey =>
  /\ ckey = csock /\ csock \in learned
  /\ sstate[csock] # "none"
  /\ \A f \in Elems(cout) : f.key = csock /\ f.cmd # "rcode"
  /\ \A f \in Arriving(csock) :
       /\ f.key = csock /\ f.cmd # "rcode"
       /\ f.cmd = "security" /\ f.arg = 0 => csock \in granted

Trusting == cstate = "Secure" /\ csock # NoConn => csock \in granted

LinkInv ==
  /\ TypeOK
  /\ InOrderMade
  /\ ThreadsShare
  /\ ServerKeys
  /\ Unlearned
  /\ Learned
  /\ Trusting

=============================================================================
