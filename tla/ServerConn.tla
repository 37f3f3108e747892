----------------------------- MODULE ServerConn -----------------------------
(***************************************************************************)
(* The life of a connection in net::TcpServer (src/engine/TcpServer*.cpp): *)
(* a fixed table of client slots (Linkers), socket handles that Windows    *)
(* hands out and takes back, overlapped operations posted to the           *)
(* completion port, the worker threads that dequeue their completions and  *)
(* the main loop that parses, sends, times out and closes.                 *)
(*                                                                         *)
(* A thread step is the code between two places where the other thread     *)
(* can change what it reads, so a pointer looked up in one step may be     *)
(* stale in the next.  Bytes, frames and the clock are abstracted: what a  *)
(* frame does to the connection is a choice, and late[s] says that the     *)
(* time limit checkConnect applies to slot s in its present phase has run  *)
(* out.                                                                    *)
(***************************************************************************)
EXTENDS Integers, FiniteSets

CONSTANTS
  MaxConnect,   \* number of slots, Linkers->length
  Handles,      \* the SOCKET values Windows can return
  NoHandle,     \* INVALID_SOCKET
  Workers,      \* worker threads; runServer(1) starts one, the engine ten
  MaxAccept,    \* accepts posted by initPost
  OrphanMax     \* a handle value is reused while at most this many
                \* operations of its earlier owner are undelivered

Slots == 1 .. MaxConnect
NoSlot == 0
Modes == {"accept", "recv", "send"}
Ops == Modes \X Handles
NoOp == <<"none", NoHandle>>

ASSUME ConstantsOK ==
  /\ MaxConnect \in Nat \ {0}
  /\ MaxAccept \in Nat
  /\ OrphanMax \in Nat
  /\ NoHandle \notin Handles
  /\ IsFiniteSet(Handles)
  /\ IsFiniteSet(Workers) /\ Workers # {}

VARIABLES
  \* S_CLIENT_BASE, one per slot
  state,          \* "Free", "Connect" or "Secure"
  sock,           \* socketfd
  closing,        \* closeState = S_CLOSE_SHUTDOWN
  recvCompleted,  \* is_RecvCompleted
  sendCompleted,  \* is_SendCompleted
  unsent,         \* send_Tail > send_Head
  late,           \* the limit for the present phase has run out
  \* TcpServer
  index,          \* LinkersIndexs: handle -> slot
  connectCount,   \* m_ConnectCount; an integer, transiently negative
  \* Windows
  inUse,          \* the handle value names an open socket
  posted,         \* operations posted on the open socket of that handle
  orphan,         \* operations posted on an earlier, closed one
  \* worker threads
  wpc, wop, wown, wflag, wslot,
  \* main thread, inside TcpServer::parseCommand()
  mpc, mslot

slotVars == <<state, sock, closing, recvCompleted, sendCompleted, unsent,
              late>>
osVars == <<inUse, posted, orphan>>
wVars == <<wpc, wop, wown, wflag, wslot>>
mVars == <<mpc, mslot>>
vars == <<slotVars, index, connectCount, osVars, wVars, mVars>>
-----------------------------------------------------------------------------
(* Mutant: the slot the index names, whichever socket it has by now. *)
FoundByIndex(h) == index[h] # NoSlot

(* client(SOCKET, true): the slot the index names, if it still has h. *)
Found(h) == index[h] # NoSlot /\ sock[index[h]] = h

(* TcpServer::shutDown(s, 0, c, kind), with c given: returns at once for a *)
(* slot that is free or already closing.                                   *)
ShutDown(s) ==
  IF state[s] = "Free" \/ closing[s]
  THEN UNCHANGED <<closing, late>>
  ELSE /\ closing' = [closing EXCEPT ![s] = TRUE]
       /\ late' = [late EXCEPT ![s] = FALSE]

(* S_CLIENT_BASE::Reset, then state st *)
ResetTo(s, st) ==
  /\ state' = [state EXCEPT ![s] = st]
  /\ sock' = [sock EXCEPT ![s] = NoHandle]
  /\ closing' = [closing EXCEPT ![s] = FALSE]
  /\ recvCompleted' = [recvCompleted EXCEPT ![s] = FALSE]
  /\ sendCompleted' = [sendCompleted EXCEPT ![s] = TRUE]
  /\ unsent' = [unsent EXCEPT ![s] = FALSE]
  /\ late' = [late EXCEPT ![s] = FALSE]

(* SendGameDataMessageLite may leave a reply in the send buffer. *)
MayReply(s) ==
  \E b \in {unsent[s], TRUE} : unsent' = [unsent EXCEPT ![s] = b]

(* WSARecv, WSASend and AcceptEx leave one more operation pending on h. *)
Post(m, h) == posted' = [posted EXCEPT ![<<m, h>>] = @ + 1]

(* RELEASE_SOCKET: the value may be reused, and what was posted on the     *)
(* socket, in the port or in a worker's hands, no longer belongs to it.    *)
Release(h) ==
  /\ inUse' = [inUse EXCEPT ![h] = FALSE]
  /\ posted' = [op \in Ops |-> IF op[2] = h THEN 0 ELSE posted[op]]
  /\ orphan' = [op \in Ops |-> IF op[2] = h THEN orphan[op] + posted[op]
                                            ELSE orphan[op]]
  /\ wown' = [w \in Workers |-> wown[w] /\ wop[w][2] # h]

WGoto(w, pc) == wpc' = [wpc EXCEPT ![w] = pc]
-----------------------------------------------------------------------------
Init ==
  /\ state = [s \in Slots |-> "Free"]
  /\ sock = [s \in Slots |-> NoHandle]
  /\ closing = [s \in Slots |-> FALSE]
  /\ recvCompleted = [s \in Slots |-> FALSE]
  /\ sendCompleted = [s \in Slots |-> TRUE]
  /\ unsent = [s \in Slots |-> FALSE]
  /\ late = [s \in Slots |-> FALSE]
  /\ index = [h \in Handles |-> NoSlot]
  /\ connectCount = 0
  /\ \E L \in SUBSET Handles :
       /\ Cardinality(L) <= MaxAccept
       /\ inUse = [h \in Handles |-> h \in L]
       /\ posted = [op \in Ops |->
                      IF op[1] = "accept" /\ op[2] \in L THEN 1 ELSE 0]
  /\ orphan = [op \in Ops |-> 0]
  /\ wpc = [w \in Workers |-> "idle"]
  /\ wop = [w \in Workers |-> NoOp]
  /\ wown = [w \in Workers |-> FALSE]
  /\ wflag = [w \in Workers |-> FALSE]
  /\ wslot = [w \in Workers |-> NoSlot]
  /\ mpc = "check"
  /\ mslot = 1
-----------------------------------------------------------------------------
(* Worker thread: TcpServer::run.                                          *)

(* pushContext and back to GetQueuedCompletionStatus *)
WDone(w) ==
  /\ WGoto(w, "idle")
  /\ wop' = [wop EXCEPT ![w] = NoOp]
  /\ wown' = [wown EXCEPT ![w] = FALSE]
  /\ wflag' = [wflag EXCEPT ![w] = FALSE]
  /\ wslot' = [wslot EXCEPT ![w] = NoSlot]

(* GetQueuedCompletionStatus returns a pending operation.  The kernel may  *)
(* complete any of them at any time and with any result.                   *)
Take(w, op, own) ==
  /\ wpc[w] = "idle"
  /\ IF own
     THEN /\ posted[op] > 0
          /\ posted' = [posted EXCEPT ![op] = @ - 1]
          /\ UNCHANGED orphan
     ELSE /\ orphan[op] > 0
          /\ orphan' = [orphan EXCEPT ![op] = @ - 1]
          /\ UNCHANGED posted
  /\ wop' = [wop EXCEPT ![w] = op]
  /\ wown' = [wown EXCEPT ![w] = own]
  /\ UNCHANGED <<slotVars, index, connectCount, inUse, wslot, mVars>>

(* iscomplete is false, or zero bytes for a receive or a send: shutDown    *)
(* with the operation's mode and no client, kinds 3001 and 3003.           *)
DequeueFailed(w) == \E op \in Ops, own \in BOOLEAN :
  /\ Take(w, op, own)
  /\ WGoto(w, "find")
  /\ wflag' = [wflag EXCEPT ![w] = TRUE]

DequeueDone(w) == \E op \in Ops, own \in BOOLEAN :
  /\ Take(w, op, own)
  /\ WGoto(w, op[1])
  /\ UNCHANGED wflag

(* shutDown(s, mode, NULL, kind): looks the client up and returns, without *)
(* setting its completed flag, if there is none or it is already closing.  *)
ShutDownFind(w) ==
  LET h == wop[w][2] s == index[h] IN
  /\ wpc[w] = "find"
  /\ IF Found(h) /\ state[s] # "Free" /\ ~closing[s]
     THEN /\ WGoto(w, "shut")
          /\ wslot' = [wslot EXCEPT ![w] = s]
          /\ UNCHANGED <<wop, wown, wflag>>
     ELSE WDone(w)
  /\ UNCHANGED <<slotVars, index, connectCount, osVars, mVars>>

(* ... and its second half, on the slot found, whatever it is by now *)
ShutDownMark(w) ==
  LET s == wslot[w] IN
  /\ wpc[w] = "shut"
  /\ recvCompleted' = [recvCompleted EXCEPT
                         ![s] = @ \/ (wflag[w] /\ wop[w][1] = "recv")]
  /\ sendCompleted' = [sendCompleted EXCEPT
                         ![s] = @ \/ (wflag[w] /\ wop[w][1] = "send")]
  /\ closing' = [closing EXCEPT ![s] = TRUE]
  /\ late' = [late EXCEPT ![s] = FALSE]
  /\ WDone(w)
  /\ UNCHANGED <<unsent, state, sock, index, connectCount, osVars, mVars>>

(* onRecv: look the client up; without one, shutDown(s, 0, NULL, 1001). *)
OnRecv(w) ==
  LET h == wop[w][2] IN
  /\ wpc[w] = "recv"
  /\ IF Found(h)
     THEN /\ WGoto(w, "save")
          /\ wslot' = [wslot EXCEPT ![w] = index[h]]
     ELSE /\ WGoto(w, "find")
          /\ UNCHANGED wslot
  /\ UNCHANGED <<slotVars, index, connectCount, osVars, wop, wown, wflag,
                 mVars>>

(* Mutant: a full buffer drops the data without shutting down. *)
OnRecvSaveDrops(w) ==
  /\ wpc[w] = "save"
  /\ recvCompleted' = [recvCompleted EXCEPT ![wslot[w]] = TRUE]
  /\ \/ WGoto(w, "rearm") /\ UNCHANGED <<wop, wown, wflag, wslot>>
     \/ WDone(w)
  /\ UNCHANGED <<state, sock, closing, sendCompleted, unsent, late, index,
                 connectCount, osVars, mVars>>

(* onRecv_SaveData: the bytes fit, or the buffer is full and onRecv calls  *)
(* shutDown(s, 0, NULL, 1002).  is_RecvCompleted is set either way.        *)
OnRecvSave(w) ==
  /\ wpc[w] = "save"
  /\ recvCompleted' = [recvCompleted EXCEPT ![wslot[w]] = TRUE]
  /\ \E pc \in {"rearm", "find"} : WGoto(w, pc)
  /\ UNCHANGED <<unsent, state, sock, closing, sendCompleted, late, index,
                 connectCount, osVars, wop, wown, wflag, wslot, mVars>>

(* onRecv posts the next receive; is_RecvCompleted is set again while that *)
(* receive is outstanding.                                                 *)
OnRecvRearm(w) ==
  LET h == wop[w][2] s == wslot[w] IN
  /\ wpc[w] = "rearm"
  /\ inUse[h]
  /\ Post("recv", h)
  /\ recvCompleted' = [recvCompleted EXCEPT ![s] = TRUE]
  /\ WDone(w)
  /\ UNCHANGED <<unsent, state, sock, closing, sendCompleted, late, index,
                 connectCount, inUse, orphan, mVars>>

(* WSARecv fails: shutDown(s, 0, c, 1003).  It may always fail, and does   *)
(* when the main thread has closed the handle.                             *)
OnRecvRearmFails(w) ==
  LET s == wslot[w] IN
  /\ wpc[w] = "rearm"
  /\ recvCompleted' = [recvCompleted EXCEPT ![s] = TRUE]
  /\ ShutDown(s)
  /\ WDone(w)
  /\ UNCHANGED <<unsent, state, sock, sendCompleted, index, connectCount,
                 osVars, mVars>>

(* onSend: a short send or an unknown client ends in shutDown(s, 0, NULL), *)
(* kinds 1005 and 1006.                                                    *)
OnSend(w) ==
  LET h == wop[w][2] IN
  /\ wpc[w] = "send"
  /\ \/ /\ WGoto(w, "find")
        /\ UNCHANGED wslot
     \/ /\ Found(h)
        /\ WGoto(w, "sent")
        /\ wslot' = [wslot EXCEPT ![w] = index[h]]
  /\ UNCHANGED <<slotVars, index, connectCount, osVars, wop, wown, wflag,
                 mVars>>

(* Mutant: the next receive is posted here too, as at the end of onRecv. *)
OnSendDoneRearms(w) ==
  LET h == wop[w][2] IN
  /\ wpc[w] = "sent"
  /\ sendCompleted' = [sendCompleted EXCEPT ![wslot[w]] = TRUE]
  /\ IF inUse[h] THEN Post("recv", h) ELSE UNCHANGED posted
  /\ WDone(w)
  /\ UNCHANGED <<state, sock, closing, recvCompleted, unsent, late, index,
                 connectCount, inUse, orphan, mVars>>

(* ... send_Head moves unless the client is closing; the flag is set. *)
OnSendDone(w) ==
  /\ wpc[w] = "sent"
  /\ sendCompleted' = [sendCompleted EXCEPT ![wslot[w]] = TRUE]
  /\ \E b \in {unsent[wslot[w]], FALSE} :
       unsent' = [unsent EXCEPT ![wslot[w]] = b]
  /\ WDone(w)
  /\ UNCHANGED <<state, sock, closing, recvCompleted, late, index,
                 connectCount, osVars, mVars>>
-----------------------------------------------------------------------------
(* onAccpet: a socket option fails, the port refuses the handle or the     *)
(* table is full (codes 3 to 8); the caller closes the accepted socket.    *)
OnAcceptRefused(w) ==
  /\ wpc[w] = "accept"
  /\ WGoto(w, "refuse")
  /\ UNCHANGED <<slotVars, index, connectCount, osVars, wop, wown, wflag,
                 wslot, mVars>>

(* getFreeLinker: reset a free slot and mark it connecting.  The scan is   *)
(* not ordered with the main thread freeing slots, so any free slot may be *)
(* the first it meets.                                                     *)
OnAcceptSlot(w) == \E s \in Slots :
  /\ wpc[w] = "accept"
  /\ state[s] = "Free"
  /\ ResetTo(s, "Connect")
  /\ wslot' = [wslot EXCEPT ![w] = s]
  /\ WGoto(w, "bind")
  /\ UNCHANGED <<index, connectCount, osVars, wop, wown, wflag, mVars>>

(* Mutant: the handle index is not set. *)
OnAcceptBindNoIndex(w) ==
  LET h == wop[w][2] s == wslot[w] IN
  /\ wpc[w] = "bind"
  /\ sock' = [sock EXCEPT ![s] = h]
  /\ late' = [late EXCEPT ![s] = FALSE]
  /\ WGoto(w, "first")
  /\ UNCHANGED <<state, closing, recvCompleted, sendCompleted, unsent, index,
                 connectCount, osVars, wop, wown, wflag, wslot, mVars>>

(* cindex->index = c->ID, then the slot is filled in *)
OnAcceptBind(w) ==
  LET h == wop[w][2] s == wslot[w] IN
  /\ wpc[w] = "bind"
  /\ index' = [index EXCEPT ![h] = s]
  /\ sock' = [sock EXCEPT ![s] = h]
  /\ state' = [state EXCEPT ![s] = "Connect"]
  /\ late' = [late EXCEPT ![s] = FALSE]
  /\ WGoto(w, "first")
  /\ UNCHANGED <<closing, recvCompleted, sendCompleted, unsent, connectCount,
                 osVars, wop, wown, wflag, wslot, mVars>>

(* postRecv *)
OnAcceptFirstRecv(w) ==
  LET h == wop[w][2] IN
  /\ wpc[w] = "first"
  /\ inUse[h]
  /\ Post("recv", h)
  /\ WGoto(w, "count")
  /\ UNCHANGED <<slotVars, index, connectCount, inUse, orphan, wop, wown,
                 wflag, wslot, mVars>>

(* postRecv fails: the slot is reset, code 9 *)
OnAcceptFirstRecvFails(w) ==
  /\ wpc[w] = "first"
  /\ ResetTo(wslot[w], "Free")
  /\ WGoto(w, "refuse")
  /\ UNCHANGED <<index, connectCount, osVars, wop, wown, wflag, wslot, mVars>>

(* updateConnect(true), the random code is sent, the context goes back *)
OnAcceptCount(w) ==
  /\ wpc[w] = "count"
  /\ connectCount' = connectCount + 1
  /\ unsent' = [unsent EXCEPT ![wslot[w]] = state[wslot[w]] # "Free"]
  /\ WGoto(w, "repost")
  /\ UNCHANGED <<state, sock, closing, recvCompleted, sendCompleted, late,
                 index, osVars, wop, wown, wflag, wslot, mVars>>

(* Mutant: kind 3004 falls through to the default case and is uncounted. *)
RefuseCloseCounts(w) ==
  /\ wpc[w] = "refuse"
  /\ Release(wop[w][2])
  /\ connectCount' = connectCount - 1
  /\ WGoto(w, "repost")
  /\ UNCHANGED <<slotVars, index, wop, wflag, wslot, mVars>>

(* closeSocket(s, NULL, 3004): no slot, no count, only RELEASE_SOCKET *)
RefuseClose(w) ==
  /\ wpc[w] = "refuse"
  /\ Release(wop[w][2])
  /\ WGoto(w, "repost")
  /\ UNCHANGED <<slotVars, index, connectCount, wop, wflag, wslot, mVars>>

(* Operations of earlier owners of h that no worker has finished with. *)
Orphans(h) ==
  orphan[<<"recv", h>>] + orphan[<<"send", h>>] + orphan[<<"accept", h>>]
  + Cardinality({w \in Workers : wop[w][2] = h /\ wpc[w] # "repost"})

(* Mutant: onAccpet posts the next accept and run() may post another. *)
PostAcceptTwice(w) == \E h \in Handles :
  /\ wpc[w] = "repost"
  /\ ~inUse[h]
  /\ Orphans(h) <= OrphanMax
  /\ inUse' = [inUse EXCEPT ![h] = TRUE]
  /\ Post("accept", h)
  /\ \/ WDone(w)
     \/ UNCHANGED wVars
  /\ UNCHANGED <<slotVars, index, connectCount, orphan, mVars>>

(* postAccept: WSASocket returns a handle that is not open and AcceptEx is *)
(* posted on it ...                                                        *)
PostAccept(w) == \E h \in Handles :
  /\ wpc[w] = "repost"
  /\ ~inUse[h]
  /\ Orphans(h) <= OrphanMax
  /\ inUse' = [inUse EXCEPT ![h] = TRUE]
  /\ Post("accept", h)
  /\ WDone(w)
  /\ UNCHANGED <<slotVars, index, connectCount, orphan, mVars>>

(* ... or it fails, and nobody tries again. *)
PostAcceptFails(w) ==
  /\ wpc[w] = "repost"
  /\ WDone(w)
  /\ UNCHANGED <<slotVars, index, connectCount, osVars, mVars>>

WorkerStep(w) ==
  \/ DequeueFailed(w) \/ DequeueDone(w)
  \/ ShutDownFind(w) \/ ShutDownMark(w)
  \/ OnRecv(w) \/ OnRecvSave(w) \/ OnRecvRearm(w) \/ OnRecvRearmFails(w)
  \/ OnSend(w) \/ OnSendDone(w)
  \/ OnAcceptRefused(w) \/ OnAcceptSlot(w) \/ OnAcceptBind(w)
  \/ OnAcceptFirstRecv(w) \/ OnAcceptFirstRecvFails(w) \/ OnAcceptCount(w)
  \/ RefuseClose(w) \/ PostAccept(w) \/ PostAcceptFails(w)
-----------------------------------------------------------------------------
(* Main thread: the loop of TcpServer::parseCommand() over the slots.      *)

MAdvance ==
  /\ mpc' = "check"
  /\ mslot' = IF mslot = MaxConnect THEN 1 ELSE mslot + 1

MGoto(pc) == mpc' = pc /\ UNCHANGED mslot

MSkip ==
  /\ mpc = "check"
  /\ state[mslot] = "Free"
  /\ MAdvance
  /\ UNCHANGED <<slotVars, index, connectCount, osVars, wVars>>

(* Mutant: no five second limit. *)
MCheckClosingNoLimit ==
  /\ mpc = "check"
  /\ state[mslot] # "Free"
  /\ closing[mslot]
  /\ IF recvCompleted[mslot] /\ sendCompleted[mslot]
        /\ sock[mslot] # NoHandle
     THEN MGoto("uncount")
     ELSE MAdvance
  /\ UNCHANGED <<slotVars, index, connectCount, osVars, wVars>>

(* checkConnect on a closing slot: closeSocket once both flags say that    *)
(* nothing is pending, or when five seconds have passed; closeSocket does  *)
(* nothing for a slot without a socket.                                    *)
MCheckClosing ==
  /\ mpc = "check"
  /\ state[mslot] # "Free"
  /\ closing[mslot]
  /\ IF /\ \/ recvCompleted[mslot] /\ sendCompleted[mslot]
           \/ late[mslot]
        /\ sock[mslot] # NoHandle
     THEN MGoto("uncount")
     ELSE MAdvance
  /\ UNCHANGED <<slotVars, index, connectCount, osVars, wVars>>

(* Mutant: a client whose time has run out is closed at once. *)
MCheckOpenCloses ==
  /\ mpc = "check"
  /\ state[mslot] # "Free"
  /\ ~closing[mslot]
  /\ MGoto(IF late[mslot] THEN "uncount" ELSE "parse")
  /\ UNCHANGED <<slotVars, index, connectCount, osVars, wVars>>

(* checkConnect on an open slot: ten seconds without a handshake or        *)
(* HeartTime without a frame lead to shutDown.                             *)
MCheckOpen ==
  /\ mpc = "check"
  /\ state[mslot] # "Free"
  /\ ~closing[mslot]
  /\ IF late[mslot]
     THEN ShutDown(mslot) /\ MAdvance
     ELSE MGoto("parse") /\ UNCHANGED <<closing, late>>
  /\ UNCHANGED <<unsent, state, sock, recvCompleted, sendCompleted, index,
                 connectCount, osVars, wVars>>

(* closeSocket: updateConnect(false) *)
MUncount ==
  /\ mpc = "uncount"
  /\ connectCount' = connectCount - 1
  /\ MGoto("release")
  /\ UNCHANGED <<slotVars, index, osVars, wVars>>

(* closeSocket: shutdown and RELEASE_SOCKET *)
MRelease ==
  /\ mpc = "release"
  /\ Release(sock[mslot])
  /\ MGoto("reset")
  /\ UNCHANGED <<slotVars, index, connectCount, wpc, wop, wflag, wslot>>

(* Mutant: the disconnect handler leaves a secure client as it is. *)
MResetNotSecure ==
  /\ mpc = "reset"
  /\ IF state[mslot] = "Connect"
     THEN ResetTo(mslot, "Free")
     ELSE UNCHANGED slotVars
  /\ MGoto("parse")
  /\ UNCHANGED <<index, connectCount, osVars, wVars>>

(* closeSocket: onDisconnectEvent, whose handler resets the slot.  The     *)
(* main loop then goes on with the same slot.                              *)
MReset ==
  /\ mpc = "reset"
  /\ ResetTo(mslot, "Free")
  /\ MGoto("parse")
  /\ UNCHANGED <<index, connectCount, osVars, wVars>>

(* A worker closed the slot since checkConnect, or the slot's frames are   *)
(* parsed; it may still be shut down before they are.                      *)
MParseEnter ==
  /\ mpc = "parse"
  /\ IF closing[mslot] THEN MAdvance ELSE MGoto("frames")
  /\ UNCHANGED <<slotVars, index, connectCount, osVars, wVars>>

(* No data is announced. *)
MParseNone ==
  /\ mpc = "frames"
  /\ ~recvCompleted[mslot] \/ state[mslot] = "Free"
  /\ MGoto("send")
  /\ UNCHANGED <<slotVars, index, connectCount, osVars, wVars>>

MParsing ==
  /\ mpc = "frames"
  /\ recvCompleted[mslot]
  /\ state[mslot] # "Free"

(* No whole frame is left: the flag is cleared. *)
MParseEnd ==
  /\ MParsing
  /\ recvCompleted' = [recvCompleted EXCEPT ![mslot] = FALSE]
  /\ MGoto("send")
  /\ UNCHANGED <<unsent, state, sock, closing, sendCompleted, late, index,
                 connectCount, osVars, wVars>>

(* Frame head mismatch, perhaps after the frame that makes the client      *)
(* secure: shutDown(c, 2001) with the flag still set.                      *)
MParseBadHead ==
  /\ MParsing
  /\ \E st \in {state[mslot], "Secure"} : state' = [state EXCEPT ![mslot] = st]
  /\ ShutDown(mslot)
  /\ MayReply(mslot)
  /\ MAdvance
  /\ UNCHANGED <<sock, recvCompleted, sendCompleted, index, connectCount,
                 osVars, wVars>>

(* Mutant: every frame renews the connect time as well. *)
MParseRejectedRenews ==
  /\ MParsing
  /\ state[mslot] = "Connect"
  /\ late' = [late EXCEPT ![mslot] = FALSE]
  /\ MayReply(mslot)
  /\ MGoto("send")
  /\ UNCHANGED <<state, sock, closing, recvCompleted, sendCompleted, index,
                 connectCount, osVars, wVars>>

(* A frame that leaves the slot connecting: parseCommand returns with the  *)
(* flag set and the frame unread.  time_Heart is renewed, but not          *)
(* time_Connet, whose ten seconds run out before HeartTime.                *)
MParseRejected ==
  /\ MParsing
  /\ state[mslot] = "Connect"
  /\ MayReply(mslot)
  /\ MGoto("send")
  /\ UNCHANGED <<state, sock, closing, recvCompleted, sendCompleted, late,
                 index, connectCount, osVars, wVars>>

(* Frames of a secure client, or the one that makes it secure.  They renew *)
(* time_Heart; the limit of a client closed meanwhile runs on.             *)
MParseFrames ==
  /\ MParsing
  /\ state' = [state EXCEPT ![mslot] = "Secure"]
  /\ late' = [late EXCEPT ![mslot] = @ /\ closing[mslot]]
  /\ recvCompleted' = [recvCompleted EXCEPT ![mslot] = FALSE]
  /\ MayReply(mslot)
  /\ MGoto("send")
  /\ UNCHANGED <<sock, closing, sendCompleted, index, connectCount, osVars,
                 wVars>>

(* A handler or a reply shuts the client down (2004, 2005, 2006, 4001).    *)
(* For a secure client the loop over the frames goes on to its end and     *)
(* clears the flag; for a connecting one it returns with the flag set.     *)
MParseShutDown ==
  /\ MParsing
  /\ \E st \in {state[mslot], "Secure"} :
       /\ state' = [state EXCEPT ![mslot] = st]
       /\ recvCompleted' = [recvCompleted EXCEPT ![mslot] = st = "Connect"]
  /\ ShutDown(mslot)
  /\ MayReply(mslot)
  /\ MAdvance
  /\ UNCHANGED <<sock, sendCompleted, index, connectCount, osVars, wVars>>

(* Mutant: postSend does not look at is_SendCompleted. *)
MSendingUngated ==
  /\ mpc = "send"
  /\ unsent[mslot]
  /\ state[mslot] # "Free"
  /\ ~closing[mslot]
  /\ sock[mslot] # NoHandle
  /\ sendCompleted' = [sendCompleted EXCEPT ![mslot] = FALSE]
  /\ MAdvance

(* postSend returns: a send is outstanding, nothing to send, or no client. *)
MSendNone ==
  /\ mpc = "send"
  /\ MAdvance
  /\ UNCHANGED <<slotVars, index, connectCount, osVars, wVars>>

MSending ==
  /\ mpc = "send"
  /\ sendCompleted[mslot]
  /\ unsent[mslot]
  /\ state[mslot] # "Free"
  /\ ~closing[mslot]
  /\ sock[mslot] # NoHandle
  /\ sendCompleted' = [sendCompleted EXCEPT ![mslot] = FALSE]
  /\ MAdvance

MSend ==
  /\ MSending
  /\ Post("send", sock[mslot])
  /\ UNCHANGED <<unsent, state, sock, closing, recvCompleted, late, index,
                 connectCount, inUse, orphan, wVars>>

(* WSASend fails: shutDown(s, 0, c, 1004), and the flag stays cleared. *)
MSendFails ==
  /\ MSending
  /\ ShutDown(mslot)
  /\ UNCHANGED <<unsent, state, sock, recvCompleted, index, connectCount,
                 osVars, wVars>>

MainStep ==
  \/ MSkip \/ MCheckClosing \/ MCheckOpen
  \/ MUncount \/ MRelease \/ MReset
  \/ MParseEnter \/ MParseNone \/ MParseEnd \/ MParseBadHead \/ MParseRejected
  \/ MParseFrames \/ MParseShutDown
  \/ MSendNone \/ MSend \/ MSendFails
-----------------------------------------------------------------------------
(* Between getFreeLinker and its first WSARecv a worker still fills s in. *)
Filling(w, s) == wslot[w] = s /\ wpc[w] \in {"bind", "first"}

(* time(NULL) passes the limit of the phase the slot is in.  The clock is  *)
(* assumed not to pass the ten seconds of a new connection while the       *)
(* worker runs the few statements that fill its slot in.                   *)
Tick(s) ==
  /\ state[s] # "Free"
  /\ \A w \in Workers : ~Filling(w, s)
  /\ ~late[s]
  /\ late' = [late EXCEPT ![s] = TRUE]
  /\ UNCHANGED <<unsent, state, sock, closing, recvCompleted, sendCompleted,
                 index, connectCount, osVars, wVars, mVars>>

Next ==
  \/ \E w \in Workers : WorkerStep(w)
  \/ MainStep
  \/ \E s \in Slots : Tick(s)

Spec == Init /\ [][Next]_vars

(* The main loop never stops, a worker that has dequeued something runs on *)
(* and the clock advances.  Nothing is assumed of peers or of the kernel.  *)
WorkerRuns(w) == wpc[w] # "idle" /\ WorkerStep(w)

FairSpec ==
  /\ Spec
  /\ WF_vars(MainStep)
  /\ \A w \in Workers : WF_vars(WorkerRuns(w))
  /\ \A s \in Slots : WF_vars(Tick(s))
-----------------------------------------------------------------------------
AcceptPCs == {"accept", "bind", "first", "count", "refuse", "repost"}
WorkerPCs == AcceptPCs \cup
             {"idle", "find", "shut", "recv", "save", "rearm", "send", "sent"}
MainPCs == {"check", "uncount", "release", "reset", "parse", "frames", "send"}

(* Every variable keeps the shape its declaration in INetBase.h and        *)
(* TcpServer.h gives it.                                                   *)
TypeOK ==
  /\ state \in [Slots -> {"Free", "Connect", "Secure"}]
  /\ sock \in [Slots -> Handles \cup {NoHandle}]
  /\ closing \in [Slots -> BOOLEAN]
  /\ recvCompleted \in [Slots -> BOOLEAN]
  /\ sendCompleted \in [Slots -> BOOLEAN]
  /\ unsent \in [Slots -> BOOLEAN]
  /\ late \in [Slots -> BOOLEAN]
  /\ index \in [Handles -> Slots \cup {NoSlot}]
  /\ connectCount \in Int
  /\ inUse \in [Handles -> BOOLEAN]
  /\ posted \in [Ops -> Nat]
  /\ orphan \in [Ops -> Nat]
  /\ wpc \in [Workers -> WorkerPCs]
  /\ wop \in [Workers -> Ops \cup {NoOp}]
  /\ wown \in [Workers -> BOOLEAN]
  /\ wflag \in [Workers -> BOOLEAN]
  /\ wslot \in [Workers -> Slots \cup {NoSlot}]
  /\ mpc \in MainPCs
  /\ mslot \in Slots

Resetting(s) == mpc = "reset" /\ mslot = s

(* One client slot per socket.  A slot names an open socket that no other  *)
(* slot names, so a close never hits another connection.  The exception is *)
(* the slot closeSocket is about to reset: its handle value is closed and  *)
(* may be reused already.  (onAccpet, closeSocket, Reset)                  *)
HandleOwned == \A s \in Slots : sock[s] # NoHandle /\ ~Resetting(s) =>
  /\ inUse[sock[s]]
  /\ \A t \in Slots \ {s} : sock[t] = sock[s] => Resetting(t)

(* Why a socket has one owner, as an inductive invariant for one worker.   *)

(* What a worker's program counter says of the operation and slot it holds *)
WorkerShape == \A w \in Workers :
  /\ wpc[w] # "idle" => wop[w] \in Ops
  /\ wpc[w] \in {"bind", "first", "count", "save", "rearm", "sent", "shut"}
       => wslot[w] \in Slots

Unowned(h) == \A s \in Slots : sock[s] = h => Resetting(s)

(* A handle with AcceptEx posted is open and no slot's; it is posted once. *)
AcceptPosted == \A h \in Handles :
  /\ posted[<<"accept", h>>] <= 1
  /\ orphan[<<"accept", h>>] = 0
  /\ posted[<<"accept", h>>] > 0 => inUse[h] /\ Unowned(h)

(* The socket a worker has just accepted is still open, and no slot's      *)
(* until it is bound.                                                      *)
AcceptHeld == \A w \in Workers :
  wpc[w] \in {"accept", "bind", "first", "refuse"} =>
    /\ wop[w][1] = "accept"
    /\ inUse[wop[w][2]]
    /\ posted[<<"accept", wop[w][2]>>] = 0
    /\ IF wpc[w] = "first"
       THEN sock[wslot[w]] = wop[w][2]
       ELSE Unowned(wop[w][2])

(* The main thread finds nothing to do on a slot that is being filled in.  *)
FillingUntouched == \A w \in Workers, s \in Slots : Filling(w, s) =>
  /\ state[s] = "Connect"
  /\ ~closing[s] /\ ~recvCompleted[s] /\ ~unsent[s] /\ ~late[s]

(* The slot the main thread is closing stays as it found it. *)
ClosingStable ==
  /\ mpc \in {"uncount", "release", "reset"} =>
       state[mslot] # "Free" /\ closing[mslot]
  /\ mpc \in {"uncount", "release"} => sock[mslot] # NoHandle

(* Together: the socket of a slot has one owner (HandleOwned), because an  *)
(* accepted socket belongs to one worker until it is bound, and because    *)
(* worker and main thread never work on the same slot's socket.            *)
OwnershipInv ==
  /\ TypeOK
  /\ WorkerShape
  /\ HandleOwned
  /\ AcceptPosted
  /\ AcceptHeld
  /\ FillingUntouched
  /\ ClosingStable

(* m_ConnectCount is the number of slots in use, less those a worker has   *)
(* taken but not yet counted and the one the main thread has uncounted but *)
(* not yet freed: no order of accepts, failures and closes makes it drift. *)
CountMatches ==
  connectCount =
    Cardinality({s \in Slots : state[s] # "Free"})
    - Cardinality({w \in Workers : wpc[w] \in {"bind", "first", "count"}})
    - (IF mpc \in {"release", "reset"} THEN 1 ELSE 0)

(* Operations on an open socket that a worker has dequeued. *)
InHand(m, h) == {w \in Workers : wop[w] = <<m, h>> /\ wown[w]}

(* A connection that is not being closed always has a receive posted or in *)
(* a worker's hands: no error path of onRecv leaves it open and deaf.      *)
NeverDeaf == \A s \in Slots :
  \/ state[s] = "Free"
  \/ closing[s]
  \/ \E w \in Workers : Filling(w, s)
  \/ posted[<<"recv", sock[s]>>] > 0
  \/ InHand("recv", sock[s]) # {}

(* While a handle is open, the slot that posted a receive or a send on it  *)
(* is the one client(SOCKET, true) returns for the completion, and a slot  *)
(* is not given up with operations posted on an open handle.               *)
FindsOwner == \A m \in {"recv", "send"}, h \in Handles :
  posted[<<m, h>>] > 0 \/ InHand(m, h) # {} => Found(h)

(* At most one receive is outstanding per socket; with two, the bytes of a *)
(* connection could be appended to recvBuf in the wrong order.             *)
OneRecv == \A h \in Handles :
  posted[<<"recv", h>>] + Cardinality(InHand("recv", h)) <= 1

(* is_SendCompleted is the send gate: while it is set on a connection that *)
(* is not closing no send is posted, so postSend never starts a second one *)
(* from the same send_Head.                                                *)
SendGate == \A s \in Slots :
  sock[s] # NoHandle /\ sendCompleted[s] /\ ~closing[s] =>
    posted[<<"send", sock[s]>>] = 0

(* "MaxAccpet: largest number of posted connections" (IDefine.h): accepts  *)
(* outstanding and in workers' hands never exceed what initPost posted.    *)
AcceptsBounded ==
  Cardinality({h \in Handles : posted[<<"accept", h>>] > 0})
  + Cardinality({w \in Workers : wpc[w] \in AcceptPCs}) <= MaxAccept

(* Why these hold, as an inductive invariant for one worker.               *)

(* LinkersIndexs names the slot of every socket in use, and the slots with *)
(* a socket are those in use, but for the one that is being filled in.     *)
Indexed == \A s \in Slots :
  /\ sock[s] # NoHandle => state[s] # "Free" /\ (Resetting(s) \/ index[sock[s]] = s)
  /\ sock[s] = NoHandle => state[s] = "Free" \/ \E w \in Workers : Filling(w, s)

(* What a worker does is for the operation it dequeued, and the slot it    *)
(* looked up stays that of the operation's socket until it is closed.      *)
HandShape == \A w \in Workers :
  /\ wpc[w] = "idle" => ~wown[w]
  /\ wpc[w] \in AcceptPCs => wop[w][1] = "accept"
  /\ wpc[w] \in {"send", "sent"} => wop[w][1] = "send"
  /\ wown[w] /\ wpc[w] \in {"save", "rearm", "shut"} =>
       wslot[w] = index[wop[w][2]]

(* The slot a worker goes on with has not been given to another socket: it *)
(* has the one that the operation was dequeued for, or it is free again.   *)
HandKept == \A w \in Workers :
  wpc[w] \in {"save", "rearm", "shut", "sent", "count"} =>
    state[wslot[w]] = "Free" \/ sock[wslot[w]] = wop[w][2]

ConnInv ==
  /\ OwnershipInv
  /\ Indexed /\ HandShape /\ HandKept
  /\ NeverDeaf /\ CountMatches /\ AcceptsBounded

(* The same where a handle value is not reused before it is drained        *)
(* (OrphanMax = 0).                                                        *)

(* What is left of a closed socket is never an open one's. *)
Drained ==
  /\ \A m \in {"recv", "send"}, h \in Handles : inUse[h] => orphan[<<m, h>>] = 0
  /\ \A w \in Workers :
       /\ wpc[w] \notin AcceptPCs \cup {"idle"} /\ inUse[wop[w][2]] => wown[w]
       /\ wpc[w] \in {"recv", "save", "rearm"} => wop[w][1] = "recv"
       /\ wpc[w] = "sent" => IF wown[w] THEN wslot[w] = index[wop[w][2]]
                             ELSE sock[wslot[w]] = NoHandle \/ closing[wslot[w]]

(* A slot has no socket before it is bound, and that socket nothing posted *)
(* before its first receive.                                               *)
FirstQuiet == \A w \in Workers :
  /\ wpc[w] = "bind" => sock[wslot[w]] = NoHandle
  /\ wpc[w] = "first" =>
       \A m \in {"recv", "send"} : posted[<<m, wop[w][2]>>] = 0

(* A slot about to be reset owns no operation of an open socket. *)
Abandoned == \A m \in {"recv", "send"}, h \in Handles :
  posted[<<m, h>>] > 0 \/ InHand(m, h) # {} => ~Resetting(index[h])

(* No second send, posted or in hand. *)
OneSend ==
  /\ \A h \in Handles :
       posted[<<"send", h>>] + Cardinality(InHand("send", h)) <= 1
  /\ \A s \in Slots : sock[s] # NoHandle /\ sendCompleted[s] /\ ~closing[s] =>
       InHand("send", sock[s]) = {}

DrainedInv ==
  /\ ConnInv
  /\ Drained /\ FirstQuiet
  /\ FindsOwner /\ Abandoned
  /\ OneRecv /\ OneSend /\ SendGate

(* A connection that is no longer being set up. *)
Serving(s) == state[s] # "Free" /\ \A w \in Workers : ~Filling(w, s)

(* What a thread may change of the client in a slot; the clock is not it. *)
Client(s) == <<state[s], sock[s], closing[s], recvCompleted[s],
               sendCompleted[s], unsent[s]>>

(* A step of w that changes the client in s is for an operation on the     *)
(* handle that client has.                                                 *)
OwnOnly(w, s) ==
  wpc'[w] # wpc[w] /\ Serving(s) /\ Client(s)' # Client(s)
    => wop[w][2] = sock[s]

(* The slot found for a completion is used steps later, when the main      *)
(* thread may have closed it: a worker never marks, shuts down or empties  *)
(* the next connection in a slot for a socket that had the slot before.    *)
(* It may do so if the next one has the same handle value and the          *)
(* completion was late (OrphanMax > 0): a handle is all it knows.          *)
NoCrossTalk == [][\A w \in Workers, s \in Slots : OwnOnly(w, s)]_vars

(* What the walk over the slots and the workers do to each other's slots.  *)
Phase == [s \in Slots |->
            IF \E w \in Workers : Filling(w, s) THEN "Free" ELSE state[s]]
Closed == {s \in Slots : state[s] # "Free" /\ closing[s]}

Walk == INSTANCE SlotWalk WITH phase <- Phase, closed <- Closed, at <- mslot

(* ServerConn keeps to it: a slot opens with its first receive, is shut    *)
(* down by either side, and is freed only by the walk and only then.       *)
WalkSlots == Walk!Spec

(* A closing slot becomes free, whichever of its completions were lost,    *)
(* failed before closeState was set or never arrive: the five second limit *)
(* of checkConnect backs up the two flags.                                 *)
ClosingReclaimed == \A s \in Slots :
  (closing[s] /\ state[s] # "Free") ~> state[s] = "Free"

(* No connection stays in S_Connect: the handshake succeeds, or checkConn- *)
(* ect shuts it down and frees it, even when the client's rejected frame   *)
(* is parsed and answered again in every loop.                             *)
HandshakeDeadline == \A s \in Slots :
  state[s] = "Connect" ~> state[s] # "Connect"
=============================================================================
