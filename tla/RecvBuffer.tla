---------------------------- MODULE RecvBuffer ----------------------------
(***************************************************************************)
(* The receive buffer of one secure connection: a worker appends what a    *)
(* receive brought (TcpServer::onRecv, onRecv_SaveData) while the main     *)
(* thread takes frames out of it (TcpServer::parseCommand(c)).  Neither    *)
(* takes a lock.  A step is an access to recv_Head, recv_Tail,             *)
(* is_RecvCompleted or the bytes, in source order.                         *)
(*                                                                         *)
(* The unit of length is eight bytes, so that the test "more than 7 bytes" *)
(* is "at least one unit".  The ten bytes of a frame's head fill its first *)
(* unit (mark, length, command) and begin its second (handle code), so a   *)
(* frame has two units or more.  The client is one that frames its stream  *)
(* correctly.                                                              *)
(***************************************************************************)
EXTENDS Integers

CONSTANTS
  ReceMax,     \* size of recvBuf
  ReceOne,     \* most that one receive brings
  StreamLen,   \* bound: what the client sends in all
  FrameLen,    \* first byte of a frame of the stream -> length of the frame
  TornTest     \* the buffer may start again at 0 inside the loop test

Starts == DOMAIN FrameLen

ASSUME RecvOK ==
  /\ ReceMax \in Nat \ {0}
  /\ ReceOne \in Nat \ {0}
  /\ StreamLen \in Nat \ {0}
  /\ TornTest \in BOOLEAN
  /\ FrameLen \in [Starts -> Nat \ {0, 1}]
  /\ 1 \in Starts
  /\ Starts \subseteq 1 .. StreamLen
  /\ \A k \in Starts : k + FrameLen[k] \in Starts \cup {StreamLen + 1}

Cells == 0 .. ReceMax - 1
Garbage == 0

VARIABLES
  head, tail,        \* recv_Head, recv_Tail
  buf,               \* recvBuf: which byte of the stream each cell holds
  recvCompleted,     \* is_RecvCompleted
  closing,           \* closeState = S_CLOSE_SHUTDOWN
  wpc, wn,           \* worker in onRecv, with wn bytes
  mpc,               \* main thread
  mtail,             \* the recv_Tail it has loaded
  mframe,            \* the frame whose head it has read
  mcode,             \* and where it read the handle code: a byte of the stream
  put, got, last     \* the stream: saved, parsed, last frame handled

wVars == <<wpc, wn>>
mVars == <<mpc, mtail, mframe, mcode>>
vars == <<head, tail, buf, recvCompleted, closing, wVars, mVars, put, got,
          last>>
stream == <<put, got, last>>
-----------------------------------------------------------------------------
Init ==
  /\ head = 0
  /\ tail = 0
  /\ buf = [i \in Cells |-> Garbage]
  /\ recvCompleted = FALSE
  /\ closing = FALSE
  /\ wpc = "idle" /\ wn = 0
  /\ mpc = "check" /\ mtail = 0 /\ mframe = Garbage /\ mcode = Garbage
  /\ put = 0 /\ got = 0 /\ last = <<>>
-----------------------------------------------------------------------------
(* Worker: a receive completes with what the client has sent.              *)
Receive == \E n \in 1 .. ReceOne :
  /\ wpc = "idle"
  /\ put + n <= StreamLen
  /\ wn' = n
  /\ wpc' = "compare"
  /\ UNCHANGED <<head, tail, buf, recvCompleted, closing, mVars, stream>>

(* onRecv_SaveData: an empty buffer starts again at 0.  This writes        *)
(* recv_Head, which is otherwise the main thread's.                        *)
SaveCompare ==
  /\ wpc = "compare"
  /\ wpc' = IF head = tail THEN "zerotail" ELSE "save"
  /\ UNCHANGED <<head, tail, buf, recvCompleted, closing, wn, mVars, stream>>

SaveZeroTail ==
  /\ wpc = "zerotail"
  /\ tail' = 0
  /\ wpc' = "zerohead"
  /\ UNCHANGED <<head, buf, recvCompleted, closing, wn, mVars, stream>>

(* parseCommand's test recv_Tail - recv_Head > 7 loads recv_Tail first.     *)
(* Unless TornTest, it is not so slow that both stores of the reset fall   *)
(* between its two loads.                                                  *)
SaveZeroHead ==
  /\ wpc = "zerohead"
  /\ TornTest \/ ~(mpc = "head" /\ mtail > 0)
  /\ head' = 0
  /\ wpc' = "save"
  /\ UNCHANGED <<tail, buf, recvCompleted, closing, wn, mVars, stream>>

(* Mutant: the capacity test lets one byte too many in. *)
SaveCopyPast ==
  /\ wpc = "save"
  /\ tail + wn <= ReceMax + 1
  /\ buf' = [i \in Cells |-> IF i \in tail .. tail + wn - 1
                             THEN put + 1 + (i - tail) ELSE buf[i]]
  /\ tail' = tail + wn
  /\ put' = put + wn
  /\ wpc' = "flag"
  /\ UNCHANGED <<head, recvCompleted, closing, wn, mVars, got, last>>

(* The bytes are copied behind recv_Tail, which then moves past them. *)
SaveCopy ==
  /\ wpc = "save"
  /\ tail + wn <= ReceMax
  /\ buf' = [i \in Cells |-> IF i \in tail .. tail + wn - 1
                             THEN put + 1 + (i - tail) ELSE buf[i]]
  /\ tail' = tail + wn
  /\ put' = put + wn
  /\ wpc' = "flag"
  /\ UNCHANGED <<head, recvCompleted, closing, wn, mVars, got, last>>

SaveFlag ==
  /\ wpc = "flag"
  /\ recvCompleted' = TRUE
  /\ wpc' = "post"
  /\ UNCHANGED <<head, tail, buf, closing, wn, mVars, stream>>

(* The buffer is full: the flag, then shutDown 1002; no receive follows.   *)
SaveFull ==
  /\ wpc = "save"
  /\ tail + wn > ReceMax
  /\ recvCompleted' = TRUE
  /\ wpc' = "shut"
  /\ UNCHANGED <<head, tail, buf, closing, wn, mVars, stream>>

(* onRecv posts the next receive and sets the flag again, or that fails:   *)
(* the flag, then shutDown 1003.                                           *)
Rearm ==
  /\ wpc = "post"
  /\ recvCompleted' = TRUE
  /\ wpc' \in {"idle", "shut"}
  /\ UNCHANGED <<head, tail, buf, closing, wn, mVars, stream>>

ShutDown ==
  /\ wpc = "shut"
  /\ closing' = TRUE
  /\ wpc' = "stop"
  /\ UNCHANGED <<head, tail, buf, recvCompleted, wn, mVars, stream>>
-----------------------------------------------------------------------------
(* Main thread: parseCommand() skips a closing client, and                 *)
(* parseCommand(c) one without data.                                       *)
Enter ==
  /\ mpc = "check"
  /\ ~closing
  /\ recvCompleted
  /\ mpc' = "loop"
  /\ UNCHANGED <<head, tail, buf, recvCompleted, closing, wVars, mtail, mframe,
                 mcode, stream>>

(* The first load of recv_Tail - recv_Head > 7 *)
LoopTest ==
  /\ mpc = "loop"
  /\ mtail' = tail
  /\ mpc' = "head"
  /\ UNCHANGED <<head, tail, buf, recvCompleted, closing, wVars, mframe,
                 mcode, stream>>

(* ... and the second.  With data, the frame head is compared (a mismatch  *)
(* is shutDown 2001) and the length, the command and the handle code are   *)
(* read: the code too, which the loop test says nothing of.  If it has not *)
(* arrived yet, mcode is what its place in recvBuf held before.            *)
ReadHead ==
  /\ mpc = "head"
  /\ IF mtail - head < 1
     THEN mpc' = "clear" /\ UNCHANGED <<closing, mframe, mcode>>
     ELSE IF buf[head] \in Starts
     THEN /\ mpc' = "length"
          /\ mframe' = buf[head]
          /\ mcode' = IF head + 1 \in Cells THEN buf[head + 1] ELSE Garbage
          /\ UNCHANGED closing
     ELSE /\ mpc' = "check"
          /\ closing' = TRUE
          /\ UNCHANGED <<mframe, mcode>>
  /\ UNCHANGED <<head, tail, buf, recvCompleted, wVars, mtail, stream>>

Len == IF mframe \in Starts THEN FrameLen[mframe] ELSE 0

(* Mutant: the length is not compared with what has arrived. *)
LengthUnchecked ==
  /\ mpc = "length"
  /\ mpc' = "handle"
  /\ UNCHANGED <<head, tail, buf, recvCompleted, closing, wVars, mtail, mframe,
                 mcode, stream>>

(* recv_Tail < recv_Head + length: wait for the rest, else handle it. *)
Length ==
  /\ mpc = "length"
  /\ mpc' = IF tail < head + Len THEN "clear" ELSE "handle"
  /\ UNCHANGED <<head, tail, buf, recvCompleted, closing, wVars, mtail, mframe,
                 mcode, stream>>

(* The handler gets the command and the handle code that were read and     *)
(* reads the rest of the frame from recvBuf.  last is what it takes from   *)
(* the stream; mcode, which may be another frame's, stands beside it.      *)
Handle ==
  /\ mpc = "handle"
  /\ last' = [i \in 1 .. Len |-> IF i = 1 THEN mframe ELSE buf[head + i - 1]]
  /\ got' = got + Len
  /\ mpc' = "advance"
  /\ UNCHANGED <<head, tail, buf, recvCompleted, closing, wVars, mtail, mframe,
                 mcode, put>>

(* Mutant: recv_Head moves past the head of the frame only. *)
AdvanceHeadOnly ==
  /\ mpc = "advance"
  /\ head' = head + 1
  /\ mpc' = "loop"
  /\ UNCHANGED <<tail, buf, recvCompleted, closing, wVars, mtail, mframe,
                 mcode, stream>>

(* Mutant: one frame per call. *)
AdvanceOnce ==
  /\ mpc = "advance"
  /\ head' = head + Len
  /\ mpc' = "clear"
  /\ UNCHANGED <<tail, buf, recvCompleted, closing, wVars, mtail, mframe,
                 mcode, stream>>

(* recv_Head += length *)
Advance ==
  /\ mpc = "advance"
  /\ head' = head + Len
  /\ mpc' = "loop"
  /\ UNCHANGED <<tail, buf, recvCompleted, closing, wVars, mtail, mframe,
                 mcode, stream>>

(* is_RecvCompleted = false, whatever has arrived since the loop test *)
Clear ==
  /\ mpc = "clear"
  /\ recvCompleted' = FALSE
  /\ mpc' = "check"
  /\ UNCHANGED <<head, tail, buf, closing, wVars, mtail, mframe, mcode,
                 stream>>
-----------------------------------------------------------------------------
Worker ==
  \/ Receive \/ SaveCompare \/ SaveZeroTail \/ SaveZeroHead \/ SaveCopy
  \/ SaveFlag \/ SaveFull \/ Rearm \/ ShutDown

Main ==
  \/ Enter \/ LoopTest \/ ReadHead \/ Length \/ Handle \/ Advance
  \/ Clear

Next == Worker \/ Main

Spec == Init /\ [][Next]_vars

(* The main loop never stops and a worker in onRecv runs on. *)
FairSpec == Spec /\ WF_vars(Main) /\ WF_vars(wpc # "idle" /\ Worker)
-----------------------------------------------------------------------------
WorkerPCs == {"idle", "compare", "zerotail", "zerohead", "save", "flag",
              "post", "shut", "stop"}
MainPCs == {"check", "loop", "head", "length", "handle", "advance", "clear"}

(* The positions stay inside recvBuf. *)
TypeOK ==
  /\ head \in 0 .. ReceMax
  /\ tail \in 0 .. ReceMax
  /\ buf \in [Cells -> 0 .. StreamLen]
  /\ recvCompleted \in BOOLEAN
  /\ closing \in BOOLEAN
  /\ wpc \in WorkerPCs
  /\ wn \in 0 .. ReceOne
  /\ mpc \in MainPCs
  /\ mtail \in 0 .. ReceMax
  /\ mframe \in Starts \cup {Garbage}
  /\ mcode \in 0 .. StreamLen
  /\ put \in 0 .. StreamLen
  /\ got \in 0 .. StreamLen

(* parseCommand takes the client's commands and their payload in the order *)
(* they were sent, each once, although the worker appends, and starts the  *)
(* buffer again at 0, while it parses: recvBuf implements the byte stream. *)
(* The handle code is read earlier and is not part of this: see OwnCode.   *)
BS == INSTANCE ByteStream WITH StreamLen <- StreamLen,
                                put <- put, got <- got, last <- last
InOrder == BS!Spec

(* A client that frames its stream correctly is never shut down for a bad  *)
(* frame head (2001): only a full buffer or a failed WSARecv ends it.      *)
HonestKept == closing => wpc = "stop"

(* Where parsing stands: what is handled, less the frame that recv_Head    *)
(* has not passed yet.                                                     *)
Parsed == IF mpc = "advance" THEN got - Len ELSE got

(* The unread bytes lie between recv_Head and recv_Tail in stream order,   *)
(* except while the worker starts an empty buffer again at 0.              *)
Backlog ==
  /\ wpc = "zerotail" => head = tail
  /\ IF wpc = "zerohead" THEN tail = 0 /\ put = Parsed
                         ELSE head <= tail /\ put - Parsed = tail - head
  /\ \A i \in Cells : head <= i /\ i < tail => buf[i] = Parsed + 1 + (i - head)

(* The frame in hand is the next one, and all of it is unread. *)
FrameInHand ==
  /\ mpc \in {"length", "handle", "advance"} =>
       /\ wpc \notin {"zerotail", "zerohead"}
       /\ head < tail
       /\ mframe = Parsed + 1
       /\ mframe \in Starts
  /\ mpc \in {"handle", "advance"} => head + Len <= tail
  /\ mpc = "head" => mtail <= (IF wpc = "zerohead" THEN head ELSE tail)
  /\ Parsed \in 0 .. StreamLen
  /\ Parsed + 1 \in Starts \cup {StreamLen + 1}

(* The handle code is that of the frame in hand if its bytes had arrived   *)
(* when the loop test loaded recv_Tail.  Otherwise the worker may save the *)
(* rest of the frame after the code is read and before the length is       *)
(* compared, and the frame is handled with a code that is not its own.     *)
OwnCode ==
  mpc \in {"length", "handle", "advance"} /\ mtail - head > 1
    => mcode = mframe + 1

(* What one receive may do: nothing beyond the stream. *)
WithinStream == wpc \in {"compare", "zerotail", "zerohead", "save"} =>
  wn > 0 /\ put + wn <= StreamLen

RecvInv ==
  /\ TypeOK
  /\ Backlog /\ FrameInHand /\ OwnCode
  /\ WithinStream /\ HonestKept

(* The frames that are whole when parseCommand looks at the buffer are     *)
(* handled by that call, in spite of what arrives meanwhile.               *)
ParseCatchesUp == \A k \in Starts :
  (mpc = "loop" /\ put >= k + FrameLen[k] - 1)
    ~> (mpc = "clear" /\ got >= k + FrameLen[k] - 1)

(* "Producer: save the data" (TcpServer.cpp), "consumer: parse the         *)
(* commands" (TcpServer_Funs.cpp): what the one has saved, the other       *)
(* parses, unless the connection is closed.                                *)
EveryFrameParsed == \A k \in Starts :
  (put >= k + FrameLen[k] - 1)
    ~> (got >= k + FrameLen[k] - 1 \/ closing)
=============================================================================
