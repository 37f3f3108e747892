---------------------------- MODULE SendBuffer ----------------------------
(***************************************************************************)
(* The send buffer of one connection.  SendGameDataMessageLite appends     *)
(* frames: the worker that accepted the connection appends the greeting,   *)
(* afterwards the main thread appends replies.  postSend on the main       *)
(* thread hands bytes to WSASend and onSend on the worker takes them off.  *)
(* No lock is taken: send_Tail is published last, is_SendCompleted gates   *)
(* the sends.                                                              *)
(*                                                                         *)
(* The unit of length is a frame's ten byte header.  The peer speaks once  *)
(* it has the greeting, as TcpClient does, so the main thread replies to   *)
(* nothing before.                                                         *)
(***************************************************************************)
EXTENDS Integers

CONSTANTS
  SendMax,     \* size of sendBuf
  SendOne,     \* size of a send context's buffer
  MaxPayload,  \* longest message body
  StreamLen    \* bound on the bytes appended

ASSUME SendOK ==
  /\ SendMax \in Nat \ {0}
  /\ SendOne \in Nat \ {0}
  /\ MaxPayload \in Nat
  /\ StreamLen \in Nat
  /\ MaxPayload < StreamLen   \* the greeting is within the bound

Cells == 0 .. SendMax - 1
Garbage == 0
Producers == {"worker", "main"}

VARIABLES
  head, tail, tempTail,  \* send_Head, send_Tail, send_TempTail
  isSending,             \* is_Sending
  sendCompleted,         \* is_SendCompleted
  buf,                   \* sendBuf: which byte of the stream each cell holds
  closing,               \* closeState = S_CLOSE_SHUTDOWN
  pc, len,               \* a producer in SendGameDataMessageLite; its body
  inflight,              \* bytes of the outstanding WSASend, 0 if none
  wpc, wn,               \* worker in onSend, for wn bytes
  put, got, last         \* the stream: published, sent, last bytes sent

stream == <<put, got, last>>
pVars == <<pc, len>>
wVars == <<wpc, wn>>
vars == <<head, tail, tempTail, isSending, sendCompleted, buf, closing, pVars,
          inflight, wVars, stream>>

(* The worker is about to send the greeting; postRecv has just succeeded. *)
Init ==
  /\ head = 0 /\ tail = 0 /\ tempTail = 0
  /\ isSending = FALSE
  /\ sendCompleted = TRUE
  /\ buf = [i \in Cells |-> Garbage]
  /\ closing = FALSE
  /\ pc = [p \in Producers |-> IF p = "worker" THEN "compare" ELSE "idle"]
  /\ len \in [Producers -> 0 .. MaxPayload]
  /\ inflight = 0
  /\ wpc = "idle" /\ wn = 0
  /\ put = 0 /\ got = 0 /\ last = <<>>
-----------------------------------------------------------------------------
Goto(p, at) == pc' = [pc EXCEPT ![p] = at]

(* Main thread: a frame of the peer is answered, with a body of n units.   *)
Reply(n) ==
  /\ pc["main"] = "idle"
  /\ got > len["worker"]
  /\ put + 1 + n <= StreamLen
  /\ Goto("main", "compare")
  /\ len' = [len EXCEPT !["main"] = n]
  /\ UNCHANGED <<head, tail, tempTail, isSending, sendCompleted, buf, closing,
                 inflight, wVars, stream>>

(* SendGameDataMessageLite: an empty buffer starts again at 0. *)
Compare(p) ==
  /\ pc[p] = "compare"
  /\ Goto(p, IF head = tail THEN "zerotail" ELSE "header")
  /\ UNCHANGED <<head, tail, tempTail, isSending, sendCompleted, buf, closing,
                 len, inflight, wVars, stream>>

ZeroTail(p) ==
  /\ pc[p] = "zerotail"
  /\ tail' = 0
  /\ Goto(p, "zerohead")
  /\ UNCHANGED <<head, tempTail, isSending, sendCompleted, buf, closing, len,
                 inflight, wVars, stream>>

ZeroHead(p) ==
  /\ pc[p] = "zerohead"
  /\ head' = 0
  /\ Goto(p, "header")
  /\ UNCHANGED <<tail, tempTail, isSending, sendCompleted, buf, closing, len,
                 inflight, wVars, stream>>

(* Mutant: the capacity test is off by one. *)
HeaderPast(p) ==
  /\ pc[p] = "header"
  /\ ~isSending /\ tail <= SendMax
  /\ isSending' = TRUE
  /\ buf' = [buf EXCEPT ![tail] = put + 1]
  /\ tempTail' = tail + 1
  /\ Goto(p, "payload")
  /\ UNCHANGED <<head, tail, closing, sendCompleted, len, inflight, wVars,
                 stream>>

(* The header is written behind send_Tail, or, if it does not fit,         *)
(* shutDown 2004.                                                          *)
Header(p) ==
  /\ pc[p] = "header"
  /\ IF ~isSending /\ tail + 1 <= SendMax
     THEN /\ isSending' = TRUE
          /\ buf' = [buf EXCEPT ![tail] = put + 1]
          /\ tempTail' = tail + 1
          /\ Goto(p, "payload")
          /\ UNCHANGED closing
     ELSE /\ tempTail' = tail
          /\ closing' = TRUE
          /\ Goto(p, "idle")
          /\ UNCHANGED <<isSending, buf>>
  /\ UNCHANGED <<head, tail, sendCompleted, len, inflight, wVars, stream>>

(* Mutant: a body that does not fit leaves is_Sending set. *)
PayloadKeepsSending(p) ==
  /\ pc[p] = "payload"
  /\ IF tempTail + len[p] <= SendMax
     THEN /\ buf' = [i \in Cells |->
                       IF i \in tempTail .. tempTail + len[p] - 1
                       THEN put + 1 + (i - tail) ELSE buf[i]]
          /\ tempTail' = tempTail + len[p]
     ELSE UNCHANGED <<buf, tempTail>>
  /\ Goto(p, "end")
  /\ UNCHANGED <<head, tail, isSending, sendCompleted, closing, len, inflight,
                 wVars, stream>>

(* _send: the body, or, if it does not fit, is_Sending is taken back.      *)
Payload(p) ==
  /\ pc[p] = "payload"
  /\ IF isSending /\ tempTail + len[p] <= SendMax
     THEN /\ buf' = [i \in Cells |->
                       IF i \in tempTail .. tempTail + len[p] - 1
                       THEN put + 1 + (i - tail) ELSE buf[i]]
          /\ tempTail' = tempTail + len[p]
          /\ UNCHANGED isSending
     ELSE isSending' = FALSE /\ UNCHANGED <<buf, tempTail>>
  /\ Goto(p, "end")
  /\ UNCHANGED <<head, tail, sendCompleted, closing, len, inflight, wVars,
                 stream>>

(* end: send_Tail is assigned last and publishes the frame; without        *)
(* is_Sending, shutDown 2005.                                              *)
End(p) ==
  /\ pc[p] = "end"
  /\ IF isSending /\ tail + 1 <= SendMax /\ tempTail <= SendMax
        /\ tail < tempTail
     THEN /\ isSending' = FALSE
          /\ tail' = tempTail
          /\ put' = put + (tempTail - tail)
          /\ UNCHANGED closing
     ELSE closing' = TRUE /\ UNCHANGED <<isSending, tail, put>>
  /\ Goto(p, "idle")
  /\ UNCHANGED <<head, tempTail, sendCompleted, buf, len, inflight, wVars,
                 got, last>>

Produce(p) ==
  Compare(p) \/ ZeroTail(p) \/ ZeroHead(p) \/ Header(p) \/ Payload(p) \/ End(p)
-----------------------------------------------------------------------------
(* Mutant: a second send starts while one is outstanding. *)
PostSendUngated ==
  LET n == IF tail - head > SendOne THEN SendOne ELSE tail - head IN
  /\ pc["main"] = "idle"
  /\ ~closing
  /\ tail > head
  /\ got + n <= StreamLen
  /\ sendCompleted' = FALSE
  /\ inflight' = n
  /\ got' = got + n
  /\ last' = [i \in 1 .. n |-> buf[head + i - 1]]
  /\ UNCHANGED <<head, tail, tempTail, isSending, buf, closing, pVars, wVars,
                 put>>

(* Mutant: send_Head moves when the send is posted. *)
PostSendAdvances ==
  LET n == IF tail - head > SendOne THEN SendOne ELSE tail - head IN
  /\ pc["main"] = "idle"
  /\ sendCompleted
  /\ ~closing
  /\ tail > head
  /\ sendCompleted' = FALSE
  /\ inflight' = n
  /\ head' = head + n
  /\ got' = got + n
  /\ last' = [i \in 1 .. n |-> buf[head + i - 1]]
  /\ UNCHANGED <<tail, tempTail, isSending, buf, closing, pVars, wVars, put>>

(* postSend: with no send outstanding, up to SendOne bytes are copied into *)
(* a send context and given to WSASend.                                    *)
PostSend ==
  LET n == IF tail - head > SendOne THEN SendOne ELSE tail - head IN
  /\ pc["main"] = "idle"
  /\ sendCompleted
  /\ ~closing
  /\ tail > head
  /\ sendCompleted' = FALSE
  /\ inflight' = n
  /\ got' = got + n
  /\ last' = [i \in 1 .. n |-> buf[head + i - 1]]
  /\ UNCHANGED <<head, tail, tempTail, isSending, buf, closing, pVars, wVars,
                 put>>

(* WSASend fails: shutDown 1004, and is_SendCompleted stays false. *)
PostSendFails ==
  /\ pc["main"] = "idle"
  /\ sendCompleted
  /\ ~closing
  /\ tail > head
  /\ sendCompleted' = FALSE
  /\ closing' = TRUE
  /\ UNCHANGED <<head, tail, tempTail, isSending, buf, pVars, inflight, wVars,
                 stream>>
-----------------------------------------------------------------------------
(* The send completes: in full, onSend goes on ...                         *)
Completed ==
  /\ inflight > 0
  /\ wpc = "idle" /\ pc["worker"] = "idle"
  /\ inflight' = 0
  /\ wn' = inflight
  /\ wpc' = "sent"
  /\ UNCHANGED <<head, tail, tempTail, isSending, sendCompleted, buf, closing,
                 pVars, stream>>

(* ... short or failed it ends in shutDown (1005, 3001, 3003), which may   *)
(* set is_SendCompleted.                                                   *)
CompletedBadly ==
  /\ inflight > 0
  /\ wpc = "idle" /\ pc["worker"] = "idle"
  /\ inflight' = 0
  /\ sendCompleted' \in {sendCompleted, sendCompleted \/ ~closing}
  /\ closing' = TRUE
  /\ UNCHANGED <<head, tail, tempTail, isSending, buf, pVars, wVars, stream>>

(* onSend: send_Head += sendBytes unless the client is closing ... *)
Sent ==
  /\ wpc = "sent"
  /\ head' = IF closing THEN head ELSE head + wn
  /\ wpc' = "flag"
  /\ UNCHANGED <<tail, tempTail, isSending, sendCompleted, buf, closing, pVars,
                 inflight, wn, stream>>

(* Mutant: the gate stays shut. *)
SentFlagLost ==
  /\ wpc = "flag"
  /\ wpc' = "idle"
  /\ UNCHANGED <<head, tail, tempTail, isSending, sendCompleted, buf, closing,
                 pVars, inflight, wn, stream>>

(* ... then the gate opens. *)
SentFlag ==
  /\ wpc = "flag"
  /\ sendCompleted' = TRUE
  /\ wpc' = "idle"
  /\ UNCHANGED <<head, tail, tempTail, isSending, buf, closing, pVars,
                 inflight, wn, stream>>
-----------------------------------------------------------------------------
Next ==
  \/ \E n \in 0 .. MaxPayload : Reply(n)
  \/ \E p \in Producers : Produce(p)
  \/ PostSend \/ PostSendFails
  \/ Completed \/ CompletedBadly \/ Sent \/ SentFlag

Spec == Init /\ [][Next]_vars

(* The main loop calls postSend again and again and both threads run on;   *)
(* completions depend on the peer, nothing is assumed of them.             *)
FairSpec ==
  /\ Spec
  /\ WF_vars(Produce("main") \/ PostSend \/ PostSendFails)
  /\ WF_vars(Produce("worker") \/ Sent \/ SentFlag)
-----------------------------------------------------------------------------
Building == {"compare", "zerotail", "zerohead", "header", "payload", "end"}

(* The positions stay inside sendBuf. *)
TypeOK ==
  /\ head \in 0 .. SendMax
  /\ tail \in 0 .. SendMax
  /\ tempTail \in 0 .. SendMax
  /\ isSending \in BOOLEAN
  /\ sendCompleted \in BOOLEAN
  /\ buf \in [Cells -> Nat]
  /\ closing \in BOOLEAN
  /\ pc \in [Producers -> Building \cup {"idle"}]
  /\ len \in [Producers -> 0 .. MaxPayload]
  /\ inflight \in 0 .. SendOne
  /\ wpc \in {"idle", "sent", "flag"}
  /\ wn \in 0 .. SendOne
  /\ put \in 0 .. StreamLen
  /\ got \in 0 .. StreamLen

(* WSASend is given the published bytes in order, each once, however the   *)
(* frames are cut into sends and whatever is appended during a send: the   *)
(* two positions and the gate implement the byte stream.                   *)
BS == INSTANCE ByteStream WITH StreamLen <- StreamLen,
                                put <- put, got <- got, last <- last
InOrder == BS!Spec

(* send_Tail only ever moves past a whole frame: one whose body does not   *)
(* fit is not published in part.                                           *)
WholeFrames ==
  [][put' # put => \E p \in Producers :
                     pc[p] = "end" /\ put' = put + 1 + len[p]]_vars

(* The positions go back to 0 only while no send is outstanding and onSend *)
(* is not about to move send_Head.                                         *)
ResetIdle == \A p \in Producers :
  pc[p] \in {"zerotail", "zerohead"} => inflight = 0 /\ wpc # "sent"

(* Published bytes never wait for a send that is not outstanding: postSend *)
(* sees the gate open again after every completion.                        *)
NoSendStall ==
  (tail > head /\ inflight = 0) ~> (inflight > 0 \/ head = tail \/ closing)

(* Why, as an inductive invariant.                                         *)

(* Sent bytes that send_Head has not passed yet. *)
Lag == inflight + (IF wpc = "sent" THEN wn ELSE 0)

(* The greeting is the worker's only frame, and the first of all. *)
OneProducer ==
  /\ pc["worker"] # "idle" =>
       pc["main"] = "idle" /\ put = 0 /\ got = 0 /\ inflight = 0
  /\ pc["main"] # "idle" => got > 0
  /\ \A p \in Producers : pc[p] # "idle" => put + 1 + len[p] <= StreamLen

(* The frame being built lies behind send_Tail, in stream order. *)
Draft ==
  /\ isSending => \E p \in Producers : pc[p] \in {"payload", "end"}
  /\ \A p \in Producers :
       /\ pc[p] = "payload" => isSending /\ tempTail = tail + 1
       /\ pc[p] = "end" /\ isSending => tempTail = tail + 1 + len[p]
       /\ isSending => \A i \in Cells :
            tail <= i /\ i < tempTail => buf[i] = put + 1 + (i - tail)

(* A send is outstanding or being taken off only while the gate is shut. *)
Gate ==
  /\ sendCompleted => inflight = 0 /\ wpc = "idle"
  /\ inflight > 0 => wpc = "idle"
  /\ wpc = "sent" => wn > 0

(* The bytes between what is sent and send_Tail are the unsent ones in     *)
(* stream order, until the connection is closing.                          *)
Backlog ==
  /\ \A p \in Producers :
       /\ pc[p] = "zerotail" => head = tail
       /\ pc[p] = "zerohead" => tail = 0 /\ Lag = 0 /\ (closing \/ put = got)
  /\ (\A p \in Producers : pc[p] # "zerohead") =>
       /\ head + Lag <= tail
       /\ closing \/ put - got = tail - head - Lag
  /\ closing \/ \A i \in Cells :
       head + Lag <= i /\ i < tail => buf[i] = got + 1 + (i - head - Lag)

SendInv == TypeOK /\ OneProducer /\ Draft /\ Gate /\ Backlog
=============================================================================
