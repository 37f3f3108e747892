------------------------- MODULE RecvBuffer_proofs -------------------------
(***************************************************************************)
(* For every size of the buffer and of a receive, and every stream of      *)
(* frames: if the reset of the buffer does not fall inside one loop test   *)
(* (~TornTest), the buffer implements the byte stream and a client that    *)
(* frames its stream correctly is never shut down for a bad frame head.    *)
(* The code does not enforce ~TornTest; the run recv_torn shows what       *)
(* happens without it.                                                     *)
(***************************************************************************)
EXTENDS RecvBuffer, TLAPS

LEMMA InitInv == Init => RecvInv
<1> USE RecvOK DEF Init, Cells, Garbage
<1>1. ASSUME Init PROVE TypeOK
  <2>1. buf \in [Cells -> 0 .. StreamLen]
    BY <1>1
  <2>2. /\ head \in 0 .. ReceMax /\ tail \in 0 .. ReceMax
        /\ wn \in 0 .. ReceOne /\ mtail \in 0 .. ReceMax
        /\ put \in 0 .. StreamLen /\ got \in 0 .. StreamLen
        /\ mframe \in Starts \cup {Garbage} /\ mcode \in 0 .. StreamLen
    BY <1>1
  <2>3. QED
    BY <1>1, <2>1, <2>2 DEF TypeOK, WorkerPCs, MainPCs
<1>2. ASSUME Init PROVE Backlog /\ FrameInHand
  BY <1>2 DEF Backlog, FrameInHand, Parsed
<1>3. ASSUME Init PROVE OwnCode /\ WithinStream /\ HonestKept
  BY <1>3 DEF OwnCode, WithinStream, HonestKept
<1>4. QED
  BY <1>1, <1>2, <1>3 DEF RecvInv

(* The worker's steps keep the invariant. *)
LEMMA WorkerInv ==
  ASSUME ~TornTest, RecvInv, Worker
  PROVE  RecvInv'
<1> USE RecvOK DEF RecvInv, TypeOK, Backlog, FrameInHand, OwnCode,
      WithinStream, HonestKept, Parsed, Len, Cells, Garbage, WorkerPCs, MainPCs,
      wVars, mVars, stream
<1>1. CASE Receive
  BY <1>1 DEF Receive
<1>2. CASE SaveCompare
  BY <1>2 DEF SaveCompare
<1>3. CASE SaveZeroTail
  BY <1>3 DEF SaveZeroTail
<1>4. CASE SaveZeroHead
  BY <1>4 DEF SaveZeroHead
<1>5. CASE SaveCopy
  <2>1. /\ tail' = tail + wn /\ put' = put + wn
        /\ wpc = "save" /\ wpc' = "flag"
        /\ UNCHANGED <<head, recvCompleted, closing, wn, mVars, got, last>>
        /\ tail + wn <= ReceMax /\ put + wn <= StreamLen /\ wn > 0
    BY <1>5 DEF SaveCopy
  <2>2. \A i \in Cells :
          buf'[i] = IF i \in tail .. tail + wn - 1
                    THEN put + 1 + (i - tail) ELSE buf[i]
    BY <1>5 DEF SaveCopy
  <2>3. buf' \in [Cells -> 0 .. StreamLen]
    BY SMTT(30), <1>5, <2>1 DEF SaveCopy
  <2>4. Parsed' = Parsed /\ Parsed \in Int
    BY <2>1
  <2>5. /\ head <= tail /\ put - Parsed = tail - head
        /\ head \in Int /\ tail \in Int /\ put \in Int /\ wn \in Int
        /\ \A i \in Cells : head <= i /\ i < tail
             => buf[i] = Parsed + 1 + (i - head)
    BY <1>5 DEF SaveCopy
  <2>6. TypeOK' /\ WithinStream' /\ HonestKept'
    <3>1. /\ tail' \in 0 .. ReceMax /\ put' \in 0 .. StreamLen
          /\ UNCHANGED <<mpc, mtail, mframe, mcode>>
      BY <2>1
    <3>2. TypeOK'
      BY <2>1, <2>3, <3>1
    <3>3. QED
      BY <2>1, <3>2
  <2>7. FrameInHand'
    <3>1. /\ tail' >= tail /\ Len' = Len
          /\ UNCHANGED <<mpc, mtail, mframe, mcode>>
      BY <2>1
    <3>2. ASSUME mpc \in {"handle", "advance"} PROVE head + Len <= tail'
      <4>1. head + Len <= tail /\ Len \in Int /\ head \in Int
        BY <3>2
      <4>2. tail \in Int /\ tail' \in Int
        BY <2>1
      <4> HIDE DEF RecvInv, Len
      <4>3. QED
        BY <3>1, <4>1, <4>2
    <3>3. mpc = "head" => mtail <= tail'
      BY <2>1, <3>1
    <3>4. mpc \in {"length", "handle", "advance"} => head < tail'
      BY <2>1, <3>1
    <3>5. QED
      BY <2>1, <2>4, <3>1, <3>2, <3>3, <3>4
  <2> HIDE DEF RecvInv, TypeOK, Backlog, FrameInHand, OwnCode,
        WithinStream, HonestKept, Parsed, Len
  <2>8. ASSUME NEW i \in Cells, head <= i, i < tail'
        PROVE  buf'[i] = Parsed + 1 + (i - head)
    <3>1. CASE i < tail
      BY <2>2, <2>5, <2>8, <3>1
    <3>2. CASE i >= tail
      <4>1. buf'[i] = put + 1 + (i - tail)
        BY <2>1, <2>2, <2>5, <2>8, <3>2
      <4>2. QED
        BY <2>4, <2>5, <4>1
    <3>3. QED
      BY <2>5, <3>1, <3>2
  <2>9. head <= tail' /\ put' - Parsed = tail' - head
    BY <2>1, <2>4, <2>5
  <2>10. Backlog'
    BY <2>1, <2>4, <2>8, <2>9 DEF Backlog
  <2>11. OwnCode'
    BY <2>1 DEF RecvInv, OwnCode, mVars
  <2>12. QED
    BY <2>6, <2>7, <2>10, <2>11 DEF RecvInv
<1>6. CASE SaveFlag
  BY <1>6 DEF SaveFlag
<1>7. CASE SaveFull
  BY <1>7 DEF SaveFull
<1>8. CASE Rearm
  BY <1>8 DEF Rearm
<1>9. CASE ShutDown
  BY <1>9 DEF ShutDown
<1>10. QED
  BY <1>1, <1>2, <1>3, <1>4, <1>5, <1>6, <1>7, <1>8, <1>9 DEF Worker

(* The main thread's steps keep the invariant. *)
LEMMA MainInv ==
  ASSUME ~TornTest, RecvInv, Main
  PROVE  RecvInv'
<1> USE RecvOK DEF RecvInv, TypeOK, Backlog, FrameInHand, OwnCode,
      WithinStream, HonestKept, Parsed, Len, Cells, Garbage, WorkerPCs, MainPCs,
      wVars, mVars, stream
<1>1. CASE Enter
  BY <1>1 DEF Enter
<1>2. CASE LoopTest
  BY <1>2 DEF LoopTest
<1>3. CASE ReadHead
  <2>1. CASE mtail - head < 1
    BY <1>3, <2>1 DEF ReadHead
  <2>2. CASE mtail - head >= 1
    <3>1. wpc # "zerohead" /\ head < tail /\ Parsed = got /\ mpc = "head"
      BY <1>3, <2>2 DEF ReadHead
    <3>2. buf[head] = got + 1
      BY <3>1
    <3>3. got + 1 \in Starts
      BY <3>1
    <3>4. /\ mpc' = "length" /\ mframe' = got + 1
          /\ mcode' = IF head + 1 \in Cells THEN buf[head + 1] ELSE Garbage
          /\ UNCHANGED <<closing, head, tail, buf, recvCompleted, wVars, mtail,
                         stream>>
      BY <1>3, <2>2, <3>2, <3>3 DEF ReadHead
    <3>5. wpc # "zerotail"
      BY <3>1
    <3>6. TypeOK'
      <4>1. mcode' \in 0 .. StreamLen
        BY <3>4
      <4>2. QED
        BY <3>3, <3>4, <4>1
    <3>7. Backlog'
      BY <3>1, <3>4
    <3>8. FrameInHand'
      BY <3>1, <3>3, <3>4, <3>5
    <3>9. OwnCode'
      <4>1. mtail <= tail /\ tail <= ReceMax
        BY <3>1
      <4>2. ASSUME mtail - head > 1 PROVE buf[head + 1] = got + 2
        BY <3>1, <4>1, <4>2
      <4>3. mtail - head > 1 => head + 1 \in Cells
        BY <4>1
      <4>4. QED
        BY <3>4, <4>2, <4>3
    <3>10. WithinStream' /\ HonestKept'
      BY <3>4
    <3> HIDE DEF TypeOK, Backlog, FrameInHand, OwnCode, WithinStream,
          HonestKept
    <3>11. QED
      BY <3>6, <3>7, <3>8, <3>9, <3>10
  <2>3. mtail \in Int /\ head \in Int
    OBVIOUS
  <2> HIDE DEF RecvInv
  <2>4. QED
    BY <2>1, <2>2, <2>3
<1>4. CASE Length
  BY <1>4 DEF Length
<1>5. CASE Handle
  <2>1. /\ got' = got + Len /\ mpc = "handle" /\ mpc' = "advance"
        /\ UNCHANGED <<head, tail, buf, recvCompleted, closing, wVars, mtail,
                       mframe, mcode, put>>
    BY <1>5 DEF Handle
  <2>2. Len \in Nat /\ mframe \in Starts /\ Len' = Len
    BY <2>1
  <2>3. /\ Parsed = got /\ head + Len <= tail /\ put - got = tail - head
        /\ got \in Nat /\ put \in 0 .. StreamLen /\ head \in Int
        /\ tail \in Int
    BY <2>1
  <2>4. Parsed' = got' - Len
    BY <2>1, <2>2
  <2>5. Parsed' = Parsed
    <3> HIDE DEF RecvInv, Parsed, Len
    <3> QED
      BY <2>1, <2>2, <2>3, <2>4
  <2>6. got' \in 0 .. StreamLen
    <3> HIDE DEF RecvInv, Parsed, Len
    <3> QED
      BY <2>1, <2>2, <2>3
  <2>7. TypeOK' /\ WithinStream' /\ HonestKept' /\ OwnCode'
    BY <2>1, <2>6
  <2> HIDE DEF Parsed, Len
  <2>8. Backlog' /\ FrameInHand'
    BY <2>1, <2>2, <2>5
  <2>9. QED
    BY <2>7, <2>8
<1>6. CASE Advance
  <2>1. /\ head' = head + Len /\ mpc = "advance" /\ mpc' = "loop"
        /\ UNCHANGED <<tail, buf, recvCompleted, closing, wVars, mtail, mframe,
                       mcode, stream>>
    BY <1>6 DEF Advance
  <2>2. /\ Len \in Nat /\ Len = FrameLen[mframe]
        /\ mframe = Parsed + 1 /\ mframe \in Starts
        /\ wpc \notin {"zerotail", "zerohead"}
    BY <2>1
  <2>3. Parsed = got - Len /\ Parsed' = got
    BY <2>1
  <2>4. /\ head + Len <= tail /\ put - Parsed = tail - head
        /\ got \in 0 .. StreamLen /\ put \in Int
        /\ head \in 0 .. ReceMax /\ tail \in 0 .. ReceMax
        /\ \A i \in Cells : head <= i /\ i < tail
             => buf[i] = Parsed + 1 + (i - head)
    BY <2>1, <2>2
  <2>5. WithinStream' /\ HonestKept' /\ OwnCode'
    BY <2>1
  <2>6. head' \in 0 .. ReceMax => TypeOK'
    BY <2>1
  <2> HIDE DEF RecvInv, Parsed, Len
  <2>7. mframe \in Int /\ mframe + FrameLen[mframe] = got + 1
    BY <2>2, <2>3, <2>4
  <2>8. got + 1 \in Starts \cup {StreamLen + 1}
    BY <2>2, <2>7
  <2>9. put - got = tail - head' /\ head' \in 0 .. ReceMax /\ head' <= tail
    BY <2>1, <2>2, <2>3, <2>4
  <2>10. ASSUME NEW i \in Cells, head' <= i, i < tail
         PROVE  buf[i] = got + 1 + (i - head')
    <3>1. buf[i] = Parsed + 1 + (i - head)
      BY <2>1, <2>2, <2>4, <2>10
    <3>2. QED
      BY <2>1, <2>2, <2>3, <2>4, <3>1
  <2>11. Backlog'
    BY <2>1, <2>2, <2>3, <2>9, <2>10
  <2>12. FrameInHand'
    BY <2>1, <2>3, <2>4, <2>8
  <2>13. QED
    BY <2>5, <2>6, <2>9, <2>11, <2>12 DEF RecvInv
<1>7. CASE Clear
  BY <1>7 DEF Clear
<1>8. QED
  BY <1>1, <1>2, <1>3, <1>4, <1>5, <1>6, <1>7 DEF Main

LEMMA NextInv ==
  ASSUME ~TornTest, RecvInv, [Next]_vars
  PROVE  RecvInv'
<1>1. CASE UNCHANGED vars
  BY <1>1 DEF vars, wVars, mVars, RecvInv, TypeOK, Backlog, FrameInHand,
     OwnCode, WithinStream, HonestKept, Parsed, Len
<1>2. QED
  BY <1>1, WorkerInv, MainInv DEF Next

(* If no reset of the buffer falls inside one loop test, the positions     *)
(* stay inside recvBuf, which holds the unread bytes in order, the frame   *)
(* in hand is the next one, and its handle code is its own if it had       *)
(* arrived at the loop test.                                               *)
THEOREM RecvInvariant ==
  ASSUME ~TornTest
  PROVE  Spec => []RecvInv
<1>1. Init => RecvInv
  BY InitInv
<1>2. RecvInv /\ [Next]_vars => RecvInv'
  BY NextInv
<1>3. QED
  BY <1>1, <1>2, PTL DEF Spec

(* If no reset of the buffer falls inside one loop test, a client that     *)
(* frames its stream correctly is shut down only for a full buffer or a    *)
(* failed WSARecv, never for a bad frame head.                             *)
THEOREM HonestClientKept ==
  ASSUME ~TornTest
  PROVE  Spec => []HonestKept
<1>1. RecvInv => HonestKept
  BY DEF RecvInv
<1>2. QED
  BY <1>1, RecvInvariant, PTL

(* The parser is handed the next bytes of the stream. *)
LEMMA HandleGets ==
  ASSUME RecvInv, Handle
  PROVE  BS!Get(Len) /\ Len \in 1 .. StreamLen
<1>1. /\ mpc = "handle" /\ put' = put /\ got' = got + Len
      /\ last' = [i \in 1 .. Len |->
                     IF i = 1 THEN mframe ELSE buf[head + i - 1]]
  BY DEF Handle
<1>2. /\ Parsed = got /\ mframe = got + 1 /\ mframe \in Starts
      /\ head + Len <= tail /\ put - got = tail - head
      /\ head \in 0 .. ReceMax /\ tail \in 0 .. ReceMax
      /\ got \in 0 .. StreamLen /\ put \in 0 .. StreamLen
      /\ \A i \in Cells : head <= i /\ i < tail
           => buf[i] = got + 1 + (i - head)
  BY <1>1, RecvOK DEF RecvInv, TypeOK, Backlog, FrameInHand, Parsed
<1>3. Len \in Nat \ {0}
  BY <1>2, RecvOK DEF Len
<1>4. ASSUME NEW i \in 1 .. Len
      PROVE  (IF i = 1 THEN mframe ELSE buf[head + i - 1]) = got + i
  <2>1. CASE i = 1
    BY <1>2, <2>1
  <2>2. CASE i # 1
    <3>1. head + i - 1 \in Cells /\ head <= head + i - 1
          /\ head + i - 1 < tail
      BY <1>2, <1>3, <1>4, RecvOK DEF Cells
    <3>2. QED
      BY <1>2, <2>2, <3>1
  <2>3. QED
    BY <2>1, <2>2
<1>5. last' = [i \in 1 .. Len |-> got + i]
  BY <1>1, <1>4
<1>6. Len <= put - got /\ Len <= StreamLen
  BY <1>2, <1>3, RecvOK
<1>7. QED
  BY <1>1, <1>3, <1>5, <1>6 DEF BS!Get

(* If no reset of the buffer falls inside one loop test, the buffer        *)
(* implements the byte stream: every step saves, takes the next bytes, or  *)
(* leaves the stream alone.  The bytes are what the handlers read, command *)
(* and payload; of the handle code RecvInvariant says what holds           *)
(* (OwnCode).                                                              *)
THEOREM RecvImplementsStream ==
  ASSUME ~TornTest
  PROVE  Spec => InOrder
<1>1. Init => BS!Init
  BY DEF Init, BS!Init
<1>2. ASSUME RecvInv, [Next]_vars
      PROVE  [BS!Next]_<<put, got, last>>
  <2>1. CASE SaveCopy
    <3>1. wn \in 1 .. StreamLen
      BY <1>2, <2>1, RecvOK DEF SaveCopy, RecvInv, TypeOK, WithinStream
    <3>2. BS!Put(wn)
      BY <2>1 DEF SaveCopy, BS!Put
    <3>3. QED
      BY <3>1, <3>2 DEF BS!Next
  <2>2. CASE Handle
    BY <1>2, <2>2, HandleGets DEF BS!Next
  <2>3. CASE ~SaveCopy /\ ~Handle
    BY <1>2, <2>3 DEF Next, Worker, Main, Receive, SaveCompare, SaveZeroTail,
       SaveZeroHead, SaveFlag, SaveFull, Rearm, ShutDown, Enter, LoopTest,
       ReadHead, Length, Advance, Clear, vars, stream
  <2>4. QED
    BY <2>1, <2>2, <2>3
<1>3. QED
  BY <1>1, <1>2, RecvInvariant, PTL DEF Spec, InOrder, BS!Spec
=============================================================================
