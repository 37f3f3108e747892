------------------------- MODULE SendBuffer_proofs -------------------------
(***************************************************************************)
(* For every size of the buffer, of a send and of a message body: the      *)
(* buffer implements the byte stream, only whole frames are published, and *)
(* the positions go back to 0 only while no send is outstanding.           *)
(***************************************************************************)
EXTENDS SendBuffer, TLAPS

LEMMA InitInv == Init => SendInv
<1> SUFFICES ASSUME Init PROVE SendInv
  OBVIOUS
<1> USE SendOK DEF Init
<1>1. TypeOK
  <2>1. 0 \in 0 .. SendMax /\ 0 \in 0 .. SendOne /\ 0 \in 0 .. StreamLen
    OBVIOUS
  <2>2. buf \in [Cells -> Nat]
    BY DEF Garbage
  <2>3. pc \in [Producers -> Building \cup {"idle"}]
    BY DEF Building
  <2>4. QED
    BY <2>1, <2>2, <2>3 DEF TypeOK
<1>2. OneProducer
  BY DEF OneProducer, Producers
<1>3. Draft
  BY DEF Draft, Producers
<1>4. Gate
  BY DEF Gate
<1>5. Backlog
  BY DEF Backlog, Lag, Producers
<1>6. QED
  BY <1>1, <1>2, <1>3, <1>4, <1>5 DEF SendInv

(* Only one thread at a time is in SendGameDataMessageLite. *)
LEMMA Alone ==
  ASSUME SendInv, NEW p \in Producers, pc[p] # "idle"
  PROVE  /\ \A q \in Producers : q # p => pc[q] = "idle"
         /\ put + 1 + len[p] <= StreamLen
         /\ p = "worker" => put = 0 /\ got = 0 /\ inflight = 0
         /\ p = "main" => got > 0
  BY DEF SendInv, OneProducer, Producers

(* The steps of SendGameDataMessageLite keep the invariant. *)
LEMMA ProduceInv ==
  ASSUME SendInv, NEW p \in Producers, Produce(p)
  PROVE  SendInv'
<1> USE SendOK DEF SendInv, TypeOK, OneProducer, Draft, Gate, Backlog, Lag,
      Producers, Building, Cells, Garbage, Goto, pVars, wVars, stream
<1>1. CASE Compare(p)
  BY <1>1 DEF Compare
<1>2. CASE ZeroTail(p)
  BY <1>2 DEF ZeroTail
<1>3. CASE ZeroHead(p)
  BY SMTT(30), <1>3 DEF ZeroHead
<1>0. /\ tail \in 0 .. SendMax /\ head \in 0 .. SendMax
      /\ tempTail \in 0 .. SendMax
      /\ put \in 0 .. StreamLen /\ got \in 0 .. StreamLen
      /\ \A q \in Producers : len[q] \in 0 .. MaxPayload
      /\ buf \in [Cells -> Nat] /\ Lag \in Int
  OBVIOUS
<1>4. CASE Header(p)
  <2>1. CASE ~(~isSending /\ tail + 1 <= SendMax)
    BY ZenonT(40), <1>4, <2>1 DEF Header
  <2>2. CASE ~isSending /\ tail + 1 <= SendMax
    <3>1. /\ isSending' = TRUE /\ tempTail' = tail + 1
          /\ buf' = [buf EXCEPT ![tail] = put + 1]
          /\ pc[p] = "header" /\ pc' = [pc EXCEPT ![p] = "payload"]
          /\ UNCHANGED <<head, tail, closing, sendCompleted, len, inflight,
                         wpc, wn, put, got, last>>
      BY <1>4, <2>2 DEF Header
    <3>2. \A q \in Producers : q # p => pc[q] = "idle" /\ pc'[q] = "idle"
      BY <3>1, Alone
    <3>3. tail \in Cells /\ buf'[tail] = put + 1
          /\ \A i \in Cells : i < tail => buf'[i] = buf[i]
      BY <2>2, <3>1
    <3>4. TypeOK'
      BY <2>2, <3>1
    <3>5. OneProducer' /\ Gate'
      BY <3>1, <3>2
    <3>6. Draft'
      <4>1. \A i \in Cells : tail <= i /\ i < tail + 1 => i = tail
        BY <1>0
      <4>2. pc'[p] = "payload"
        BY <3>1
      <4> HIDE DEF SendInv, Lag, Producers, Building
      <4>3. \A i \in Cells : tail' <= i /\ i < tempTail'
                              => buf'[i] = put' + 1 + (i - tail')
        BY <1>0, <3>1, <3>3, <4>1
      <4>4. QED
        BY <3>1, <3>2, <4>2, <4>3
    <3>7. Backlog'
      <4>1. Lag' = Lag
        BY <3>1
      <4>2. closing \/ \A i \in Cells :
              head + Lag <= i /\ i < tail
                => buf'[i] = got + 1 + (i - head - Lag)
        BY <3>1, <3>3
      <4>3. pc'[p] = "payload" /\ \A q \in Producers : pc[q] # "zerohead"
        BY <3>1, <3>2
      <4>4. head + Lag <= tail /\ (closing \/ put - got = tail - head - Lag)
        BY <4>3
      <4> HIDE DEF SendInv, Lag, Producers, Building
      <4>5. QED
        BY <3>1, <3>2, <4>1, <4>2, <4>3, <4>4
    <3>8. QED
      BY <3>4, <3>5, <3>6, <3>7
  <2>3. QED
    BY <2>1, <2>2
<1>5. CASE Payload(p)
  <2>1. /\ pc[p] = "payload" /\ pc' = [pc EXCEPT ![p] = "end"]
        /\ UNCHANGED <<head, tail, closing, sendCompleted, len, inflight,
                       wpc, wn, put, got, last>>
        /\ Lag' = Lag
    BY <1>5 DEF Payload
  <2>2. \A q \in Producers : q # p => pc[q] = "idle" /\ pc'[q] = "idle"
    BY <2>1, Alone
  <2>3. pc'[p] = "end" /\ isSending /\ tempTail = tail + 1
    BY <2>1
  <2>4. \A q \in Producers : pc[q] # "zerohead" /\ pc'[q] # "zerohead"
                             /\ pc'[q] # "zerotail"
    BY <2>1, <2>2, <2>3
  <2>5. head + Lag <= tail /\ (closing \/ put - got = tail - head - Lag)
    BY <2>4
  <2>6. CASE tempTail + len[p] <= SendMax
    <3>1. /\ buf' = [i \in Cells |->
                       IF i \in tempTail .. tempTail + len[p] - 1
                       THEN put + 1 + (i - tail) ELSE buf[i]]
          /\ tempTail' = tempTail + len[p] /\ isSending' = TRUE
      BY <1>5, <2>3, <2>6 DEF Payload
    <3>2. \A i \in Cells : i < tail => buf'[i] = buf[i]
      <4> HIDE DEF SendInv, Lag, Producers, Building, Cells
      <4> QED
        BY <1>0, <2>3, <3>1 DEF Cells
    <3>3. \A i \in Cells : tail <= i /\ i < tempTail'
                            => buf'[i] = put + 1 + (i - tail)
      <4>1. \A i \in Cells : tail <= i /\ i < tempTail
                              => buf[i] = put + 1 + (i - tail)
        BY <2>3
      <4> HIDE DEF SendInv, Lag, Producers, Building
      <4>2. QED
        BY <1>0, <2>3, <3>1, <4>1
    <3>4. buf' \in [Cells -> Nat]
      <4> HIDE DEF SendInv, Lag, Producers, Building
      <4> QED
        BY <1>0, <2>3, <3>1
    <3>5. TypeOK'
      <4>1. tempTail' \in 0 .. SendMax
        BY <1>0, <2>6, <3>1
      <4>2. QED
        BY <2>1, <3>1, <3>4, <4>1
    <3>6. OneProducer' /\ Gate'
      BY <2>1, <2>2
    <3>7. tempTail' = tail + 1 + len[p]
      BY <1>0, <2>3, <3>1
    <3>8. closing \/ \A i \in Cells :
            head + Lag <= i /\ i < tail
              => buf'[i] = got + 1 + (i - head - Lag)
      BY <3>2
    <3> HIDE DEF SendInv, Lag, Producers, Building, TypeOK, OneProducer, Gate
    <3>9. Draft'
      BY <2>1, <2>2, <2>3, <3>1, <3>3, <3>7
    <3>10. Backlog'
      BY <2>1, <2>4, <2>5, <3>8
    <3>11. QED
      BY <3>5, <3>6, <3>9, <3>10 DEF SendInv
  <2>7. CASE ~(tempTail + len[p] <= SendMax)
    <3>1. isSending' = FALSE /\ buf' = buf /\ tempTail' = tempTail
      BY <1>5, <2>3, <2>7 DEF Payload
    <3>2. TypeOK' /\ OneProducer' /\ Gate'
      BY <2>1, <2>2, <3>1
    <3>3. Draft'
      BY <2>1, <2>2, <2>3, <3>1
    <3>4. Backlog'
      BY <2>1, <2>4, <2>5, <3>1
    <3>5. QED
      BY <3>2, <3>3, <3>4
  <2>8. QED
    BY <2>6, <2>7
<1>6. CASE End(p)
  <2>1. /\ pc[p] = "end" /\ pc' = [pc EXCEPT ![p] = "idle"]
        /\ UNCHANGED <<head, tempTail, sendCompleted, buf, len, inflight,
                       wpc, wn, got, last>>
        /\ Lag' = Lag
    BY <1>6 DEF End
  <2>2. \A q \in Producers : pc'[q] = "idle"
    BY <2>1, Alone
  <2>3. \A q \in Producers : pc[q] # "zerohead"
    BY <2>1, Alone
  <2>4. head + Lag <= tail /\ (closing \/ put - got = tail - head - Lag)
    BY <2>3
  <2>5. CASE isSending /\ tail + 1 <= SendMax /\ tempTail <= SendMax
             /\ tail < tempTail
    <3>1. /\ isSending' = FALSE /\ tail' = tempTail
          /\ put' = put + (tempTail - tail) /\ closing' = closing
      BY <1>6, <2>5 DEF End
    <3>2. tempTail = tail + 1 + len[p] /\ put + 1 + len[p] <= StreamLen
      BY <2>1, <2>5, Alone
    <3>3. put' = put + 1 + len[p]
      <4> DEFINE l == len[p]
      <4>1. l \in Int
        BY <1>0
      <4>2. tempTail = tail + 1 + l
        BY <3>2
      <4> HIDE DEF l, SendInv, Lag, Producers, Building
      <4>3. put' = put + 1 + l
        BY <1>0, <3>1, <4>1, <4>2
      <4>4. QED
        BY <4>3 DEF l
    <3>4. TypeOK'
      <4>1. put' \in 0 .. StreamLen
        BY SMTT(30), <1>0, <3>2, <3>3
      <4>2. QED
        BY <2>1, <3>1, <4>1
    <3>5. OneProducer' /\ Draft' /\ Gate'
      BY <2>1, <2>2, <3>1
    <3>6. \A i \in Cells : tail <= i /\ i < tempTail
                            => buf[i] = put + 1 + (i - tail)
      BY <2>1, <2>5
    <3>7. closing \/ \A i \in Cells :
            head + Lag <= i /\ i < tail
              => buf[i] = got + 1 + (i - head - Lag)
      OBVIOUS
    <3> HIDE DEF SendInv, Lag, Producers, Building, TypeOK, OneProducer, Draft,
          Gate
    <3>8. head + Lag <= tail' /\ (closing \/ put' - got = tail' - head - Lag)
      <4>1. head + Lag <= tail'
        BY <1>0, <2>4, <2>5, <3>1
      <4>2. put' - got = put - got + (tail' - tail)
        BY <1>0, <3>1
      <4>3. QED
        BY <1>0, <2>4, <3>1, <4>1, <4>2
    <3>9. ASSUME ~closing, NEW i \in Cells, head + Lag <= i, i < tail'
          PROVE  buf[i] = got + 1 + (i - head - Lag)
      <4>1. CASE i < tail
        BY <3>7, <3>9, <4>1
      <4>2. CASE i >= tail
        <5>1. buf[i] = put + 1 + (i - tail)
          BY <3>1, <3>6, <3>9, <4>2
        <5>2. QED
          BY <1>0, <2>4, <3>9, <5>1
      <4>3. QED
        BY <1>0, <4>1, <4>2
    <3>10. Backlog'
      BY <2>1, <2>2, <3>1, <3>8, <3>9
    <3>11. QED
      BY <3>4, <3>5, <3>10 DEF SendInv
  <2>6. CASE ~(isSending /\ tail + 1 <= SendMax /\ tempTail <= SendMax
               /\ tail < tempTail)
    <3>1. closing' = TRUE /\ UNCHANGED <<isSending, tail, put>>
      BY <1>6, <2>6 DEF End
    <3>2. ~isSending
      BY <1>0, <2>1, <2>6
    <3>3. TypeOK' /\ OneProducer' /\ Draft' /\ Gate'
      BY <2>1, <2>2, <3>1, <3>2
    <3>4. Backlog'
      BY <2>1, <2>2, <2>4, <3>1
    <3>5. QED
      BY <3>3, <3>4
  <2>7. QED
    BY <2>5, <2>6
<1>7. QED
  BY <1>1, <1>2, <1>3, <1>4, <1>5, <1>6 DEF Produce

LEMMA SendStepsInv ==
  ASSUME SendInv,
         \/ \E n \in 0 .. MaxPayload : Reply(n)
         \/ PostSend \/ PostSendFails
         \/ Completed \/ CompletedBadly \/ Sent \/ SentFlag
  PROVE  SendInv'
<1> USE SendOK DEF SendInv, TypeOK, OneProducer, Draft, Gate, Backlog, Lag,
      Producers, Building, Cells, Garbage, Goto, pVars, wVars, stream
<1>0. /\ tail \in 0 .. SendMax /\ head \in 0 .. SendMax
      /\ put \in 0 .. StreamLen /\ got \in 0 .. StreamLen
      /\ inflight \in 0 .. SendOne /\ wn \in 0 .. SendOne
      /\ Lag \in Int
  OBVIOUS
<1>1. CASE \E n \in 0 .. MaxPayload : Reply(n)
  BY <1>1 DEF Reply
<1>2. CASE PostSend
  <2> DEFINE n == IF tail - head > SendOne THEN SendOne ELSE tail - head
  <2>1. /\ pc["main"] = "idle" /\ sendCompleted /\ ~closing /\ tail > head
        /\ sendCompleted' = FALSE /\ inflight' = n /\ got' = got + n
        /\ UNCHANGED <<head, tail, tempTail, isSending, buf, closing, pc, len,
                       wpc, wn, put>>
    BY <1>2 DEF PostSend
  <2>2. n \in 1 .. SendOne /\ n <= tail - head
    BY <1>0, <2>1
  <2>3. inflight = 0 /\ wpc = "idle" /\ Lag = 0
    BY <2>1
  <2>4. Lag' = n
    BY <1>0, <2>1, <2>2, <2>3
  <2>5. pc["worker"] = "idle"
    <3>1. CASE pc["worker"] \in {"zerohead"}
      BY <2>1, <2>3, <3>1
    <3>2. CASE pc["worker"] # "idle"
      BY <2>1, <2>3, <3>2
    <3>3. QED
      BY <3>1, <3>2
  <2>6. \A q \in Producers : pc[q] = "idle"
    BY <2>1, <2>5
  <2>7. head <= tail /\ put - got = tail - head
    BY <1>0, <2>1, <2>3, <2>6
  <2>8. \A i \in Cells : head <= i /\ i < tail => buf[i] = got + 1 + (i - head)
    BY <1>0, <2>1, <2>3
  <2>9. OneProducer' /\ Draft' /\ Gate'
    BY <2>1, <2>2, <2>3, <2>6
  <2>10. got' \in 0 .. StreamLen => TypeOK'
    <3>1. inflight' \in 0 .. SendOne
      BY <2>1, <2>2
    <3> HIDE DEF n, Lag, OneProducer, Draft, Gate, Backlog
    <3>2. QED
      BY <2>1, <3>1
  <2> HIDE DEF SendInv, TypeOK, OneProducer, Draft, Gate, Lag, Producers, n
  <2>11. got' \in 0 .. StreamLen
    BY <1>0, <2>1, <2>2, <2>7
  <2>12. head + n <= tail /\ put - got' = tail - head - n
    BY <1>0, <2>1, <2>2, <2>7
  <2>13. ASSUME NEW i \in Cells, head + n <= i, i < tail
         PROVE  buf[i] = got' + 1 + (i - head - n)
    BY <1>0, <2>1, <2>2, <2>8, <2>13
  <2>14. Backlog'
    BY <2>1, <2>4, <2>6, <2>12, <2>13
  <2>15. QED
    BY <2>9, <2>10, <2>11, <2>14 DEF SendInv
<1>3. CASE PostSendFails
  BY <1>3 DEF PostSendFails
<1>4. CASE Completed
  BY <1>4 DEF Completed
<1>5. CASE CompletedBadly
  <2>1. /\ inflight > 0 /\ wpc = "idle" /\ pc["worker"] = "idle"
        /\ inflight' = 0 /\ closing' = TRUE /\ sendCompleted' \in BOOLEAN
        /\ UNCHANGED <<head, tail, tempTail, isSending, buf, pc, len, wpc, wn,
                       put, got, last>>
    BY <1>5 DEF CompletedBadly
  <2>2. Lag' = 0 /\ Lag = inflight
    BY <1>0, <2>1
  <2>3. TypeOK' /\ OneProducer' /\ Draft' /\ Gate'
    BY <2>1
  <2>4. \A q \in Producers : pc[q] # "zerohead"
    BY <2>1, <2>2
  <2>5. head <= tail
    BY <1>0, <2>1, <2>2, <2>4
  <2>6. Backlog'
    BY <1>0, <2>1, <2>2, <2>4, <2>5
  <2>7. QED
    BY <2>3, <2>6
<1>6. CASE Sent
  <2>1. /\ wpc = "sent" /\ wpc' = "flag"
        /\ head' = IF closing THEN head ELSE head + wn
        /\ UNCHANGED <<tail, tempTail, isSending, sendCompleted, buf, closing,
                       pc, len, inflight, wn, put, got, last>>
    BY <1>6 DEF Sent
  <2>2. Lag = wn /\ Lag' = 0 /\ inflight = 0 /\ wn > 0 /\ wn \in Int
    BY <2>1
  <2>3. \A q \in Producers : pc[q] # "zerohead"
    BY <2>2
  <2>4. head + wn <= tail /\ (closing \/ put - got = tail - head - wn)
    BY <2>2, <2>3
  <2>5. head' \in 0 .. SendMax /\ head' <= tail
        /\ (closing \/ put - got = tail - head')
    <3> HIDE DEF SendInv, TypeOK, OneProducer, Draft, Gate, Backlog, Lag
    <3> QED
      BY <1>0, <2>1, <2>2, <2>4
  <2>6. TypeOK' /\ OneProducer' /\ Draft' /\ Gate'
    BY <2>1, <2>2, <2>5
  <2>7. closing \/ \A i \in Cells :
          head' <= i /\ i < tail => buf[i] = got + 1 + (i - head')
    <3>1. closing \/ \A i \in Cells :
            head + wn <= i /\ i < tail => buf[i] = got + 1 + (i - head - wn)
      BY <2>2
    <3> HIDE DEF SendInv, TypeOK, OneProducer, Draft, Gate, Backlog, Lag
    <3>2. QED
      BY <1>0, <2>1, <2>2, <3>1
  <2>9. \A q \in Producers : pc[q] # "zerotail"
    BY <1>0, <2>2, <2>3, <2>4
  <2>10. Backlog'
    BY <1>0, <2>1, <2>2, <2>3, <2>5, <2>7, <2>9
  <2>11. QED
    BY <2>6, <2>10
<1>7. CASE SentFlag
  BY <1>7 DEF SentFlag
<1>8. QED
  BY <1>1, <1>2, <1>3, <1>4, <1>5, <1>6, <1>7

LEMMA NextInv ==
  ASSUME SendInv, [Next]_vars
  PROVE  SendInv'
<1>1. CASE UNCHANGED vars
  BY <1>1 DEF vars, pVars, wVars, stream, SendInv, TypeOK, OneProducer, Draft,
     Gate, Backlog, Lag
<1>2. QED
  BY <1>1, ProduceInv, SendStepsInv DEF Next

(* The positions, the gate and the contents of the buffer stay consistent  *)
(* with the stream of bytes published and sent.                            *)
THEOREM SendInvariant == Spec => []SendInv
<1>1. Init => SendInv
  BY InitInv
<1>2. SendInv /\ [Next]_vars => SendInv'
  BY NextInv
<1>3. QED
  BY <1>1, <1>2, PTL DEF Spec

(* send_Head and send_Tail go back to 0 only while no send is outstanding  *)
(* and onSend is not about to move send_Head.                              *)
THEOREM ResetWhenIdle == Spec => []ResetIdle
<1>1. ASSUME SendInv PROVE ResetIdle
  <2>1. SUFFICES ASSUME NEW p \in Producers,
                        pc[p] \in {"zerotail", "zerohead"}
                 PROVE  inflight = 0 /\ wpc # "sent"
    BY DEF ResetIdle
  <2>2. /\ inflight \in 0 .. SendOne /\ wn \in 0 .. SendOne
        /\ wpc = "sent" => wn > 0
        /\ head \in 0 .. SendMax /\ tail \in 0 .. SendMax
    BY <1>1 DEF SendInv, TypeOK, Gate
  <2>3. CASE pc[p] = "zerohead"
    BY <1>1, <2>2, <2>3, SendOK DEF SendInv, Backlog, Lag
  <2>4. CASE pc[p] = "zerotail"
    <3>1. \A q \in Producers : pc[q] # "zerohead"
      BY <1>1, <2>4, Alone
    <3>2. head = tail /\ head + Lag <= tail
      BY <1>1, <2>4, <3>1 DEF SendInv, Backlog
    <3>3. QED
      BY <2>2, <3>2, SendOK DEF Lag
  <2>5. QED
    BY <2>1, <2>3, <2>4
<1>2. QED
  BY <1>1, SendInvariant, PTL

(* A step of end that publishes bytes publishes a whole frame. *)
LEMMA EndPublishes ==
  ASSUME SendInv, NEW p \in Producers, End(p), put' # put
  PROVE  /\ pc[p] = "end"
         /\ put' = put + 1 + len[p]
         /\ 1 + len[p] \in 1 .. StreamLen
         /\ UNCHANGED <<got, last>>
<1>1. /\ pc[p] = "end" /\ isSending
      /\ put' = put + (tempTail - tail) /\ UNCHANGED <<got, last>>
  BY DEF End
<1>2. tempTail = tail + 1 + len[p]
  BY <1>1 DEF SendInv, Draft
<1>3. put + 1 + len[p] <= StreamLen
  BY <1>1, Alone
<1>4. len[p] \in 0 .. MaxPayload /\ put \in Nat /\ tail \in Int
  BY SendOK DEF SendInv, TypeOK
<1> DEFINE l == len[p]
<1>5. l \in Nat /\ tempTail = tail + 1 + l /\ put + 1 + l <= StreamLen
  BY <1>2, <1>3, <1>4, SendOK
<1> HIDE DEF l
<1>6. put' = put + 1 + l /\ 1 + l \in 1 .. StreamLen
  BY <1>1, <1>4, <1>5, SendOK
<1>7. QED
  BY <1>1, <1>6 DEF l

(* Steps that leave the stream alone. *)
LEMMA OtherSteps ==
  ASSUME [Next]_vars, ~PostSend, \A p \in Producers : ~End(p)
  PROVE  UNCHANGED <<put, got, last>>
  BY DEF Next, Produce, Reply, Compare, ZeroTail, ZeroHead, Header, Payload,
     PostSendFails, Completed, CompletedBadly, Sent, SentFlag, vars, stream

(* Only whole frames are published. *)
THEOREM OnlyWholeFrames == Spec => WholeFrames
<1>1. ASSUME SendInv, [Next]_vars, put' # put
      PROVE  \E p \in Producers : pc[p] = "end" /\ put' = put + 1 + len[p]
  <2>1. ~PostSend
    BY <1>1 DEF PostSend
  <2>2. PICK p \in Producers : End(p)
    BY <1>1, <2>1, OtherSteps
  <2>3. QED
    BY <1>1, <2>2, EndPublishes
<1>2. QED
  BY <1>1, SendInvariant, PTL DEF Spec, WholeFrames

(* WSASend is given the next bytes of the stream. *)
LEMMA PostSendGets ==
  ASSUME SendInv, PostSend
  PROVE  \E n \in 1 .. StreamLen : BS!Get(n)
<1> DEFINE n == IF tail - head > SendOne THEN SendOne ELSE tail - head
<1>1. /\ pc["main"] = "idle" /\ sendCompleted /\ ~closing /\ tail > head
      /\ got' = got + n /\ put' = put
      /\ last' = [i \in 1 .. n |-> buf[head + i - 1]]
  BY DEF PostSend, stream
<1>2. /\ head \in 0 .. SendMax /\ tail \in 0 .. SendMax
      /\ put \in 0 .. StreamLen /\ got \in 0 .. StreamLen
      /\ inflight = 0 /\ wpc = "idle"
  BY <1>1 DEF SendInv, TypeOK, Gate
<1>3. Lag = 0
  BY <1>2 DEF Lag
<1>4. \A p \in Producers : pc[p] # "zerohead"
  BY <1>1, <1>2, SendOK DEF SendInv, Backlog, Producers
<1>5. put - got = tail - head
  BY <1>1, <1>2, <1>3, <1>4 DEF SendInv, Backlog
<1>6. \A i \in Cells : head <= i /\ i < tail => buf[i] = got + 1 + (i - head)
  BY <1>1, <1>2, <1>3, SendOK DEF SendInv, Backlog, Cells
<1>7. n \in 1 .. StreamLen /\ n <= tail - head
  BY <1>1, <1>2, <1>5, SendOK
<1> HIDE DEF n
<1>8. ASSUME NEW i \in 1 .. n PROVE buf[head + i - 1] = got + i
  <2>1. head + i - 1 \in Cells /\ head <= head + i - 1 /\ head + i - 1 < tail
    BY <1>2, <1>7, <1>8, SendOK DEF Cells
  <2>2. QED
    BY <1>2, <1>6, <1>8, <2>1
<1>9. last' = [i \in 1 .. n |-> got + i]
  BY <1>1, <1>8
<1>10. BS!Get(n)
  BY <1>1, <1>5, <1>7, <1>9 DEF BS!Get
<1>11. QED
  BY <1>7, <1>10

(* The buffer implements the byte stream: end publishes, postSend takes    *)
(* the next bytes, everything else leaves the stream alone.                *)
THEOREM SendImplementsStream == Spec => InOrder
<1>1. Init => BS!Init
  BY DEF Init, BS!Init
<1>2. ASSUME SendInv, [Next]_vars
      PROVE  [BS!Next]_<<put, got, last>>
  <2>1. CASE PostSend
    BY <1>2, <2>1, PostSendGets DEF BS!Next
  <2>2. CASE \E p \in Producers : End(p)
    <3>1. PICK p \in Producers : End(p)
      BY <2>2
    <3>2. CASE put' = put
      BY <3>1, <3>2 DEF End
    <3>3. CASE put' # put
      <4>1. /\ put' = put + 1 + len[p] /\ 1 + len[p] \in 1 .. StreamLen
            /\ UNCHANGED <<got, last>>
        BY <1>2, <3>1, <3>3, EndPublishes
      <4>2. put \in Nat /\ len[p] \in Nat
        BY <1>2, SendOK DEF SendInv, TypeOK
      <4>3. BS!Put(1 + len[p])
        BY <4>1, <4>2 DEF BS!Put
      <4>4. QED
        BY <4>1, <4>3 DEF BS!Next
    <3>4. QED
      BY <3>2, <3>3
  <2>3. QED
    BY <1>2, <2>1, <2>2, OtherSteps
<1>3. QED
  BY <1>1, <1>2, SendInvariant, PTL DEF Spec, InOrder, BS!Spec
=============================================================================
