-------------------------- MODULE LogPool_proofs --------------------------
(***************************************************************************)
(* For every number of threads, records and messages: a log record is in   *)
(* one place, a message formatted without company is written as it is, and *)
(* the messages of each thread are handled in order, each once.            *)
(***************************************************************************)
EXTENDS LogPool, TLAPS

(* What the queues do to their elements. *)
LEMMA SeqBigger ==
  ASSUME NEW S, NEW T, S \subseteq T, NEW s \in Seq(S)
  PROVE  s \in Seq(T)
  OBVIOUS

LEMMA AppendFacts ==
  ASSUME NEW S, NEW s \in Seq(S), NEW x \in S
  PROVE  /\ Append(s, x) \in Seq(S)
         /\ Elems(Append(s, x)) = Elems(s) \cup {x}
         /\ Distinct(s) /\ x \notin Elems(s) => Distinct(Append(s, x))
         /\ DOMAIN s = 1 .. Len(s) /\ Len(s) \in Nat
         /\ DOMAIN Append(s, x) = 1 .. Len(s) + 1
         /\ Len(Append(s, x)) = Len(s) + 1
         /\ Append(s, x)[Len(s) + 1] = x
         /\ \A i \in 1 .. Len(s) : Append(s, x)[i] = s[i]
<1>1. /\ Append(s, x) \in Seq(S) /\ Len(Append(s, x)) = Len(s) + 1
      /\ DOMAIN Append(s, x) = 1 .. Len(s) + 1 /\ DOMAIN s = 1 .. Len(s)
      /\ Append(s, x)[Len(s) + 1] = x
      /\ \A i \in 1 .. Len(s) : Append(s, x)[i] = s[i]
      /\ Len(s) \in Nat
  OBVIOUS
<1>2. Elems(Append(s, x)) = Elems(s) \cup {x}
  BY <1>1 DEF Elems
<1>3. ASSUME Distinct(s), x \notin Elems(s) PROVE Distinct(Append(s, x))
  <2>1. \A i \in DOMAIN Append(s, x) : i \in DOMAIN s \/ i = Len(s) + 1
    BY <1>1
  <2> QED
    BY <1>1, <1>3, <2>1 DEF Distinct, Elems
<1> QED
  BY <1>1, <1>2, <1>3

LEMMA HeadFacts ==
  ASSUME NEW S, NEW s \in Seq(S), s # <<>>
  PROVE  /\ Head(s) \in S /\ Head(s) \in Elems(s) /\ Head(s) = s[1]
         /\ Tail(s) \in Seq(S)
         /\ Elems(Tail(s)) \subseteq Elems(s)
         /\ Elems(s) \subseteq Elems(Tail(s)) \cup {Head(s)}
         /\ Distinct(s) => /\ Distinct(Tail(s))
                           /\ Head(s) \notin Elems(Tail(s))
         /\ 1 \in DOMAIN s
         /\ \A i \in DOMAIN Tail(s) :
              i \in Nat /\ i + 1 \in DOMAIN s /\ Tail(s)[i] = s[i + 1] /\ i >= 1
<1>1. /\ Head(s) = s[1] /\ 1 \in DOMAIN s /\ Len(s) >= 1
      /\ Tail(s) \in Seq(S) /\ DOMAIN Tail(s) = 1 .. Len(s) - 1
      /\ DOMAIN s = 1 .. Len(s) /\ Len(s) \in Nat
      /\ \A i \in 1 .. Len(s) - 1 : Tail(s)[i] = s[i + 1]
  OBVIOUS
<1>2. \A i \in DOMAIN Tail(s) :
        i \in Nat /\ i + 1 \in DOMAIN s /\ Tail(s)[i] = s[i + 1] /\ i >= 1
  BY <1>1
<1>3. \A i \in DOMAIN s : i # 1 => i - 1 \in DOMAIN Tail(s)
  BY <1>1
<1>4. s[1] \in S
  BY <1>1
<1>5. Elems(Tail(s)) \subseteq Elems(s)
  BY <1>2 DEF Elems
<1>6. Elems(s) \subseteq Elems(Tail(s)) \cup {Head(s)}
  <2>1. ASSUME NEW i \in DOMAIN s, i # 1 PROVE s[i] \in Elems(Tail(s))
    <3>1. i - 1 \in DOMAIN Tail(s) /\ i \in Nat
      BY <1>1, <1>3, <2>1
    <3>2. Tail(s)[i - 1] = s[i - 1 + 1] /\ i - 1 + 1 = i
      BY <1>2, <3>1
    <3> QED
      BY <3>1, <3>2 DEF Elems
  <2> QED
    BY <1>1, <2>1 DEF Elems
<1>7. ASSUME Distinct(s)
      PROVE  Distinct(Tail(s)) /\ Head(s) \notin Elems(Tail(s))
  <2>1. ASSUME NEW i \in DOMAIN Tail(s), NEW j \in DOMAIN Tail(s),
               Tail(s)[i] = Tail(s)[j]
        PROVE  i = j
    <3>1. i + 1 = j + 1 /\ i \in Nat /\ j \in Nat
      BY <1>2, <1>7, <2>1 DEF Distinct
    <3> QED
      BY <3>1
  <2>2. ASSUME NEW i \in DOMAIN Tail(s), Tail(s)[i] = Head(s) PROVE FALSE
    <3>1. i + 1 = 1 /\ i \in Nat /\ i >= 1
      BY <1>1, <1>2, <1>7, <2>2 DEF Distinct
    <3> QED
      BY <3>1
  <2> QED
    BY <2>1, <2>2 DEF Distinct, Elems
<1>8. Head(s) \in S /\ Head(s) \in Elems(s)
  BY <1>1, <1>4 DEF Elems
<1> QED
  BY <1>1, <1>2, <1>5, <1>6, <1>7, <1>8

(* Messages of different threads, and of different numbers, differ. *)
LEMMA MsgFacts ==
  ASSUME LogTypeOK
  PROVE  /\ \A p \in Threads : Msg(p) \in Messages /\ Msg(p)[1] = p
                              /\ Msg(p)[2] = said[p] /\ said[p] \in Nat
         /\ \A p, q \in Threads : Msg(p) = Msg(q) => p = q
         /\ NoMsg \notin Messages
         /\ \A m \in Messages : m[1] \in Threads /\ m[2] \in Nat
                                /\ m = <<m[1], m[2]>>
  BY LogOK DEF LogTypeOK, Msg, Messages

LEMMA LogInit == Init => LogInv
<1> SUFFICES ASSUME Init PROVE LogInv
  OBVIOUS
<1> USE LogOK DEF Init
<1>1. /\ pool \in Seq(1 .. Stock) /\ Len(text) = Stock /\ DOMAIN pool = 1 .. Stock
      /\ \A i \in 1 .. Stock : pool[i] = i
      /\ logs \in Seq(1 .. Stock) /\ Elems(logs) = {} /\ Distinct(logs)
      /\ Elems(pool) = 1 .. Stock /\ DOMAIN logs = {}
  BY DEF Elems, Distinct
<1>2. Blank \in Texts
  BY DEF Blank, Texts
<1>3. text \in Seq(Texts) /\ of \in Seq(Messages \cup {NoMsg}) /\ Len(of) = Stock
  BY <1>2
<1>4. LogTypeOK
  BY <1>1, <1>2, <1>3 DEF LogTypeOK, Records, HandPCs, OwnPCs
<1>5. OnePlace
  BY <1>1 DEF OnePlace, Distinct, NoRecord, HandPCs, OwnPCs
<1>6. Waiting = {}
  BY <1>1 DEF Waiting
<1>7. Queued
  BY <1>1, <1>6 DEF Queued, OwnPCs
<1>8. Formatted
  BY <1>6 DEF Formatted, FormattedBy, OwnText, OwnPCs
<1> QED
  BY <1>4, <1>5, <1>7, <1>8 DEF LogInv

(* popPool gives p a record nobody else has. *)
LEMMA PopFacts ==
  ASSUME LogInv, NEW p \in Threads,
         \/ Call(p) /\ ppc'[p] = "reset"
         \/ TryPop(p)
  PROVE  /\ LogTypeOK' /\ OnePlace'
         /\ ppc' = [ppc EXCEPT ![p] = "reset"]
         /\ \A r \in Records : of'[r] = of[r] /\ text'[r] = text[r]
         /\ \E r : hand' = [hand EXCEPT ![p] = r]
         /\ ppc[p] \in {"idle", "try"}
         /\ UNCHANGED <<logs, temp, wVars, said, disturbed>>
<1> USE DEF LogInv, NoRecord
<1>1. /\ LogTypeOK /\ OnePlace /\ Len(text) \in Nat
      /\ UNCHANGED <<logs, temp, wVars, said, disturbed>>
      /\ ppc[p] \in {"idle", "try"}
  BY DEF Call, TryPop, LogTypeOK
<1>2. CASE NewRecord(p)
  <2> DEFINE r == Len(text) + 1
  <2>1. Blank \in Texts
    BY DEF Blank, Texts
  <2>2. /\ text' \in Seq(Texts) /\ Len(text') = r
        /\ \A s \in Records : text'[s] = text[s]
    BY <1>1, <1>2, <2>1 DEF NewRecord, LogTypeOK, Records
  <2>3. /\ of' \in Seq(Messages \cup {NoMsg}) /\ Len(of') = r
        /\ \A s \in Records : of'[s] = of[s]
    BY <1>1, <1>2 DEF NewRecord, LogTypeOK, Records
  <2>4. Records' = 1 .. r /\ Records \subseteq Records' /\ r \in Records'
        /\ r \notin Records
    BY <1>1, <2>2 DEF Records
  <2>5. pool \in Seq(Records') /\ logs \in Seq(Records')
    BY <1>1, <2>4, SeqBigger DEF LogTypeOK
  <2>6. /\ ppc' = [ppc EXCEPT ![p] = "reset"] /\ hand' = [hand EXCEPT ![p] = r]
        /\ UNCHANGED pool
    BY <1>2 DEF NewRecord, Goto
  <2>7. LogTypeOK'
    BY <1>1, <2>2, <2>3, <2>4, <2>5, <2>6 DEF LogTypeOK, HandPCs, wVars
  <2>8. Elems(pool) \subseteq Records /\ Elems(logs) \subseteq Records
    BY <1>1 DEF LogTypeOK, Elems
  <2>9. /\ r \notin Elems(pool) \cup Elems(logs) /\ r # whand /\ r # 0
        /\ \A q \in Threads : hand[q] # r
    BY <1>1, <2>4, <2>8 DEF LogTypeOK, Records
  <2>10. OnePlace'
    BY <1>1, <2>6, <2>9 DEF OnePlace, LogTypeOK, HandPCs, wVars
  <2> QED
    BY <1>1, <2>2, <2>3, <2>6, <2>7, <2>10
<1>3. CASE ~NewRecord(p)
  <2>1. /\ pool # <<>> /\ ppc' = [ppc EXCEPT ![p] = "reset"]
        /\ hand' = [hand EXCEPT ![p] = Head(pool)] /\ pool' = Tail(pool)
        /\ UNCHANGED <<text, of>>
    BY <1>1, <1>3 DEF Call, TryPop, Goto, LogTypeOK
  <2>2. /\ Head(pool) \in Records /\ Head(pool) \in Elems(pool)
        /\ Tail(pool) \in Seq(Records)
        /\ Elems(Tail(pool)) \subseteq Elems(pool)
        /\ Distinct(Tail(pool)) /\ Head(pool) \notin Elems(Tail(pool))
    BY <1>1, <2>1, HeadFacts DEF LogTypeOK, OnePlace
  <2>3. Records' = Records
    BY <2>1 DEF Records
  <2>4. LogTypeOK'
    BY <1>1, <2>1, <2>2, <2>3 DEF LogTypeOK, HandPCs, wVars
  <2> DEFINE r == Head(pool)
  <2>5. r # 0 /\ r # whand /\ r \notin Elems(logs)
        /\ \A q \in Threads : hand[q] # r
    BY <1>1, <2>2 DEF OnePlace, LogTypeOK, Records
  <2>6. pool' = Tail(pool) /\ hand' = [hand EXCEPT ![p] = r]
    BY <2>1
  <2> HIDE DEF r
  <2>7. r \notin Elems(pool') /\ Elems(pool') \subseteq Elems(pool) /\ Distinct(pool')
    BY <2>2, <2>6 DEF r
  <2>8. OnePlace'
    BY <1>1, <2>1, <2>5, <2>6, <2>7 DEF OnePlace, LogTypeOK, HandPCs, wVars
  <2> QED
    BY <1>1, <2>1, <2>4, <2>8
<1> QED
  BY <1>2, <1>3

(* The actions that only change program counters and texts keep every      *)
(* record where it is.                                                     *)
LEMMA StepTypes ==
  ASSUME LogInv, NEW p \in Threads,
         Reset(p) \/ Clear(p) \/ Format(p) \/ Copy(p)
  PROVE  LogTypeOK' /\ OnePlace' /\ hand[p] \in Records
<1> USE DEF LogInv, NoRecord, Cells
<1>1. /\ LogTypeOK /\ OnePlace /\ UNCHANGED <<qVars, hand, wVars>>
      /\ \E pc \in OwnPCs : ppc' = [ppc EXCEPT ![p] = pc]
      /\ ppc[p] \in HandPCs
  BY DEF Reset, Clear, Format, Copy, Goto, OwnPCs, HandPCs
<1>2. hand[p] \in Records
  BY <1>1 DEF OnePlace, LogTypeOK
<1>3. /\ Msg(p) \in Messages /\ <<p, said[p] + 1>> \in Messages
      /\ \A q \in Threads : Msg(q) \in Messages
  BY <1>1 DEF Msg, Messages, LogTypeOK
<1>4. Blank \in Texts
  BY DEF Blank, Texts
<1>5. /\ text' \in Seq(Texts) /\ Len(text') = Len(text)
      /\ of' \in Seq(Messages \cup {NoMsg}) /\ Len(of') = Len(of)
  <2>1. CASE Reset(p)
    BY <1>1, <1>2, <1>3, <1>4, <2>1 DEF Reset, LogTypeOK, Records
  <2>2. CASE Clear(p) \/ Format(p)
    BY <1>1, <2>2 DEF Clear, Format, LogTypeOK, hVars
  <2>3. CASE Copy(p)
    <3>1. of' = of
      BY <2>3 DEF Copy, hVars
    <3>2. PICK i \in Cells :
            text' = [text EXCEPT ![hand[p]] = [text[hand[p]] EXCEPT ![i] = temp[i]]]
      BY <2>3 DEF Copy
    <3> DEFINE v == [text[hand[p]] EXCEPT ![i] = temp[i]]
    <3>3. v \in Texts
      BY <1>1, <1>2 DEF LogTypeOK, Records, Texts
    <3>4. text' = [text EXCEPT ![hand[p]] = v]
      BY <3>2
    <3> HIDE DEF v
    <3>5. text' \in Seq(Texts) /\ Len(text') = Len(text)
      BY <1>1, <1>2, <3>3, <3>4 DEF LogTypeOK, Records
    <3> QED
      BY <1>1, <3>1, <3>5 DEF LogTypeOK
  <2> QED
    BY <2>1, <2>2, <2>3
<1>6. temp' \in Texts
  BY <1>1, <1>3, <1>4 DEF Reset, Clear, Format, Copy, LogTypeOK, Texts
<1>7. said' \in [Threads -> Nat] /\ disturbed' \subseteq Messages
  BY <1>1, <1>3 DEF Reset, Clear, Format, Copy, LogTypeOK, hVars, Formatting
<1>8. LogTypeOK'
  BY <1>1, <1>5, <1>6, <1>7 DEF LogTypeOK, qVars, wVars, Records, OwnPCs, HandPCs
<1>9. OnePlace'
  BY <1>1 DEF OnePlace, LogTypeOK, qVars, wVars, OwnPCs, HandPCs
<1> QED
  BY <1>2, <1>8, <1>9

(* So do the actions that pass a record on. *)
LEMMA MoveTypes ==
  ASSUME LogInv, LogThread \/ \E p \in Threads : Push(p)
  PROVE  LogTypeOK' /\ OnePlace'
<1> USE DEF LogInv, NoRecord
<1>1. LogTypeOK /\ OnePlace
  OBVIOUS
<1>2. ASSUME NEW p \in Threads, Push(p) PROVE LogTypeOK' /\ OnePlace'
  <2> DEFINE r == hand[p]
  <2>1. /\ logs' = Append(logs, r) /\ hand' = [hand EXCEPT ![p] = NoRecord]
        /\ ppc' = [ppc EXCEPT ![p] = "idle"] /\ ppc[p] = "push"
        /\ UNCHANGED <<pool, text, temp, wVars, hVars>>
    BY <1>2 DEF Push, Goto
  <2>2. r \in Records
    BY <1>1, <2>1 DEF OnePlace, LogTypeOK, HandPCs, OwnPCs
  <2>3. r \notin Elems(logs) \cup Elems(pool) /\ r # whand
        /\ \A q \in Threads \ {p} : hand[q] # r
    BY <1>1, <2>2 DEF OnePlace, Records
  <2> HIDE DEF r
  <2>4. /\ logs' \in Seq(Records) /\ Elems(logs') = Elems(logs) \cup {r}
        /\ Distinct(logs')
    BY <1>1, <2>1, <2>2, <2>3, AppendFacts DEF LogTypeOK, OnePlace
  <2>5. LogTypeOK'
    BY <1>1, <2>1, <2>4 DEF LogTypeOK, wVars, hVars, Records
  <2>6. NoRecord \notin Records /\ NoRecord \notin Elems(logs') \cup Elems(pool)
    <3>1. Elems(pool) \subseteq Records
      BY <1>1 DEF LogTypeOK, Elems
    <3>2. Elems(logs) \subseteq Records
      BY <1>1 DEF LogTypeOK, Elems
    <3> QED
      BY <2>2, <2>4, <3>1, <3>2 DEF Records
  <2>7. OnePlace'
    BY <1>1, <2>1, <2>3, <2>4, <2>6 DEF OnePlace, LogTypeOK, wVars, HandPCs, OwnPCs
  <2> QED
    BY <2>5, <2>7
<1>3. CASE WTake
  <2>1. /\ wpc = "idle" /\ logs # <<>> /\ whand' = Head(logs)
        /\ logs' = Tail(logs) /\ wpc' = "write"
        /\ UNCHANGED <<pool, text, temp, ppc, hand, handled, hVars>>
    BY <1>3 DEF WTake
  <2> DEFINE r == Head(logs)
  <2>2. /\ r \in Records /\ r \in Elems(logs)
        /\ Tail(logs) \in Seq(Records)
        /\ Elems(Tail(logs)) \subseteq Elems(logs)
        /\ Distinct(Tail(logs)) /\ r \notin Elems(Tail(logs))
    BY <1>1, <2>1, HeadFacts DEF LogTypeOK, OnePlace
  <2>3. whand' = r
    BY <2>1
  <2> HIDE DEF r
  <2>4. LogTypeOK'
    BY <1>1, <2>1, <2>2, <2>3 DEF LogTypeOK, hVars, Records
  <2>5. r # 0
    BY <2>2 DEF Records
  <2>6. OnePlace'
    BY <1>1, <2>1, <2>2, <2>3, <2>5 DEF OnePlace, LogTypeOK, HandPCs
  <2> QED
    BY <2>4, <2>6
<1>4. CASE WriteLog
  <2>1. /\ wpc = "write" /\ wpc' = "recycle"
        /\ handled' = [handled EXCEPT ![of[whand][1]] = of[whand][2]]
        /\ UNCHANGED <<qVars, text, temp, ppc, hand, whand, hVars>>
    BY <1>4 DEF WriteLog
  <2>2. of[whand] \in Messages
    BY <2>1 DEF Queued, Waiting
  <2>3. of[whand][2] \in Nat
    BY <2>2 DEF Messages
  <2>4. LogTypeOK'
    BY <1>1, <2>1, <2>3 DEF LogTypeOK, hVars, qVars, Records
  <2>5. OnePlace'
    BY <1>1, <2>1 DEF OnePlace, qVars
  <2> QED
    BY <2>4, <2>5
<1>5. CASE Recycle
  <2>1. /\ wpc = "recycle" /\ pool' = Append(pool, whand) /\ whand' = NoRecord
        /\ wpc' = "idle"
        /\ UNCHANGED <<logs, text, temp, ppc, hand, handled, hVars>>
    BY <1>5 DEF Recycle
  <2> DEFINE r == whand
  <2>2. r \in Records /\ r # 0
    BY <1>1, <2>1 DEF OnePlace, LogTypeOK
  <2>3. r \notin Elems(logs) \cup Elems(pool) /\ \A q \in Threads : hand[q] # r
    BY <1>1, <2>2 DEF OnePlace
  <2>4. pool' = Append(pool, r)
    BY <2>1
  <2> HIDE DEF r
  <2>5. /\ pool' \in Seq(Records) /\ Elems(pool') = Elems(pool) \cup {r}
        /\ Distinct(pool')
    BY <1>1, <2>2, <2>3, <2>4, AppendFacts DEF LogTypeOK, OnePlace
  <2>6. LogTypeOK'
    BY <1>1, <2>1, <2>5 DEF LogTypeOK, hVars, Records
  <2>7. Elems(pool) \subseteq Records /\ Elems(logs) \subseteq Records /\ 0 \notin Records
    BY <1>1 DEF LogTypeOK, Elems, Records
  <2>8. OnePlace'
    BY <1>1, <2>1, <2>2, <2>3, <2>5, <2>7 DEF OnePlace, LogTypeOK, HandPCs
  <2> QED
    BY <2>6, <2>8
<1> QED
  BY <1>2, <1>3, <1>4, <1>5 DEF LogThread

LEMMA WaitingFacts ==
  ASSUME LogInv
  PROVE  /\ Waiting \subseteq Records
         /\ \A p \in Threads : ppc[p] \in HandPCs =>
              hand[p] \in Records \ Waiting
         /\ \A p, q \in Threads :
              p # q /\ ppc[p] \in HandPCs => hand[p] # hand[q]
<1> USE DEF LogInv, NoRecord
<1>1. Elems(logs) \subseteq Records
  BY DEF LogTypeOK, Elems
<1>2. Waiting \subseteq Records
  BY <1>1 DEF Waiting, OnePlace, LogTypeOK
<1>3. ASSUME NEW p \in Threads, ppc[p] \in HandPCs
      PROVE  hand[p] \in Records /\ hand[p] # NoRecord /\ hand[p] \notin Waiting
  BY <1>3 DEF OnePlace, LogTypeOK, Waiting
<1> QED
  BY <1>2, <1>3 DEF OnePlace

(* A step that lets the queue and the records in it be keeps their order   *)
(* and the messages in them.                                               *)
LEMMA QuietQueued ==
  ASSUME LogInv,
         UNCHANGED <<logs, wVars, said>>,
         \A r \in Waiting : of'[r] = of[r],
         \A p \in Threads :
           /\ ppc'[p] \in OwnPCs <=> ppc[p] \in OwnPCs
           /\ ppc[p] \in OwnPCs => hand'[p] = hand[p] /\ of'[hand[p]] = of[hand[p]]
  PROVE  Queued' /\ Waiting' = Waiting
<1> USE DEF LogInv, wVars
<1>1. Waiting' = Waiting
  BY DEF Waiting
<1>2. \A i \in DOMAIN logs : logs[i] \in Waiting
  BY DEF Waiting, Elems
<1>3. wpc = "write" => whand \in Waiting
  BY DEF Waiting
<1>4. Elems(logs) \subseteq Waiting
  BY DEF Waiting
<1>5. ASSUME NEW p \in Threads
      PROVE  /\ handled'[p] <= said'[p]
             /\ ppc'[p] \in OwnPCs => of'[hand'[p]] = Msg(p)' /\ handled'[p] < said'[p]
             /\ \A n \in 1 .. said'[p] : handled'[p] < n =>
                  \/ \E r \in Waiting' : of'[r] = <<p, n>>
                  \/ n = said'[p] /\ ppc'[p] \in OwnPCs
  BY <1>1 DEF Queued, Msg
<1>6. ASSUME NEW r \in Waiting'
      PROVE  /\ of'[r] \in Messages
             /\ handled'[of'[r][1]] < of'[r][2] /\ of'[r][2] <= said'[of'[r][1]]
             /\ ppc'[of'[r][1]] \in OwnPCs => of'[r][2] < said'[of'[r][1]]
  <2>1. r \in Waiting /\ of'[r] = of[r] /\ of[r] \in Messages
    BY <1>1 DEF Queued
  <2>2. of[r][1] \in Threads
    BY <2>1 DEF Messages
  <2> QED
    BY <2>1, <2>2 DEF Queued
<1>7. \A i, j \in DOMAIN logs' : i < j => Older(logs[i], logs[j])'
  BY <1>2 DEF Queued, Older
<1>8. wpc' = "write" => \A s \in Elems(logs)' : Older(whand, s)'
  BY <1>3, <1>4 DEF Queued, Older
<1> QED
  BY <1>1, <1>5, <1>6, <1>7, <1>8 DEF Queued

(* Queued is kept: by the steps of a thread ... *)
LEMMA ThreadQueued ==
  ASSUME LogInv, NEW p \in Threads, Call(p) \/ PushLog(p)
  PROVE  Queued'
<1> USE DEF LogInv, NoRecord
<1>1. LogTypeOK
  OBVIOUS
<1>2. CASE Call(p) /\ ppc'[p] # "reset"
  <2>1. /\ ppc' = [ppc EXCEPT ![p] = "try"] /\ ppc[p] = "idle"
        /\ UNCHANGED <<logs, wVars, said, of, hand>>
    BY <1>1, <1>2 DEF Call, NewRecord, Goto, LogTypeOK
  <2> QED
    BY <1>1, <2>1, QuietQueued DEF LogTypeOK, OwnPCs
<1>3. CASE (Call(p) /\ ppc'[p] = "reset") \/ TryPop(p)
  <2>1. /\ ppc' = [ppc EXCEPT ![p] = "reset"] /\ ppc[p] \in {"idle", "try"}
        /\ \A r \in Records : of'[r] = of[r]
        /\ \E r : hand' = [hand EXCEPT ![p] = r]
        /\ UNCHANGED <<logs, wVars, said>>
    BY <1>3, PopFacts
  <2>2. /\ Waiting \subseteq Records
        /\ \A q \in Threads : ppc[q] \in OwnPCs => hand[q] \in Records
    BY WaitingFacts DEF HandPCs
  <2>3. \A q \in Threads :
          /\ ppc'[q] \in OwnPCs <=> ppc[q] \in OwnPCs
          /\ ppc[q] \in OwnPCs => hand'[q] = hand[q]
    BY <1>1, <2>1 DEF LogTypeOK, OwnPCs
  <2> QED
    BY <2>1, <2>2, <2>3, QuietQueued
<1>4. CASE Clear(p) \/ Format(p) \/ Copy(p)
  <2>1. UNCHANGED <<logs, wVars, said, of, hand>>
    BY <1>4 DEF Clear, Format, Copy, qVars, hVars
  <2>2. \A q \in Threads : ppc'[q] \in OwnPCs <=> ppc[q] \in OwnPCs
    BY <1>1, <1>4 DEF Clear, Format, Copy, Goto, LogTypeOK, OwnPCs
  <2> QED
    BY <2>1, <2>2, QuietQueued
<1>5. CASE Reset(p)
  <2> DEFINE k == said[p] + 1
  <2>1. /\ ppc[p] = "reset" /\ ppc' = [ppc EXCEPT ![p] = "clear"]
        /\ said' = [said EXCEPT ![p] = k]
        /\ of' = [of EXCEPT ![hand[p]] = <<p, k>>]
        /\ UNCHANGED <<qVars, temp, hand, wVars, disturbed>>
    BY <1>5 DEF Reset, Goto
  <2>2. /\ hand[p] \in Records \ Waiting /\ Waiting \subseteq Records
        /\ \A q \in Threads \ {p} : ppc[q] \in OwnPCs => hand[q] # hand[p]
    BY <2>1, WaitingFacts DEF HandPCs
  <2>3. /\ of'[hand[p]] = <<p, k>>
        /\ \A r \in Records : r # hand[p] => of'[r] = of[r]
    BY <1>1, <2>1, <2>2 DEF LogTypeOK, Records
  <2>4. Waiting' = Waiting /\ \A r \in Waiting : of'[r] = of[r] /\ r # hand[p]
    BY <2>1, <2>2, <2>3 DEF Waiting, qVars, wVars
  <2>5. /\ said'[p] = k /\ k \in Nat /\ said[p] < k /\ handled[p] < k
        /\ \A q \in Threads : q # p => said'[q] = said[q]
        /\ handled' = handled
    BY <1>1, <2>1 DEF LogTypeOK, Queued, wVars
  <2>6. /\ ppc'[p] \in OwnPCs /\ ppc[p] \notin OwnPCs
        /\ \A q \in Threads : q # p => ppc'[q] = ppc[q]
    BY <1>1, <2>1 DEF LogTypeOK, OwnPCs
  <2>7. ASSUME NEW q \in Threads
        PROVE  /\ handled'[q] <= said'[q]
               /\ ppc'[q] \in OwnPCs => of'[hand'[q]] = Msg(q)' /\ handled'[q] < said'[q]
               /\ \A n \in 1 .. said'[q] : handled'[q] < n =>
                    \/ \E r \in Waiting' : of'[r] = <<q, n>>
                    \/ n = said'[q] /\ ppc'[q] \in OwnPCs
    <3>1. CASE q = p
      <4>1. handled'[q] <= said'[q] /\ handled'[q] < said'[q]
        BY <1>1, <2>5, <3>1 DEF LogTypeOK
      <4>2. of'[hand'[q]] = Msg(q)'
        BY <2>1, <2>3, <2>5, <3>1 DEF Msg
      <4>3. ASSUME NEW n \in 1 .. said'[q], handled'[q] < n, n # said'[q]
            PROVE  \E r \in Waiting' : of'[r] = <<q, n>>
        <5>1. n \in 1 .. said[p] /\ handled[p] < n
          BY <1>1, <2>5, <3>1, <4>3 DEF LogTypeOK
        <5>2. PICK r \in Waiting : of[r] = <<p, n>>
          BY <2>6, <5>1 DEF Queued
        <5> QED
          BY <2>4, <3>1, <5>2
      <4> QED
        BY <2>6, <3>1, <4>1, <4>2, <4>3
    <3>2. CASE q # p
      <4>1. ppc[q] \in OwnPCs => of'[hand[q]] = of[hand[q]]
        <5>1. ppc[q] \in OwnPCs => hand[q] \in Records /\ hand[q] # hand[p]
          BY <2>2, <3>2, WaitingFacts DEF HandPCs
        <5> QED
          BY <2>3, <5>1
      <4>2. UNCHANGED hand /\ said'[q] = said[q] /\ handled' = handled
            /\ ppc'[q] = ppc[q]
        BY <2>1, <2>5, <2>6, <3>2
      <4>3. ppc'[q] \in OwnPCs => of'[hand'[q]] = Msg(q)' /\ handled'[q] < said'[q]
        BY <4>1, <4>2 DEF Queued, Msg
      <4>4. ASSUME NEW n \in 1 .. said'[q], handled'[q] < n
            PROVE  \/ \E r \in Waiting' : of'[r] = <<q, n>>
                   \/ n = said'[q] /\ ppc'[q] \in OwnPCs
        <5>1. \/ \E r \in Waiting : of[r] = <<q, n>>
              \/ n = said[q] /\ ppc[q] \in OwnPCs
          BY <4>2, <4>4 DEF Queued
        <5> QED
          BY <2>4, <4>2, <5>1
      <4>5. handled'[q] <= said'[q]
        BY <4>2 DEF Queued
      <4> QED
        BY <4>3, <4>4, <4>5
    <3> QED
      BY <3>1, <3>2
  <2>8. ASSUME NEW r \in Waiting'
        PROVE  /\ of'[r] \in Messages
               /\ handled'[of'[r][1]] < of'[r][2] /\ of'[r][2] <= said'[of'[r][1]]
               /\ ppc'[of'[r][1]] \in OwnPCs => of'[r][2] < said'[of'[r][1]]
    <3>1. /\ r \in Waiting /\ of'[r] = of[r] /\ of[r] \in Messages
          /\ handled[of[r][1]] < of[r][2] /\ of[r][2] <= said[of[r][1]]
          /\ ppc[of[r][1]] \in OwnPCs => of[r][2] < said[of[r][1]]
      BY <2>4 DEF Queued
    <3>2. of[r][1] \in Threads /\ of[r][2] \in Nat
      BY <3>1 DEF Messages
    <3>3. CASE of[r][1] = p
      BY <1>1, <2>5, <3>1, <3>2, <3>3 DEF LogTypeOK
    <3>4. CASE of[r][1] # p
      BY <2>5, <2>6, <3>1, <3>2, <3>4
    <3> QED
      BY <3>3, <3>4
  <2>9. logs' = logs /\ wpc' = wpc /\ whand' = whand
    BY <2>1 DEF qVars, wVars
  <2>10. \A i, j \in DOMAIN logs' : i < j => Older(logs[i], logs[j])'
    BY <2>4, <2>9 DEF Queued, Older, Waiting, Elems
  <2>11. wpc' = "write" => \A s \in Elems(logs)' : Older(whand, s)'
    BY <2>4, <2>9 DEF Queued, Older, Waiting
  <2> QED
    BY <2>7, <2>8, <2>10, <2>11 DEF Queued
<1>6. CASE Push(p)
  <2> DEFINE h == hand[p]
  <2>1. /\ ppc[p] = "push" /\ ppc' = [ppc EXCEPT ![p] = "idle"]
        /\ logs' = Append(logs, h) /\ hand' = [hand EXCEPT ![p] = NoRecord]
        /\ UNCHANGED <<pool, text, temp, wVars, hVars>>
    BY <1>6 DEF Push, Goto
  <2>2. /\ h \in Records /\ h \notin Waiting /\ ppc[p] \in OwnPCs
    BY <2>1, WaitingFacts DEF HandPCs, OwnPCs
  <2>3. of[h] = <<p, said[p]>> /\ handled[p] < said[p]
    BY <2>2 DEF Queued, Msg
  <2> HIDE DEF h
  <2>4. /\ Elems(logs') = Elems(logs) \cup {h}
        /\ DOMAIN logs = 1 .. Len(logs) /\ DOMAIN logs' = 1 .. Len(logs) + 1
        /\ Len(logs) \in Nat
        /\ logs'[Len(logs) + 1] = h
        /\ \A i \in 1 .. Len(logs) : logs'[i] = logs[i]
    BY <1>1, <2>1, <2>2, AppendFacts DEF LogTypeOK
  <2>5. Waiting' = Waiting \cup {h} /\ UNCHANGED <<of, said, handled, wpc, whand>>
    BY <2>1, <2>4 DEF Waiting, wVars, hVars
  <2>6. /\ ppc'[p] \notin OwnPCs
        /\ \A q \in Threads : q # p => ppc'[q] = ppc[q] /\ hand'[q] = hand[q]
    BY <1>1, <2>1 DEF LogTypeOK, OwnPCs
  <2>7. \A r \in Waiting : Older(r, h)
    <3> SUFFICES ASSUME NEW r \in Waiting, of[r][1] = of[h][1]
                 PROVE  of[r][2] < of[h][2]
      BY DEF Older
    <3>1. of[r][1] = p
      BY <2>3
    <3> QED
      BY <2>2, <2>3, <3>1 DEF Queued
  <2>8. ASSUME NEW q \in Threads
        PROVE  /\ handled'[q] <= said'[q]
               /\ ppc'[q] \in OwnPCs => of'[hand'[q]] = Msg(q)' /\ handled'[q] < said'[q]
               /\ \A n \in 1 .. said'[q] : handled'[q] < n =>
                    \/ \E r \in Waiting' : of'[r] = <<q, n>>
                    \/ n = said'[q] /\ ppc'[q] \in OwnPCs
    <3>1. CASE q = p
      BY <2>2, <2>3, <2>5, <2>6, <3>1 DEF Queued
    <3>2. CASE q # p
      BY <2>5, <2>6, <3>2 DEF Queued, Msg
    <3> QED
      BY <3>1, <3>2
  <2>9. ASSUME NEW r \in Waiting'
        PROVE  /\ of'[r] \in Messages
               /\ handled'[of'[r][1]] < of'[r][2] /\ of'[r][2] <= said'[of'[r][1]]
               /\ ppc'[of'[r][1]] \in OwnPCs => of'[r][2] < said'[of'[r][1]]
    <3>1. CASE r = h
      <4>1. said[p] \in Nat
        BY <1>1 DEF LogTypeOK
      <4> QED
        BY SMTT(30), <2>3, <2>5, <2>6, <3>1, <4>1 DEF Messages
    <3>2. CASE r \in Waiting
      <4>1. of[r][1] \in Threads
        BY <3>2 DEF Queued, Messages
      <4> QED
        BY <2>5, <2>6, <3>2, <4>1 DEF Queued
    <3> QED
      BY <2>5, <3>1, <3>2
  <2>10. ASSUME NEW i \in DOMAIN logs', NEW j \in DOMAIN logs', i < j
         PROVE  Older(logs[i], logs[j])'
    <3>1. i \in 1 .. Len(logs)
      BY <2>4, <2>10
    <3>2. CASE j \in 1 .. Len(logs)
      BY <2>4, <2>5, <2>10, <3>1, <3>2 DEF Queued, Older
    <3>3. CASE j = Len(logs) + 1
      BY <2>4, <2>5, <2>7, <3>1, <3>3 DEF Older, Waiting, Elems
    <3> QED
      BY <2>4, <3>2, <3>3
  <2>11. wpc' = "write" => \A s \in Elems(logs)' : Older(whand, s)'
    BY <2>4, <2>5, <2>7 DEF Queued, Older, Waiting
  <2> QED
    BY <2>8, <2>9, <2>10, <2>11 DEF Queued
<1> QED
  BY <1>2, <1>3, <1>4, <1>5, <1>6 DEF PushLog

(* ... and by those of the log thread. *)
LEMMA WriterQueued ==
  ASSUME LogInv, LogThread
  PROVE  Queued'
<1> USE DEF LogInv, NoRecord
<1>1. LogTypeOK
  OBVIOUS
<1>2. CASE WTake
  <2>1. /\ wpc = "idle" /\ logs # <<>> /\ whand' = Head(logs)
        /\ logs' = Tail(logs) /\ wpc' = "write"
        /\ UNCHANGED <<ppc, hand, handled, said, of>>
    BY <1>2 DEF WTake, hVars
  <2>2. /\ Head(logs) = logs[1] /\ 1 \in DOMAIN logs
        /\ Head(logs) \in Elems(logs)
        /\ Elems(Tail(logs)) \subseteq Elems(logs)
        /\ Elems(logs) \subseteq Elems(Tail(logs)) \cup {Head(logs)}
        /\ \A i \in DOMAIN Tail(logs) :
             i \in Nat /\ i + 1 \in DOMAIN logs /\ Tail(logs)[i] = logs[i + 1] /\ i >= 1
    BY <1>1, <2>1, HeadFacts DEF LogTypeOK
  <2>3. Waiting' = Waiting
    BY <2>1, <2>2 DEF Waiting
  <2>4. \A i, j \in DOMAIN logs' : i < j => Older(logs[i], logs[j])'
    <3>1. ASSUME NEW i \in DOMAIN logs', NEW j \in DOMAIN logs', i < j
          PROVE  Older(logs[i], logs[j])'
      <4>1. /\ i + 1 \in DOMAIN logs /\ j + 1 \in DOMAIN logs /\ i + 1 < j + 1
            /\ logs'[i] = logs[i + 1] /\ logs'[j] = logs[j + 1]
        BY <2>1, <2>2, <3>1
      <4>2. Older(logs[i + 1], logs[j + 1])
        BY <4>1 DEF Queued
      <4> QED
        BY <2>1, <4>1, <4>2 DEF Older
    <3> QED
      BY <3>1
  <2>5. \A s \in Elems(logs)' : Older(whand, s)'
    <3>1. ASSUME NEW i \in DOMAIN Tail(logs) PROVE Older(logs[1], Tail(logs)[i])
      <4>1. i + 1 \in DOMAIN logs /\ Tail(logs)[i] = logs[i + 1] /\ 1 < i + 1
        BY <2>2
      <4> QED
        BY <2>2, <4>1 DEF Queued
    <3> QED
      BY <2>1, <2>2, <3>1 DEF Older, Elems
  <2>6. /\ \A p \in Threads :
             /\ handled'[p] <= said'[p]
             /\ ppc'[p] \in OwnPCs => of'[hand'[p]] = Msg(p)' /\ handled'[p] < said'[p]
             /\ \A n \in 1 .. said'[p] : handled'[p] < n =>
                  \/ \E r \in Waiting' : of'[r] = <<p, n>>
                  \/ n = said'[p] /\ ppc'[p] \in OwnPCs
        /\ \A r \in Waiting' :
             /\ of'[r] \in Messages
             /\ handled'[of'[r][1]] < of'[r][2] /\ of'[r][2] <= said'[of'[r][1]]
             /\ ppc'[of'[r][1]] \in OwnPCs => of'[r][2] < said'[of'[r][1]]
    BY <2>1, <2>3 DEF Queued, Msg
  <2> QED
    BY <2>4, <2>5, <2>6 DEF Queued
<1>3. CASE WriteLog
  <2> DEFINE q == of[whand][1]  k == of[whand][2]
  <2>1. /\ wpc = "write" /\ wpc' = "recycle" /\ handled' = [handled EXCEPT ![q] = k]
        /\ UNCHANGED <<logs, ppc, hand, whand, said, of>>
    BY <1>3 DEF WriteLog, qVars, hVars
  <2>2. whand \in Waiting /\ of[whand] \in Messages
    BY <2>1 DEF Waiting, Queued
  <2>3. /\ q \in Threads /\ k \in Nat /\ handled[q] < k /\ k <= said[q]
        /\ ppc[q] \in OwnPCs => k < said[q]
    BY <2>2 DEF Queued, Messages
  <2>4. \A s \in Elems(logs) : of[s][1] = q => k < of[s][2]
    BY <2>1 DEF Queued, Older
  <2>10. of[whand] = <<q, k>>
    BY <2>2 DEF Messages
  <2> HIDE DEF q, k
  <2>5. /\ handled'[q] = k /\ \A p \in Threads : p # q => handled'[p] = handled[p]
    BY <1>1, <2>1, <2>3 DEF LogTypeOK
  <2>6. Waiting' = Elems(logs) /\ Waiting = Elems(logs) \cup {whand}
    BY <2>1 DEF Waiting
  <2>7. ASSUME NEW p \in Threads
        PROVE  /\ handled'[p] <= said'[p]
               /\ ppc'[p] \in OwnPCs => of'[hand'[p]] = Msg(p)' /\ handled'[p] < said'[p]
               /\ \A n \in 1 .. said'[p] : handled'[p] < n =>
                    \/ \E r \in Waiting' : of'[r] = <<p, n>>
                    \/ n = said'[p] /\ ppc'[p] \in OwnPCs
    <3>1. handled'[p] <= said[p] /\ (ppc[p] \in OwnPCs => handled'[p] < said[p])
      BY <2>3, <2>5 DEF Queued
    <3>2. ppc[p] \in OwnPCs => of[hand[p]] = Msg(p)
      BY DEF Queued
    <3>3. ASSUME NEW n \in 1 .. said[p], handled'[p] < n
          PROVE  \/ \E r \in Elems(logs) : of[r] = <<p, n>>
                 \/ n = said[p] /\ ppc[p] \in OwnPCs
      <4>1. handled[p] < n
        <5>1. CASE p = q
          BY <1>1, <2>3, <2>5, <3>3, <5>1 DEF LogTypeOK
        <5>2. CASE p # q
          BY <2>5, <3>3, <5>2
        <5> QED
          BY <5>1, <5>2
      <4>2. \/ \E r \in Waiting : of[r] = <<p, n>>
            \/ n = said[p] /\ ppc[p] \in OwnPCs
        BY <4>1 DEF Queued
      <4>3. of[whand] # <<p, n>>
        <5>1. p = q => k < n
          BY <2>5, <3>3
        <5> QED
          BY <2>3, <2>10, <5>1
      <4> QED
        BY <2>6, <4>2, <4>3
    <3> QED
      BY <2>1, <2>6, <3>1, <3>2, <3>3 DEF Msg
  <2>8. ASSUME NEW r \in Waiting'
        PROVE  /\ of'[r] \in Messages
               /\ handled'[of'[r][1]] < of'[r][2] /\ of'[r][2] <= said'[of'[r][1]]
               /\ ppc'[of'[r][1]] \in OwnPCs => of'[r][2] < said'[of'[r][1]]
    <3>1. r \in Elems(logs) /\ r \in Waiting
      BY <2>6
    <3>2. of[r][1] \in Threads
      BY <3>1 DEF Queued, Messages
    <3>3. handled'[of[r][1]] < of[r][2]
      BY <2>4, <2>5, <3>1, <3>2 DEF Queued
    <3> QED
      BY <2>1, <3>1, <3>3 DEF Queued
  <2>9. /\ \A i, j \in DOMAIN logs' : i < j => Older(logs[i], logs[j])'
        /\ wpc' # "write"
    BY <2>1 DEF Queued, Older
  <2> QED
    BY <2>7, <2>8, <2>9 DEF Queued
<1>4. CASE Recycle
  <2>1. /\ wpc = "recycle" /\ wpc' = "idle"
        /\ UNCHANGED <<logs, ppc, hand, handled, said, of>>
    BY <1>4 DEF Recycle, hVars
  <2>2. Waiting' = Waiting
    BY <2>1 DEF Waiting
  <2> QED
    BY <2>1, <2>2 DEF Queued, Older, Msg
<1> QED
  BY <1>2, <1>3, <1>4 DEF LogThread

(* A step of p that lets the texts of the others be keeps what they have   *)
(* formatted.                                                              *)
LEMMA OthersFormatted ==
  ASSUME LogInv, NEW p \in Threads, NEW q \in Threads, q # p,
         ppc'[q] = ppc[q], hand'[q] = hand[q], said'[q] = said[q],
         disturbed \subseteq disturbed',
         ppc[q] \in OwnPCs => text'[hand[q]] = text[hand[q]],
         q \in Formatting /\ Msg(q) \notin disturbed' =>
           temp' = temp /\ Formatting' = Formatting
  PROVE  FormattedBy(q)'
<1>1. Msg(q)' = Msg(q) /\ FormattedBy(q)
  BY DEF Msg, LogInv, Formatted
<1>2. q \in Formatting <=> ppc[q] \in {"format1", "format2", "copy1", "copy2"}
  BY DEF Formatting
<1>3. q \in Formatting' <=> ppc[q] \in {"format1", "format2", "copy1", "copy2"}
  BY DEF Formatting
<1>4. SUFFICES ASSUME ppc[q] \in OwnPCs, Msg(q) \notin disturbed'
               PROVE  /\ ppc[q] \in {"format2", "copy1", "copy2"} => temp'[1] = Msg(q)
                      /\ ppc[q] \in {"copy1", "copy2"} => temp'[2] = Msg(q)
                      /\ ppc[q] \in {"copy2", "push"} => text[hand[q]][1] = Msg(q)
                      /\ ppc[q] = "push" => text[hand[q]][2] = Msg(q)
                      /\ q \in Formatting' => Formatting' = {q}
  BY <1>1 DEF FormattedBy
<1> QED
  BY <1>1, <1>2, <1>3, <1>4 DEF FormattedBy

LEMMA ThreadFormatted ==
  ASSUME LogInv, NEW p \in Threads, Call(p) \/ PushLog(p)
  PROVE  Formatted'
<1> USE DEF LogInv, NoRecord
<1>1. LogTypeOK /\ OwnText /\ \A q \in Threads : FormattedBy(q)
  BY DEF Formatted
<1>2. /\ Waiting \subseteq Records
      /\ \A q \in Threads : ppc[q] \in OwnPCs => hand[q] \in Records \ Waiting
      /\ \A q \in Threads : q # p /\ ppc[q] \in OwnPCs => hand[q] # hand[p]
  BY WaitingFacts DEF HandPCs
<1>3. \A q \in Threads :
        q \in Formatting <=> ppc[q] \in {"format1", "format2", "copy1", "copy2"}
  BY DEF Formatting
<1>4. CASE Call(p) /\ ppc'[p] # "reset"
  <2>1. /\ ppc' = [ppc EXCEPT ![p] = "try"] /\ ppc[p] = "idle"
        /\ UNCHANGED <<logs, wpc, whand, said, of, hand, text, temp, disturbed>>
    BY <1>1, <1>4 DEF Call, NewRecord, Goto, LogTypeOK, wVars
  <2>2. ppc'[p] = "try" /\ \A q \in Threads : q # p => ppc'[q] = ppc[q]
    BY <1>1, <2>1 DEF LogTypeOK
  <2>3. Formatting' = Formatting
    BY <2>1, <2>2 DEF Formatting
  <2>4. FormattedBy(p)'
    BY <2>2 DEF FormattedBy, OwnPCs
  <2>5. \A q \in Threads : q # p => FormattedBy(q)'
    BY <2>1, <2>2, <2>3, OthersFormatted
  <2>6. OwnText'
    BY <1>1, <2>1 DEF OwnText, Waiting, Own
  <2> QED
    BY <2>4, <2>5, <2>6 DEF Formatted
<1>5. CASE (Call(p) /\ ppc'[p] = "reset") \/ TryPop(p)
  <2>1. /\ ppc' = [ppc EXCEPT ![p] = "reset"] /\ ppc[p] \in {"idle", "try"}
        /\ \A r \in Records : of'[r] = of[r] /\ text'[r] = text[r]
        /\ \E r : hand' = [hand EXCEPT ![p] = r]
        /\ UNCHANGED <<logs, temp, wpc, whand, said, disturbed>>
    BY <1>5, PopFacts DEF wVars
  <2>2. /\ ppc'[p] = "reset"
        /\ \A q \in Threads : q # p => ppc'[q] = ppc[q] /\ hand'[q] = hand[q]
    BY <1>1, <2>1 DEF LogTypeOK
  <2>3. Formatting' = Formatting
    BY <2>1, <2>2 DEF Formatting
  <2>4. FormattedBy(p)'
    BY <2>2 DEF FormattedBy, OwnPCs
  <2>5. ASSUME NEW q \in Threads, q # p PROVE FormattedBy(q)'
    <3>1. ppc[q] \in OwnPCs => text'[hand[q]] = text[hand[q]]
      BY <1>2, <2>1
    <3> QED
      BY <2>1, <2>2, <2>3, <2>5, <3>1, OthersFormatted
  <2>6. OwnText'
    BY <1>1, <1>2, <2>1 DEF OwnText, Waiting, Own
  <2> QED
    BY <2>4, <2>5, <2>6 DEF Formatted
<1>6. CASE Reset(p)
  <2>1. /\ ppc[p] = "reset" /\ ppc' = [ppc EXCEPT ![p] = "clear"]
        /\ said' = [said EXCEPT ![p] = said[p] + 1]
        /\ of' = [of EXCEPT ![hand[p]] = <<p, said[p] + 1>>]
        /\ text' = [text EXCEPT ![hand[p]] = Blank]
        /\ UNCHANGED <<logs, wpc, whand, temp, hand, disturbed>>
    BY <1>6 DEF Reset, Goto, qVars, wVars
  <2>2. /\ ppc'[p] = "clear"
        /\ \A q \in Threads : q # p => ppc'[q] = ppc[q] /\ said'[q] = said[q]
    BY <1>1, <2>1 DEF LogTypeOK
  <2>3. hand[p] \in Records \ Waiting
    BY <2>1, WaitingFacts DEF HandPCs
  <2>4. \A r \in Records : r # hand[p] => of'[r] = of[r] /\ text'[r] = text[r]
    BY <1>1, <2>1, <2>3 DEF LogTypeOK, Records
  <2>5. Formatting' = Formatting
    BY <2>1, <2>2 DEF Formatting
  <2>6. FormattedBy(p)'
    BY <2>2 DEF FormattedBy, Formatting
  <2>7. ASSUME NEW q \in Threads, q # p PROVE FormattedBy(q)'
    <3>1. ppc[q] \in OwnPCs => text'[hand[q]] = text[hand[q]]
      BY <1>2, <2>4, <2>7
    <3> QED
      BY <2>1, <2>2, <2>5, <2>7, <3>1, OthersFormatted
  <2>8. OwnText'
    <3>1. Waiting' = Waiting
      BY <2>1 DEF Waiting
    <3>2. \A r \in Waiting : r \in Records /\ r # hand[p]
      BY <1>2, <2>3
    <3> QED
      BY <1>1, <2>1, <2>4, <3>1, <3>2 DEF OwnText, Own
  <2> QED
    BY <2>6, <2>7, <2>8 DEF Formatted
<1>7. CASE Clear(p)
  <2>1. /\ ppc[p] = "clear" /\ ppc' = [ppc EXCEPT ![p] = "format1"]
        /\ disturbed' = IF Formatting = {} THEN disturbed
                        ELSE disturbed \cup {Msg(q) : q \in Formatting \cup {p}}
        /\ UNCHANGED <<logs, wpc, whand, text, hand, said, of>>
    BY <1>7 DEF Clear, Goto, qVars, wVars
  <2>2. /\ ppc'[p] = "format1" /\ \A q \in Threads : q # p => ppc'[q] = ppc[q]
    BY <1>1, <2>1 DEF LogTypeOK
  <2>3. /\ disturbed \subseteq disturbed'
        /\ \A q \in Formatting : Msg(q) \in disturbed'
        /\ Formatting # {} => Msg(p) \in disturbed'
    BY <2>1
  <2>4. Formatting = {} => Formatting' = {p}
    BY <2>2 DEF Formatting
  <2>5. FormattedBy(p)'
    BY <2>1, <2>2, <2>3, <2>4 DEF FormattedBy, Msg
  <2>6. \A q \in Threads : q # p => FormattedBy(q)'
    BY <2>1, <2>2, <2>3, OthersFormatted
  <2>7. OwnText'
    BY <1>1, <2>1, <2>3 DEF OwnText, Waiting, Own
  <2> QED
    BY <2>5, <2>6, <2>7 DEF Formatted
<1>8. CASE Format(p)
  <2>1. /\ p \in Formatting
        /\ UNCHANGED <<logs, wpc, whand, text, hand, said, of, disturbed>>
    BY <1>3, <1>8 DEF Format, qVars, wVars, hVars
  <2>2. /\ \/ /\ ppc[p] = "format1" /\ ppc'[p] = "format2"
              /\ temp'[1] = Msg(p)
           \/ /\ ppc[p] = "format2" /\ ppc'[p] = "copy1"
              /\ temp'[1] = temp[1] /\ temp'[2] = Msg(p)
        /\ \A q \in Threads : q # p => ppc'[q] = ppc[q]
    BY <1>1, <1>8 DEF Format, Goto, LogTypeOK, Texts, Cells
  <2>3. Formatting' = Formatting
    BY <2>1, <2>2 DEF Formatting
  <2>4. FormattedBy(p)'
    BY <1>1, <2>1, <2>2, <2>3 DEF FormattedBy, Msg, OwnPCs
  <2>5. ASSUME NEW q \in Threads, q # p PROVE FormattedBy(q)'
    <3>1. ~(q \in Formatting /\ Msg(q) \notin disturbed)
      BY <1>1, <1>3, <2>1, <2>5 DEF FormattedBy, OwnPCs
    <3> QED
      BY <2>1, <2>2, <2>5, <3>1, OthersFormatted
  <2>6. OwnText'
    BY <1>1, <2>1 DEF OwnText, Waiting, Own
  <2> QED
    BY <2>4, <2>5, <2>6 DEF Formatted
<1>9. CASE Copy(p)
  <2>1. /\ p \in Formatting /\ ppc[p] \in OwnPCs
        /\ UNCHANGED <<logs, wpc, whand, temp, hand, said, of, disturbed>>
    BY <1>3, <1>9 DEF Copy, qVars, wVars, hVars, OwnPCs
  <2>2. hand[p] \in Records \ Waiting
    BY <1>2, <2>1
  <2>3. /\ \/ /\ ppc[p] = "copy1" /\ ppc'[p] = "copy2"
              /\ text'[hand[p]][1] = temp[1]
           \/ /\ ppc[p] = "copy2" /\ ppc'[p] = "push"
              /\ text'[hand[p]][1] = text[hand[p]][1]
              /\ text'[hand[p]][2] = temp[2]
        /\ \A q \in Threads : q # p => ppc'[q] = ppc[q]
        /\ \A r \in Records : r # hand[p] => text'[r] = text[r]
    <3>1. text[hand[p]] \in Texts
      BY <1>1, <2>2 DEF LogTypeOK, Records
    <3>2. \A r \in Records : r # hand[p] => text'[r] = text[r]
      BY <1>1, <1>9, <2>2 DEF Copy, LogTypeOK, Records
    <3>3. CASE ppc[p] = "copy1"
      <4>1. text' = [text EXCEPT ![hand[p]] = [text[hand[p]] EXCEPT ![1] = temp[1]]]
        BY <1>9, <3>3 DEF Copy
      <4> DEFINE v == [text[hand[p]] EXCEPT ![1] = temp[1]]
      <4>2. text' = [text EXCEPT ![hand[p]] = v]
        BY <4>1
      <4> HIDE DEF v
      <4>3. text'[hand[p]] = v
        BY <1>1, <2>2, <4>2 DEF LogTypeOK, Records
      <4> QED
        BY <1>1, <1>9, <3>1, <3>2, <3>3, <4>3 DEF v, Copy, Goto, LogTypeOK, Texts, Cells
    <3>4. CASE ppc[p] # "copy1"
      <4>1. text' = [text EXCEPT ![hand[p]] = [text[hand[p]] EXCEPT ![2] = temp[2]]]
        BY <1>9, <3>4 DEF Copy
      <4> DEFINE v == [text[hand[p]] EXCEPT ![2] = temp[2]]
      <4>2. text' = [text EXCEPT ![hand[p]] = v]
        BY <4>1
      <4> HIDE DEF v
      <4>3. text'[hand[p]] = v
        BY <1>1, <2>2, <4>2 DEF LogTypeOK, Records
      <4> QED
        BY <1>1, <1>9, <3>1, <3>2, <3>4, <4>3 DEF v, Copy, Goto, LogTypeOK, Texts, Cells
    <3> QED
      BY <3>3, <3>4
  <2>4. Formatting' = Formatting \/ ppc'[p] = "push"
    BY <2>3 DEF Formatting
  <2>5. FormattedBy(p)'
    <3>1. p \in Formatting' => Formatting' = Formatting
      BY <2>4 DEF Formatting
    <3> QED
      BY <1>1, <2>1, <2>3, <3>1 DEF FormattedBy, Msg, OwnPCs
  <2>6. ASSUME NEW q \in Threads, q # p PROVE FormattedBy(q)'
    <3>1. ~(q \in Formatting /\ Msg(q) \notin disturbed)
      BY <1>1, <1>3, <2>1, <2>6 DEF FormattedBy, OwnPCs
    <3>2. ppc[q] \in OwnPCs => text'[hand[q]] = text[hand[q]]
      BY <1>2, <2>3, <2>6
    <3> QED
      BY <2>1, <2>3, <2>6, <3>1, <3>2, OthersFormatted
  <2>7. OwnText'
    <3>1. Waiting' = Waiting /\ \A r \in Waiting : text'[r] = text[r]
      BY <1>2, <2>1, <2>2, <2>3 DEF Waiting
    <3> QED
      BY <1>1, <2>1, <3>1 DEF OwnText, Own
  <2> QED
    BY <2>5, <2>6, <2>7 DEF Formatted
<1>10. CASE Push(p)
  <2> DEFINE h == hand[p]
  <2>1. /\ ppc[p] = "push" /\ ppc' = [ppc EXCEPT ![p] = "idle"]
        /\ logs' = Append(logs, h) /\ hand' = [hand EXCEPT ![p] = NoRecord]
        /\ UNCHANGED <<text, temp, wpc, whand, said, of, disturbed>>
    BY <1>10 DEF Push, Goto, wVars, hVars
  <2>2. h \in Records /\ of[h] = Msg(p)
    BY <1>2, <2>1 DEF Queued, OwnPCs
  <2>3. Msg(p) \in disturbed \/ (text[h][1] = Msg(p) /\ text[h][2] = Msg(p))
    BY <1>1, <2>1 DEF FormattedBy, OwnPCs
  <2> HIDE DEF h
  <2>4. Waiting' = Waiting \cup {h}
    BY <1>1, <2>1, <2>2, AppendFacts DEF LogTypeOK, Waiting
  <2>5. OwnText'
    BY <1>1, <2>1, <2>2, <2>3, <2>4 DEF OwnText, Own, Cells
  <2>6. /\ ppc'[p] = "idle"
        /\ \A q \in Threads : q # p => ppc'[q] = ppc[q] /\ hand'[q] = hand[q]
    BY <1>1, <2>1 DEF LogTypeOK
  <2>7. Formatting' = Formatting
    BY <2>1, <2>6 DEF Formatting
  <2>8. FormattedBy(p)'
    BY <2>6 DEF FormattedBy, OwnPCs
  <2>9. \A q \in Threads : q # p => FormattedBy(q)'
    BY <2>1, <2>6, <2>7, OthersFormatted
  <2> QED
    BY <2>5, <2>8, <2>9 DEF Formatted
<1> QED
  BY <1>4, <1>5, <1>6, <1>7, <1>8, <1>9, <1>10 DEF PushLog

LEMMA WriterFormatted ==
  ASSUME LogInv, LogThread
  PROVE  Formatted'
<1> USE DEF LogInv, NoRecord
<1>1. LogTypeOK /\ OwnText /\ \A q \in Threads : FormattedBy(q)
  BY DEF Formatted
<1>2. UNCHANGED <<text, temp, ppc, hand, said, of, disturbed>>
  BY DEF LogThread, WTake, WriteLog, Recycle, hVars
<1>3. Waiting' \subseteq Waiting
  <2>1. CASE WTake
    <3>1. logs # <<>> /\ logs' = Tail(logs) /\ whand' = Head(logs) /\ wpc' = "write"
      BY <2>1 DEF WTake
    <3> QED
      BY <1>1, <3>1, HeadFacts DEF LogTypeOK, Waiting
  <2>2. CASE WriteLog
    BY <2>2 DEF WriteLog, Waiting, qVars
  <2>3. CASE Recycle
    BY <2>3 DEF Recycle, Waiting
  <2> QED
    BY <2>1, <2>2, <2>3 DEF LogThread
<1>4. OwnText'
  BY <1>1, <1>2, <1>3 DEF OwnText, Own
<1>5. \A q \in Threads : FormattedBy(q)'
  BY <1>1, <1>2 DEF FormattedBy, Formatting, Msg
<1> QED
  BY <1>4, <1>5 DEF Formatted

LEMMA LogNext == LogInv /\ [Next]_vars => LogInv'
<1> SUFFICES ASSUME LogInv, [Next]_vars PROVE LogInv'
  OBVIOUS
<1>1. ASSUME NEW p \in Threads, Call(p) \/ PushLog(p) PROVE LogInv'
  <2>1. LogTypeOK' /\ OnePlace'
    <3>1. CASE Call(p) /\ ppc'[p] # "reset"
      <4>1. /\ ppc' = [ppc EXCEPT ![p] = "try"] /\ ppc[p] = "idle"
            /\ UNCHANGED <<qVars, hand, text, of, temp, wVars, said, disturbed>>
        BY <3>1 DEF Call, NewRecord, Goto, qVars, LogInv, LogTypeOK
      <4> QED
        BY <4>1 DEF LogInv, LogTypeOK, OnePlace, Records, qVars, wVars, HandPCs, OwnPCs
    <3>2. CASE (Call(p) /\ ppc'[p] = "reset") \/ TryPop(p)
      BY <3>2, PopFacts
    <3>3. CASE Reset(p) \/ Clear(p) \/ Format(p) \/ Copy(p)
      BY <3>3, StepTypes
    <3>4. CASE Push(p)
      BY <3>4, MoveTypes
    <3> QED
      BY <1>1, <3>1, <3>2, <3>3, <3>4 DEF PushLog
  <2> QED
    BY <1>1, <2>1, ThreadQueued, ThreadFormatted DEF LogInv
<1>2. CASE LogThread
  BY <1>2, MoveTypes, WriterQueued, WriterFormatted DEF LogInv
<1>3. CASE UNCHANGED vars
  <2>1. UNCHANGED <<pool, logs, text, temp, ppc, hand, wpc, whand, handled, said,
                    of, disturbed>>
    BY <1>3 DEF vars, qVars, wVars, hVars
  <2>2. LogTypeOK' /\ OnePlace'
    BY <2>1 DEF LogInv, LogTypeOK, OnePlace, Records
  <2>3. Waiting' = Waiting
    BY <2>1 DEF Waiting
  <2>4. Queued'
    BY <2>1, <2>3 DEF LogInv, Queued, Older, Msg
  <2>5. Formatted'
    BY <2>1, <2>3 DEF LogInv, Formatted, FormattedBy, Formatting, OwnText, Own, Msg
  <2> QED
    BY <2>2, <2>4, <2>5 DEF LogInv
<1> QED
  BY <1>1, <1>2, <1>3 DEF Next

(* popPool and the log thread never share out a record twice, every message *)
(* that has one is in the queue until it is handled, and what was formatted *)
(* alone stays whole.                                                       *)
THEOREM LogSafe == Spec => []LogInv
  BY LogInit, LogNext, PTL DEF Spec

(* A text the log thread writes is its message's, unless two threads were  *)
(* in temp_str at once.                                                    *)
THEOREM OwnTextAlways == Spec => []OwnText
<1>1. LogInv => OwnText
  BY DEF LogInv, Formatted
<1> QED
  BY <1>1, LogSafe, PTL

(* The log of each thread is written in order, each message once: pushLog, *)
(* the two queues and the log thread implement Journal.                    *)
THEOREM LogImplements == Spec => InOrder
<1>1. Init => J!Init
  BY DEF Init, J!Init
<1>2. ASSUME LogInv, [Next]_vars PROVE [J!Next]_<<said, handled>>
  <2>1. CASE WriteLog
    <3> DEFINE q == of[whand][1]  k == of[whand][2]
    <3>1. wpc = "write" /\ handled' = [handled EXCEPT ![q] = k] /\ said' = said
      BY <2>1 DEF WriteLog, hVars
    <3>2. whand \in Waiting
      BY <3>1 DEF Waiting
    <3>3. q \in Threads /\ k \in Nat /\ of[whand] = <<q, k>>
      BY <1>2, <3>2 DEF LogInv, Queued, Messages
    <3>4. handled[q] < k /\ k <= said[q] /\ (ppc[q] \in OwnPCs => k < said[q])
      BY <1>2, <3>2 DEF LogInv, Queued
    <3>5. \A s \in Elems(logs) : of[s][1] = q => k < of[s][2]
      BY <1>2, <3>1 DEF LogInv, Queued, Older
    <3>6. handled \in [Threads -> Nat] /\ said \in [Threads -> Nat]
      BY <1>2 DEF LogInv, LogTypeOK
    <3> HIDE DEF q, k
    <3>7. k = handled[q] + 1
      <4> DEFINE n == handled[q] + 1
      <4>1. n \in 1 .. said[q] /\ handled[q] < n /\ n <= k
        BY <3>3, <3>4, <3>6
      <4>2. \/ \E r \in Waiting : of[r] = <<q, n>>
            \/ n = said[q] /\ ppc[q] \in OwnPCs
        BY <1>2, <3>3, <4>1 DEF LogInv, Queued
      <4>3. n # said[q] \/ ppc[q] \notin OwnPCs
        BY <3>3, <3>4, <3>6, <4>1
      <4>4. PICK r \in Waiting : of[r] = <<q, n>>
        BY <4>2, <4>3
      <4>5. CASE r \in Elems(logs)
        <5>1. k < n
          BY <3>5, <4>4, <4>5
        <5> QED
          BY <3>3, <3>6, <4>1, <5>1
      <4>6. CASE r = whand
        BY <3>3, <4>4, <4>6
      <4> QED
        BY <3>1, <4>4, <4>5, <4>6 DEF Waiting
    <3>8. J!Handle(q)
      BY <3>1, <3>3, <3>4, <3>6, <3>7 DEF J!Handle
    <3> QED
      BY <3>3, <3>8 DEF J!Next
  <2>2. ASSUME NEW p \in Threads, Reset(p) PROVE J!Next
    BY <2>2 DEF Reset, wVars, J!Next, J!Say
  <2>3. ASSUME NEW p \in Threads, Call(p) \/ (PushLog(p) /\ ~Reset(p))
        PROVE  UNCHANGED <<said, handled>>
    BY <2>3 DEF Call, PushLog, TryPop, Clear, Format, Copy, Push, wVars, hVars
  <2>4. CASE WTake \/ Recycle
    BY <2>4 DEF WTake, Recycle, hVars
  <2>5. CASE UNCHANGED vars
    BY <2>5 DEF vars, wVars, hVars
  <2> QED
    BY <1>2, <2>1, <2>2, <2>3, <2>4, <2>5 DEF Next, LogThread
<1> QED
  BY <1>1, <1>2, LogSafe, PTL DEF Spec, InOrder, J!Spec
=============================================================================
