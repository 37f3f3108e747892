------------------------------ MODULE LogPool ------------------------------
(***************************************************************************)
(* The log of LogFile.cpp.  pushLog takes a record from __pools, formats   *)
(* the message into the one global temp_str, copies it into the record and *)
(* queues that in __logs; the log thread writes it to a file and returns   *)
(* it to __pools.  Both queues are concurrent, temp_str has no lock.       *)
(*                                                                         *)
(* In the server only the main thread logs; with a TcpClient its thread    *)
(* does too, from onDisconnect ("sub-thread or main thread").  A message   *)
(* is its thread and number; a text has two cells, so that a mixture of    *)
(* two messages can be told from either.                                   *)
(***************************************************************************)
EXTENDS Integers, Sequences

CONSTANTS
  Threads,  \* threads that call pushLog
  NoMsg,    \* what a cell of a blank text holds
  Stock,    \* MAX_LOG_LENGTH: records runLogThread makes
  SayMax    \* bound on the messages of each thread

ASSUME LogOK ==
  /\ NoMsg \notin Threads \X Nat
  /\ Stock \in Nat
  /\ SayMax \in [Threads -> Nat]

VARIABLES
  pool,    \* __pools
  logs,    \* __logs
  text,    \* text of each record, in the order of their making
  temp,    \* temp_str
  ppc,     \* where each thread is in pushLog
  hand,    \* the record it has there
  wpc,     \* log thread: "idle", "write" or "recycle"
  whand,   \* the record it has
  said,    \* messages of each thread that have a record
  handled, \* the last of them the log thread is done with
  of,      \* history: the message of each record
  disturbed \* history: messages formatted while another one was

qVars == <<pool, logs>>
wVars == <<wpc, whand, handled>>
hVars == <<said, of, disturbed>>
vars == <<qVars, text, temp, ppc, hand, wVars, hVars>>

Cells == 1 .. 2
Blank == [i \in Cells |-> NoMsg]
NoRecord == 0

Init ==
  /\ pool = [r \in 1 .. Stock |-> r] /\ logs = <<>>
  /\ text = [r \in 1 .. Stock |-> Blank]
  /\ temp = Blank
  /\ ppc = [p \in Threads |-> "idle"]
  /\ hand = [p \in Threads |-> NoRecord]
  /\ wpc = "idle" /\ whand = NoRecord
  /\ said = [p \in Threads |-> 0]
  /\ handled = [p \in Threads |-> 0]
  /\ of = [r \in 1 .. Stock |-> NoMsg]
  /\ disturbed = {}
-----------------------------------------------------------------------------
(* pushLog                                                                 *)

Goto(p, pc) == ppc' = [ppc EXCEPT ![p] = pc]
Msg(p) == <<p, said[p]>>   \* the message p is logging

(* new S_LOG_BASE *)
NewRecord(p) ==
  /\ hand' = [hand EXCEPT ![p] = Len(text) + 1]
  /\ text' = Append(text, Blank)
  /\ of' = Append(of, NoMsg)
  /\ Goto(p, "reset")
  /\ UNCHANGED pool

(* popPool: a new record if the pool is empty ... *)
Call(p) ==
  /\ ppc[p] = "idle"
  /\ said[p] < SayMax[p]
  /\ \/ pool = <<>> /\ NewRecord(p)
     \/ pool # <<>> /\ Goto(p, "try") /\ UNCHANGED <<pool, hand, text, of>>
  /\ UNCHANGED <<logs, temp, wVars, said, disturbed>>

(* Mutant: the record is read but left in the pool. *)
TryPopLeaves(p) ==
  /\ ppc[p] = "try"
  /\ \/ pool = <<>> /\ NewRecord(p)
     \/ /\ pool # <<>>
        /\ hand' = [hand EXCEPT ![p] = Head(pool)]
        /\ Goto(p, "reset")
        /\ UNCHANGED <<pool, text, of>>
  /\ UNCHANGED <<logs, temp, wVars, said, disturbed>>

(* ... or if another thread has emptied it since. *)
TryPop(p) ==
  /\ ppc[p] = "try"
  /\ \/ pool = <<>> /\ NewRecord(p)
     \/ /\ pool # <<>>
        /\ hand' = [hand EXCEPT ![p] = Head(pool)]
        /\ pool' = Tail(pool)
        /\ Goto(p, "reset")
        /\ UNCHANGED <<text, of>>
  /\ UNCHANGED <<logs, temp, wVars, said, disturbed>>

(* S_LOG_BASE::reset *)
Reset(p) ==
  /\ ppc[p] = "reset"
  /\ said' = [said EXCEPT ![p] = @ + 1]
  /\ of' = [of EXCEPT ![hand[p]] = <<p, said[p] + 1>>]
  /\ text' = [text EXCEPT ![hand[p]] = Blank]
  /\ Goto(p, "clear")
  /\ UNCHANGED <<qVars, temp, hand, wVars, disturbed>>

(* Threads that use temp_str *)
Formatting == {p \in Threads :
  ppc[p] \in {"format1", "format2", "copy1", "copy2"}}

(* memset of temp_str *)
Clear(p) ==
  /\ ppc[p] = "clear"
  /\ temp' = Blank
  /\ disturbed' = IF Formatting = {} THEN disturbed
                  ELSE disturbed \cup {Msg(q) : q \in Formatting \cup {p}}
  /\ Goto(p, "format1")
  /\ UNCHANGED <<qVars, text, hand, wVars, said, of>>

(* vsnprintf_s *)
Format(p) ==
  /\ \/ /\ ppc[p] = "format1"
        /\ temp' = [temp EXCEPT ![1] = Msg(p)]
        /\ Goto(p, "format2")
     \/ /\ ppc[p] = "format2"
        /\ temp' = [temp EXCEPT ![2] = Msg(p)]
        /\ Goto(p, "copy1")
  /\ UNCHANGED <<qVars, text, hand, wVars, hVars>>

(* sprintf_s into the record *)
Copy(p) ==
  /\ \/ /\ ppc[p] = "copy1"
        /\ text' = [text EXCEPT ![hand[p]] = [@ EXCEPT ![1] = temp[1]]]
        /\ Goto(p, "copy2")
     \/ /\ ppc[p] = "copy2"
        /\ text' = [text EXCEPT ![hand[p]] = [@ EXCEPT ![2] = temp[2]]]
        /\ Goto(p, "push")
  /\ UNCHANGED <<qVars, temp, hand, wVars, hVars>>

(* Mutant: the newest message is written first. *)
PushFront(p) ==
  /\ ppc[p] = "push"
  /\ logs' = <<hand[p]>> \o logs
  /\ hand' = [hand EXCEPT ![p] = NoRecord]
  /\ Goto(p, "idle")
  /\ UNCHANGED <<pool, text, temp, wVars, hVars>>

Push(p) ==
  /\ ppc[p] = "push"
  /\ logs' = Append(logs, hand[p])
  /\ hand' = [hand EXCEPT ![p] = NoRecord]
  /\ Goto(p, "idle")
  /\ UNCHANGED <<pool, text, temp, wVars, hVars>>

PushLog(p) ==
  TryPop(p) \/ Reset(p) \/ Clear(p) \/ Format(p) \/ Copy(p) \/ Push(p)
-----------------------------------------------------------------------------
(* Log thread: run                                                         *)

(* Mutant: the record goes back before it is written. *)
WTakeRecycles ==
  /\ wpc = "idle" /\ logs # <<>>
  /\ whand' = Head(logs)
  /\ logs' = Tail(logs)
  /\ pool' = Append(pool, Head(logs))
  /\ wpc' = "write"
  /\ UNCHANGED <<text, temp, ppc, hand, handled, hVars>>

WTake ==
  /\ wpc = "idle" /\ logs # <<>>
  /\ whand' = Head(logs)
  /\ logs' = Tail(logs)
  /\ wpc' = "write"
  /\ UNCHANGED <<pool, text, temp, ppc, hand, handled, hVars>>

(* Mutant: a file that cannot be opened ends the round. *)
WriteLogGivesUp ==
  /\ wpc = "write"
  /\ \/ /\ handled' = [handled EXCEPT ![of[whand][1]] = of[whand][2]]
        /\ wpc' = "recycle"
        /\ UNCHANGED whand
     \/ /\ wpc' = "idle" /\ whand' = NoRecord
        /\ UNCHANGED handled
  /\ UNCHANGED <<qVars, text, temp, ppc, hand, hVars>>

(* writelog appends the text to its file, or drops it if fOpen fails. *)
WriteLog ==
  /\ wpc = "write"
  /\ handled' = [handled EXCEPT ![of[whand][1]] = of[whand][2]]
  /\ wpc' = "recycle"
  /\ UNCHANGED <<qVars, text, temp, ppc, hand, whand, hVars>>

Recycle ==
  /\ wpc = "recycle"
  /\ pool' = Append(pool, whand)
  /\ whand' = NoRecord
  /\ wpc' = "idle"
  /\ UNCHANGED <<logs, text, temp, ppc, hand, handled, hVars>>

LogThread == WTake \/ WriteLog \/ Recycle
-----------------------------------------------------------------------------
Next == LogThread \/ \E p \in Threads : Call(p) \/ PushLog(p)

Spec == Init /\ [][Next]_vars

(* Every thread that has begun runs on. *)
FairSpec == Spec /\ WF_vars(LogThread) /\ \A p \in Threads : WF_vars(PushLog(p))
-----------------------------------------------------------------------------
Records == 1 .. Len(text)
Messages == Threads \X Nat
Texts == [Cells -> Messages \cup {NoMsg}]
OwnPCs == {"clear", "format1", "format2", "copy1", "copy2", "push"}
HandPCs == OwnPCs \cup {"reset"}

LogTypeOK ==
  /\ pool \in Seq(Records) /\ logs \in Seq(Records)
  /\ text \in Seq(Texts)
  /\ temp \in Texts
  /\ ppc \in [Threads -> HandPCs \cup {"idle", "try"}]
  /\ hand \in [Threads -> Records \cup {NoRecord}]
  /\ wpc \in {"idle", "write", "recycle"}
  /\ whand \in Records \cup {NoRecord}
  /\ said \in [Threads -> Nat] /\ handled \in [Threads -> Nat]
  /\ of \in Seq(Messages \cup {NoMsg}) /\ Len(of) = Len(text)
  /\ disturbed \subseteq Messages

(* The text the log thread finds in a record is that of its message, whole *)
(* and unmixed, unless another thread was in pushLog with temp_str at the  *)
(* same time: with the main thread alone, always.                          *)
Elems(s) == {s[i] : i \in DOMAIN s}
Waiting == Elems(logs) \cup (IF wpc = "write" THEN {whand} ELSE {})
Own(r) == \A i \in Cells : text[r][i] = of[r]
OwnText == \A r \in Waiting : of[r] \in disturbed \/ Own(r)

(* The log implements Journal: no message of a thread is lost, handled     *)
(* twice or overtaken by a later one, whatever the other threads do.       *)
J == INSTANCE Journal WITH said <- said, handled <- handled
InOrder == J!Spec

(* Every message that has got a record is handled in the end. *)
AllHandled == \A p \in Threads : \A n \in 1 .. SayMax[p] :
  said[p] >= n ~> handled[p] >= n
-----------------------------------------------------------------------------
(* Why, as an inductive invariant.                                         *)

(* Every record is in one place: the pool, the queue, a thread's hands or  *)
(* the log thread's, although popPool tests and pops separately.           *)
Distinct(s) == \A i, j \in DOMAIN s : s[i] = s[j] => i = j

OnePlace ==
  /\ Distinct(pool) /\ Distinct(logs)
  /\ Elems(pool) \cap Elems(logs) = {}
  /\ whand = NoRecord <=> wpc = "idle"
  /\ whand \notin Elems(pool) \cup Elems(logs)
  /\ \A p \in Threads :
       /\ hand[p] = NoRecord <=> ppc[p] \notin HandPCs
       /\ hand[p] \notin Elems(pool) \cup Elems(logs)
       /\ hand[p] = whand => hand[p] = NoRecord
       /\ \A q \in Threads \ {p} : hand[p] = hand[q] => hand[p] = NoRecord

(* The messages of a thread that are not handled are in the queue, in      *)
(* order, the last of them perhaps in its hands.                           *)
Older(r, s) == of[r][1] = of[s][1] => of[r][2] < of[s][2]

Queued ==
  /\ \A p \in Threads :
       /\ handled[p] <= said[p]
       /\ ppc[p] \in OwnPCs => of[hand[p]] = Msg(p) /\ handled[p] < said[p]
       /\ \A n \in 1 .. said[p] : handled[p] < n =>
            \/ \E r \in Waiting : of[r] = <<p, n>>
            \/ n = said[p] /\ ppc[p] \in OwnPCs
  /\ \A r \in Waiting :
       /\ of[r] \in Messages
       /\ handled[of[r][1]] < of[r][2] /\ of[r][2] <= said[of[r][1]]
       /\ ppc[of[r][1]] \in OwnPCs => of[r][2] < said[of[r][1]]
  /\ \A i, j \in DOMAIN logs : i < j => Older(logs[i], logs[j])
  /\ wpc = "write" => \A s \in Elems(logs) : Older(whand, s)

(* A message formatted without company is in temp_str, then in its record. *)
FormattedBy(p) ==
  ppc[p] \in OwnPCs /\ Msg(p) \notin disturbed =>
    /\ ppc[p] \in {"format2", "copy1", "copy2"} => temp[1] = Msg(p)
    /\ ppc[p] \in {"copy1", "copy2"} => temp[2] = Msg(p)
    /\ ppc[p] \in {"copy2", "push"} => text[hand[p]][1] = Msg(p)
    /\ ppc[p] = "push" => text[hand[p]][2] = Msg(p)
    /\ p \in Formatting => Formatting = {p}

Formatted == OwnText /\ \A p \in Threads : FormattedBy(p)

LogInv ==
  /\ LogTypeOK
  /\ OnePlace
  /\ Queued
  /\ Formatted
=============================================================================
