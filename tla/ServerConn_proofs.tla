------------------------- MODULE ServerConn_proofs -------------------------
(***************************************************************************)
(* For any number of slots, handles and posted accepts: the variables of   *)
(* ServerConn keep their types whatever the number of workers, and with    *)
(* one worker, as AppManager starts it, a socket has one owner.            *)
(***************************************************************************)
EXTENDS ServerConn, TLAPS

LEMMA InitShape == Init => TypeOK /\ WorkerShape
  BY ConstantsOK DEF Init, TypeOK, WorkerShape, Slots, Modes, Ops, NoOp,
     NoSlot, WorkerPCs, AcceptPCs, MainPCs

(* No step of a worker leaves the types. *)
LEMMA WorkerStepShape ==
  ASSUME TypeOK, WorkerShape, NEW w \in Workers, WorkerStep(w)
  PROVE  TypeOK' /\ WorkerShape'
<1> USE ConstantsOK DEF TypeOK, WorkerShape, WorkerPCs, AcceptPCs, MainPCs,
      slotVars, osVars, wVars, mVars, WGoto, WDone
<1>1. CASE DequeueFailed(w)
  BY <1>1 DEF DequeueFailed, Take
<1>2. CASE DequeueDone(w)
  BY SMTT(30), <1>2 DEF DequeueDone, Take, Ops, Modes
<1>3. CASE ShutDownFind(w)
  <2>1. CASE wpc' = [wpc EXCEPT ![w] = "shut"]
    <3>1. wop[w] \in Modes \X Handles
      BY <1>3 DEF ShutDownFind, Ops
    <3>2. wslot' = [wslot EXCEPT ![w] = index[wop[w][2]]] /\ wop' = wop
          /\ wown' = wown /\ wflag' = wflag /\ Found(wop[w][2])
      BY <1>3, <2>1 DEF ShutDownFind
    <3>3. index[wop[w][2]] \in Slots
      BY <3>1, <3>2 DEF Found, NoSlot
    <3>4. QED
      BY <1>3, <2>1, <3>2, <3>3 DEF ShutDownFind
  <2>2. CASE WDone(w)
    BY <1>3, <2>2 DEF ShutDownFind
  <2>3. QED
    BY <1>3, <2>1, <2>2 DEF ShutDownFind
<1>4. CASE ShutDownMark(w)
  BY <1>4 DEF ShutDownMark
<1>5. CASE OnRecv(w)
  <2>1. wop[w][2] \in Handles /\ index[wop[w][2]] \in Slots \cup {NoSlot}
    BY <1>5 DEF OnRecv, Ops
  <2>2. \/ wslot' = wslot /\ wpc' = [wpc EXCEPT ![w] = "find"]
        \/ /\ wslot' = [wslot EXCEPT ![w] = index[wop[w][2]]]
           /\ index[wop[w][2]] # NoSlot
           /\ wpc' = [wpc EXCEPT ![w] = "save"]
    BY <1>5 DEF OnRecv, Found
  <2>3. UNCHANGED <<slotVars, index, connectCount, osVars, wop, wown, wflag, mVars>>
        /\ wpc[w] = "recv"
    BY <1>5 DEF OnRecv
  <2> QED
    BY <2>1, <2>2, <2>3 DEF NoSlot
<1>6. CASE OnRecvSave(w)
  BY <1>6 DEF OnRecvSave
<1>7. CASE OnRecvRearm(w)
  BY <1>7 DEF OnRecvRearm, Post, Ops, Modes
<1>8. CASE OnRecvRearmFails(w)
  BY <1>8 DEF OnRecvRearmFails, ShutDown
<1>9. CASE OnSend(w)
  BY ZenonT(40), <1>9 DEF OnSend, Found, Ops
<1>10. CASE OnSendDone(w)
  <2>1. PICK b \in {unsent[wslot[w]], FALSE} :
          unsent' = [unsent EXCEPT ![wslot[w]] = b]
    BY <1>10 DEF OnSendDone
  <2>2. b \in BOOLEAN
    BY <1>10 DEF OnSendDone
  <2>3. QED
    BY <1>10, <2>1, <2>2 DEF OnSendDone
<1>11. CASE OnAcceptRefused(w)
  BY <1>11 DEF OnAcceptRefused
<1>12. CASE OnAcceptSlot(w)
  BY <1>12 DEF OnAcceptSlot, ResetTo
<1>13. CASE OnAcceptBind(w)
  BY <1>13 DEF OnAcceptBind, Ops
<1>14. CASE OnAcceptFirstRecv(w)
  BY <1>14 DEF OnAcceptFirstRecv, Post, Ops, Modes
<1>15. CASE OnAcceptFirstRecvFails(w)
  BY <1>15 DEF OnAcceptFirstRecvFails, ResetTo
<1>16. CASE OnAcceptCount(w)
  <2>1. (state[wslot[w]] # "Free") \in BOOLEAN
    OBVIOUS
  <2>2. unsent' \in [Slots -> BOOLEAN]
    BY <1>16, <2>1 DEF OnAcceptCount
  <2>3. QED
    BY <1>16, <2>2 DEF OnAcceptCount
<1>17. CASE RefuseClose(w)
  <2>1. wown' \in [Workers -> BOOLEAN]
    BY <1>17 DEF RefuseClose, Release
  <2>2. posted' \in [Ops -> Nat] /\ orphan' \in [Ops -> Nat]
    BY <1>17 DEF RefuseClose, Release
  <2>3. QED
    BY <1>17, <2>1, <2>2 DEF RefuseClose, Release
<1>18. CASE PostAccept(w)
  BY <1>18 DEF PostAccept, Post, Ops, Modes
<1>19. CASE PostAcceptFails(w)
  BY <1>19 DEF PostAcceptFails
<1>20. QED
  BY <1>1, <1>2, <1>3, <1>4, <1>5, <1>6, <1>7, <1>8, <1>9, <1>10, <1>11,
     <1>12, <1>13, <1>14, <1>15, <1>16, <1>17, <1>18, <1>19 DEF WorkerStep

(* No step of the main thread leaves the types. *)
LEMMA MainStepShape ==
  ASSUME TypeOK, WorkerShape, MainStep
  PROVE  TypeOK' /\ WorkerShape'
<1> USE ConstantsOK DEF TypeOK, WorkerShape, MainPCs, slotVars, osVars, wVars,
      mVars, MGoto
<1>1. (mslot' = mslot \/ MAdvance) => mslot' \in Slots
  BY DEF MAdvance, Slots
<1>2. CASE MSkip
  BY <1>1, <1>2 DEF MSkip, MAdvance
<1>3. CASE MCheckClosing
  BY <1>1, <1>3 DEF MCheckClosing, MAdvance
<1>4. CASE MCheckOpen
  BY ZenonT(40), <1>1, <1>4 DEF MCheckOpen, MAdvance, ShutDown
<1>5. CASE MUncount
  BY <1>5 DEF MUncount
<1>6. CASE MRelease
  <2>1. wown' \in [Workers -> BOOLEAN]
    BY <1>6 DEF MRelease, Release
  <2>2. posted' \in [Ops -> Nat] /\ orphan' \in [Ops -> Nat]
    BY <1>6 DEF MRelease, Release
  <2>3. QED
    BY <1>6, <2>1, <2>2 DEF MRelease, Release
<1>7. CASE MReset
  BY <1>7 DEF MReset, ResetTo
<1>8. CASE MParseEnter \/ MParseNone
  BY <1>1, <1>8 DEF MParseEnter, MParseNone, MAdvance
<1>9. CASE MParseEnd
  BY <1>9 DEF MParseEnd, MParsing
<1>10. CASE MParseBadHead
  <2>1. unsent' \in [Slots -> BOOLEAN]
    BY <1>10 DEF MParseBadHead, MayReply
  <2>2. state' \in [Slots -> {"Free", "Connect", "Secure"}]
    BY <1>10 DEF MParseBadHead
  <2>3. closing' \in [Slots -> BOOLEAN] /\ late' \in [Slots -> BOOLEAN]
    BY ZenonT(40), <1>10 DEF MParseBadHead, ShutDown
  <2>4. QED
    BY <1>1, <1>10, <2>1, <2>2, <2>3 DEF MParseBadHead, MAdvance
<1>11. CASE MParseRejected
  <2>1. unsent' \in [Slots -> BOOLEAN]
    BY <1>11 DEF MParseRejected, MayReply
  <2>2. QED
    BY <1>11, <2>1 DEF MParseRejected, MParsing
<1>12. CASE MParseFrames
  <2>1. unsent' \in [Slots -> BOOLEAN]
    BY <1>12 DEF MParseFrames, MayReply
  <2>2. QED
    BY <1>12, <2>1 DEF MParseFrames, MParsing
<1>13. CASE MParseShutDown
  <2>1. unsent' \in [Slots -> BOOLEAN]
    BY <1>13 DEF MParseShutDown, MayReply
  <2>2. PICK st \in {state[mslot], "Secure"} :
          /\ state' = [state EXCEPT ![mslot] = st]
          /\ recvCompleted' = [recvCompleted EXCEPT ![mslot] = st = "Connect"]
    BY <1>13 DEF MParseShutDown
  <2>3. (st = "Connect") \in BOOLEAN
    OBVIOUS
  <2>4. recvCompleted' \in [Slots -> BOOLEAN]
    BY <2>2, <2>3
  <2>5. state' \in [Slots -> {"Free", "Connect", "Secure"}]
    BY <2>2, <1>13 DEF MParseShutDown
  <2>6. closing' \in [Slots -> BOOLEAN] /\ late' \in [Slots -> BOOLEAN]
    BY ZenonT(40), <1>13 DEF MParseShutDown, ShutDown
  <2>7. QED
    BY <1>1, <1>13, <2>1, <2>4, <2>5, <2>6 DEF MParseShutDown, MAdvance
<1>14. CASE MSendNone
  BY <1>1, <1>14 DEF MSendNone, MAdvance
<1>15. CASE MSend
  BY <1>1, <1>15 DEF MSend, MSending, MAdvance, Post, Ops, Modes
<1>16. CASE MSendFails
  BY ZenonT(40), <1>1, <1>16 DEF MSendFails, MSending, MAdvance, ShutDown
<1>17. QED
  BY <1>2, <1>3, <1>4, <1>5, <1>6, <1>7, <1>8, <1>9, <1>10, <1>11, <1>12,
     <1>13, <1>14, <1>15, <1>16 DEF MainStep

LEMMA NextShape ==
  ASSUME TypeOK, WorkerShape, [Next]_vars
  PROVE  TypeOK' /\ WorkerShape'
<1>1. ASSUME NEW w \in Workers, WorkerStep(w)
      PROVE  TypeOK' /\ WorkerShape'
  BY <1>1, WorkerStepShape
<1>2. CASE MainStep
  BY <1>2, MainStepShape
<1>3. ASSUME NEW s \in Slots, Tick(s)
      PROVE  TypeOK' /\ WorkerShape'
  BY <1>3 DEF Tick, TypeOK, WorkerShape, osVars, wVars, mVars
<1>4. CASE UNCHANGED vars
  BY <1>4 DEF TypeOK, WorkerShape, vars, slotVars, osVars, wVars, mVars
<1>5. QED
  BY <1>1, <1>2, <1>3, <1>4 DEF Next

(* The variables keep their types, and a worker that has dequeued an       *)
(* operation keeps hold of it, for every number of workers.                *)
THEOREM TypeCorrect == Spec => []TypeOK
<1>1. Init => TypeOK /\ WorkerShape
  BY InitShape
<1>2. TypeOK /\ WorkerShape /\ [Next]_vars => (TypeOK /\ WorkerShape)'
  BY NextShape
<1>3. QED
  BY <1>1, <1>2, PTL DEF Spec
-----------------------------------------------------------------------------
(* AppManager starts the server with one worker: runServer(1). *)
OneWorker == \A v, w \in Workers : v = w

LEMMA InitOwned == Init => OwnershipInv
<1>1. SUFFICES ASSUME Init PROVE OwnershipInv
  OBVIOUS
<1>2. TypeOK /\ WorkerShape
  BY <1>1, InitShape
<1>3. AcceptPosted
  <2>1. PICK L \in SUBSET Handles :
          /\ inUse = [h \in Handles |-> h \in L]
          /\ posted = [op \in Ops |->
               IF op[1] = "accept" /\ op[2] \in L THEN 1 ELSE 0]
    BY <1>1 DEF Init
  <2>2. SUFFICES ASSUME NEW h \in Handles
                 PROVE  /\ posted[<<"accept", h>>] <= 1
                        /\ orphan[<<"accept", h>>] = 0
                        /\ posted[<<"accept", h>>] > 0 => inUse[h]
                        /\ Unowned(h)
    BY DEF AcceptPosted
  <2>3. <<"accept", h>> \in Ops
    BY DEF Ops, Modes
  <2>4. posted[<<"accept", h>>] = IF h \in L THEN 1 ELSE 0
    BY <2>1, <2>3
  <2>5. h \in L => inUse[h]
    BY <2>1
  <2>6. orphan[<<"accept", h>>] = 0 /\ Unowned(h)
    BY <1>1, <2>3, ConstantsOK DEF Init, Unowned
  <2>7. posted[<<"accept", h>>] <= 1
    BY <2>4
  <2>8. posted[<<"accept", h>>] > 0 => inUse[h]
    BY <2>4, <2>5
  <2>9. QED
    BY <2>6, <2>7, <2>8
<1>4. HandleOwned /\ AcceptHeld /\ FillingUntouched /\ ClosingStable
  BY <1>1 DEF Init, HandleOwned, AcceptHeld, FillingUntouched, ClosingStable,
     Filling
<1>5. QED
  BY <1>2, <1>3, <1>4 DEF OwnershipInv

(* What closing a handle does to the operations posted on each handle. *)
LEMMA ReleaseEffect ==
  ASSUME TypeOK, NEW g \in Handles, Release(g),
         NEW m \in Modes, NEW h \in Handles
  PROVE  /\ h = g => /\ posted'[<<m, h>>] = 0
                     /\ orphan'[<<m, h>>]
                          = orphan[<<m, h>>] + posted[<<m, h>>]
         /\ h # g => /\ posted'[<<m, h>>] = posted[<<m, h>>]
                     /\ orphan'[<<m, h>>] = orphan[<<m, h>>]
                     /\ inUse'[h] = inUse[h]
<1>1. <<m, h>> \in Ops /\ <<m, h>>[2] = h
  BY DEF Ops
<1>2. posted'[<<m, h>>] = IF <<m, h>>[2] = g THEN 0 ELSE posted[<<m, h>>]
  BY <1>1 DEF Release
<1>3. orphan'[<<m, h>>] = IF <<m, h>>[2] = g
                          THEN orphan[<<m, h>>] + posted[<<m, h>>]
                          ELSE orphan[<<m, h>>]
  BY <1>1 DEF Release
<1>4. h # g => inUse'[h] = inUse[h]
  BY DEF Release, TypeOK
<1>5. QED
  BY <1>1, <1>2, <1>3, <1>4

(* A handle with an accept posted is not one without. *)
LEMMA PostedDiffer ==
  ASSUME NEW g, NEW h, posted[<<"accept", g>>] = 0, posted[<<"accept", h>>] > 0
  PROVE  h # g
OBVIOUS

(* No step of the one worker gives a socket a second owner. *)
LEMMA WorkerStepOwned ==
  ASSUME OneWorker, OwnershipInv, NEW w \in Workers, WorkerStep(w),
         TypeOK', WorkerShape'
  PROVE  OwnershipInv'
<1> USE ConstantsOK DEF OneWorker, OwnershipInv, TypeOK, WorkerShape,
      HandleOwned, AcceptPosted, AcceptHeld, FillingUntouched, ClosingStable,
      Unowned, Resetting, Filling, Ops, Modes,
      slotVars, osVars, wVars, mVars, WGoto, WDone
<1>1. CASE DequeueFailed(w)
  <2>1. PICK op \in Ops, own \in BOOLEAN : Take(w, op, own)
    BY <1>1 DEF DequeueFailed
  <2>2. /\ UNCHANGED <<slotVars, inUse, mpc, mslot>>
        /\ wpc'[w] = "find" /\ wpc[w] = "idle"
    BY <1>1 DEF DequeueFailed, Take
  <2>3. own => posted[op] > 0 /\ posted' = [posted EXCEPT ![op] = @ - 1] /\ orphan' = orphan
    BY <2>1 DEF Take
  <2>4. ~own => orphan[op] > 0 /\ orphan' = [orphan EXCEPT ![op] = @ - 1] /\ posted' = posted
    BY <2>1 DEF Take
  <2>5. ASSUME NEW h \in Handles
        PROVE  /\ posted'[<<"accept", h>>] <= posted[<<"accept", h>>]
               /\ orphan'[<<"accept", h>>] = orphan[<<"accept", h>>]
    <3>1. op = <<"accept", h>> => own
      BY <2>4
    <3> QED
      BY ONLY TypeOK, <2>3, <2>4, <2>5, <3>1, op \in Ops, own \in BOOLEAN
         DEF TypeOK, Ops, Modes
  <2>6. AcceptPosted'
    <3>1. SUFFICES ASSUME NEW h \in Handles
                   PROVE  /\ posted'[<<"accept", h>>] <= 1
                          /\ orphan'[<<"accept", h>>] = 0
                          /\ posted'[<<"accept", h>>] > 0 =>
                               inUse'[h] /\ Unowned(h)'
      BY DEF AcceptPosted
    <3>2. Unowned(h)' = Unowned(h)
      BY <2>2
    <3> QED
      BY <2>2, <2>5, <3>2
  <2> QED
    BY <2>2, <2>6
<1>2. CASE DequeueDone(w)
  <2>1. HandleOwned'
    BY <1>2 DEF DequeueDone, Take
  <2> PICK op \in Ops, own \in BOOLEAN :
        Take(w, op, own) /\ wpc' = [wpc EXCEPT ![w] = op[1]]
    BY ONLY <1>2, Zenon DEF DequeueDone, WGoto
  <2>a. /\ UNCHANGED <<inUse, sock, mpc, mslot>>
        /\ wop' = [wop EXCEPT ![w] = op]
    BY DEF Take
  <2>b. PICK k \in Modes, g \in Handles : op = <<k, g>>
    OBVIOUS
  <2>c. own => /\ posted[op] > 0
               /\ posted' = [posted EXCEPT ![op] = @ - 1]
               /\ orphan' = orphan
    BY DEF Take
  <2>d. ~own => /\ orphan[op] > 0
                /\ orphan' = [orphan EXCEPT ![op] = @ - 1]
                /\ posted' = posted
    BY DEF Take
  <2>2. AcceptPosted'
    <3>1. SUFFICES ASSUME NEW h \in Handles
                   PROVE  /\ posted'[<<"accept", h>>] <= 1
                          /\ orphan'[<<"accept", h>>] = 0
                          /\ posted'[<<"accept", h>>] > 0 =>
                               inUse'[h] /\ Unowned(h)'
      BY DEF AcceptPosted
    <3>2. Unowned(h)' = Unowned(h)
      BY <2>a
    <3>3. op = <<"accept", h>> => own
      BY <2>d
    <3>4. orphan'[<<"accept", h>>] = orphan[<<"accept", h>>]
      BY <2>c, <2>d, <3>3
    <3>5. posted'[<<"accept", h>>] <= posted[<<"accept", h>>]
      BY ONLY TypeOK, <2>c, <2>d, h \in Handles, op \in Ops, own \in BOOLEAN
         DEF TypeOK, Ops, Modes
    <3>6. QED
      BY <2>a, <3>2, <3>4, <3>5
  <2>3. AcceptHeld'
    <3>1. CASE k = "accept"
      <4>1. own
        BY <2>b, <2>d, <3>1
      <4>2. posted'[<<"accept", g>>] = 0
        BY <2>b, <2>c, <3>1, <4>1
      <4>3. inUse[g] /\ Unowned(g)
        BY <2>b, <2>c, <3>1, <4>1
      <4>4. wop'[w] = <<"accept", g>> /\ wpc'[w] = "accept"
        BY <2>a, <2>b, <3>1
      <4>5. inUse'[g] /\ Unowned(g)'
        BY <2>a, <4>3
      <4>6. wop'[w][1] = "accept" /\ wop'[w][2] = g
        BY <4>4
      <4>7. /\ inUse'[wop'[w][2]] /\ Unowned(wop[w][2])'
            /\ posted'[<<"accept", wop'[w][2]>>] = 0
        BY ONLY <4>2, <4>5, <4>6 DEF Unowned, Resetting
      <4>8. \A v \in Workers : v = w
        OBVIOUS
      <4>9. QED
        BY ONLY <4>4, <4>6, <4>7, <4>8 DEF AcceptHeld
    <3>2. CASE k # "accept"
      BY <2>b, <3>2
    <3>3. QED
      BY <3>1, <3>2
  <2>4. FillingUntouched'
    BY <1>2 DEF DequeueDone, Take
  <2>5. ClosingStable'
    BY <1>2 DEF DequeueDone, Take
  <2>6. QED
    BY <2>1, <2>2, <2>3, <2>4, <2>5
<1>3. CASE ShutDownFind(w)
  BY <1>3 DEF ShutDownFind, Found
<1>4. CASE ShutDownMark(w)
  BY <1>4 DEF ShutDownMark
<1>5. CASE OnRecv(w)
  BY <1>5 DEF OnRecv, Found
<1>6. CASE OnRecvSave(w)
  BY <1>6 DEF OnRecvSave
<1>7. CASE OnRecvRearm(w)
  BY <1>7 DEF OnRecvRearm, Post
<1>8. CASE OnRecvRearmFails(w)
  BY <1>8 DEF OnRecvRearmFails, ShutDown
<1>9. CASE OnSend(w)
  BY <1>9 DEF OnSend, Found
<1>10. CASE OnSendDone(w)
  BY <1>10 DEF OnSendDone
<1>11. CASE OnAcceptRefused(w)
  BY <1>11 DEF OnAcceptRefused
<1>12. CASE OnAcceptSlot(w)
  BY <1>12 DEF OnAcceptSlot, ResetTo
<1>13. CASE OnAcceptBind(w)
  <2> DEFINE g == wop[w][2]
  <2> DEFINE r == wslot[w]
  <2>a. /\ g \in Handles /\ r \in Slots
        /\ sock' = [sock EXCEPT ![r] = g]
        /\ UNCHANGED <<inUse, posted, orphan, mpc, mslot>>
    BY <1>13 DEF OnAcceptBind
  <2>b. /\ posted[<<"accept", g>>] = 0
        /\ inUse[g]
        /\ \A s \in Slots : sock[s] = g => mpc = "reset" /\ mslot = s
    BY <1>13 DEF OnAcceptBind
  <2>1. HandleOwned'
    BY <2>a, <2>b
  <2>2. AcceptPosted'
    <3>1. SUFFICES ASSUME NEW h \in Handles, posted[<<"accept", h>>] > 0
                   PROVE  Unowned(h)'
      BY <2>a
    <3>a. posted[<<"accept", g>>] = 0
      BY <2>b
    <3> HIDE DEF g
    <3>2. h # g
      BY <3>a, <3>1, PostedDiffer
    <3>3. \A s \in Slots : sock'[s] = h => sock[s] = h
      BY <2>a, <3>2
    <3>4. Unowned(h)
      BY <3>1
    <3>5. QED
      BY <2>a, <3>3, <3>4
  <2>3. AcceptHeld'
    BY <1>13 DEF OnAcceptBind
  <2>4. FillingUntouched'
    BY <1>13 DEF OnAcceptBind
  <2>5. ClosingStable'
    BY <1>13 DEF OnAcceptBind
  <2>6. QED
    BY <2>1, <2>2, <2>3, <2>4, <2>5
<1>14. CASE OnAcceptFirstRecv(w)
  BY <1>14 DEF OnAcceptFirstRecv, Post
<1>15. CASE OnAcceptFirstRecvFails(w)
  BY <1>15 DEF OnAcceptFirstRecvFails, ResetTo
<1>16. CASE OnAcceptCount(w)
  BY <1>16 DEF OnAcceptCount
<1>17. CASE RefuseClose(w)
  <2> DEFINE g == wop[w][2]
  <2>1. g \in Handles /\ Release(g) /\ UNCHANGED <<sock, mpc, mslot>>
    BY <1>17 DEF RefuseClose
  <2>2. /\ posted[<<"accept", g>>] = 0
        /\ \A s \in Slots : sock[s] = g => mpc = "reset" /\ mslot = s
    BY <1>17 DEF RefuseClose
  <2>3. HandleOwned'
    <3>1. SUFFICES ASSUME NEW s \in Slots, sock[s] # NoHandle,
                          ~Resetting(s)
                   PROVE  /\ inUse'[sock[s]]
                          /\ \A t \in Slots \ {s} :
                               sock[t] = sock[s] => Resetting(t)
      BY <2>1
    <3>2. sock[s] \in Handles /\ sock[s] # g
      BY <2>2, <3>1
    <3>3. inUse'[sock[s]] = inUse[sock[s]]
      BY <2>1, <3>2 DEF Release
    <3>4. QED
      BY <3>1, <3>3
  <2>4. AcceptPosted'
    <3>1. SUFFICES ASSUME NEW h \in Handles
                   PROVE  /\ posted'[<<"accept", h>>] <= 1
                          /\ orphan'[<<"accept", h>>] = 0
                          /\ posted'[<<"accept", h>>] > 0 =>
                               inUse'[h] /\ Unowned(h)'
      BY DEF AcceptPosted
    <3>2. Unowned(h)' = Unowned(h)
      BY <2>1
    <3>3. CASE h = g
      BY <2>1, <2>2, <3>3, ReleaseEffect
    <3>4. CASE h # g
      BY <2>1, <3>2, <3>4, ReleaseEffect
    <3>5. QED
      BY <3>3, <3>4
  <2>5. AcceptHeld'
    BY <1>17 DEF RefuseClose, Release
  <2>6. FillingUntouched'
    BY <1>17 DEF RefuseClose, Release
  <2>7. ClosingStable'
    BY <1>17 DEF RefuseClose, Release
  <2>8. QED
    BY <2>3, <2>4, <2>5, <2>6, <2>7
<1>18. CASE PostAccept(w)
  BY <1>18 DEF PostAccept, Post
<1>19. CASE PostAcceptFails(w)
  BY <1>19 DEF PostAcceptFails
<1>20. QED
  BY <1>1, <1>2, <1>3, <1>4, <1>5, <1>6, <1>7, <1>8, <1>9, <1>10, <1>11, <1>12, <1>13, <1>14, <1>15, <1>16, <1>17, <1>18, <1>19 DEF WorkerStep

(* No step of the main thread gives a socket a second owner. *)
LEMMA MainStepOwned ==
  ASSUME OneWorker, OwnershipInv, MainStep, TypeOK', WorkerShape'
  PROVE  OwnershipInv'
<1> USE ConstantsOK DEF OneWorker, OwnershipInv, TypeOK, WorkerShape,
      HandleOwned, AcceptPosted, AcceptHeld, FillingUntouched, ClosingStable,
      Unowned, Resetting, Filling, Ops, Modes,
      slotVars, osVars, wVars, mVars, MGoto, MAdvance
<1>1. CASE MSkip
  BY <1>1 DEF MSkip
<1>2. CASE MCheckClosing
  BY <1>2 DEF MCheckClosing
<1>3. CASE MCheckOpen
  BY <1>3 DEF MCheckOpen, ShutDown
<1>4. CASE MUncount
  BY <1>4 DEF MUncount
<1>5. CASE MRelease
  <2> DEFINE g == sock[mslot]
  <2>1. /\ g \in Handles /\ Release(g) /\ mpc = "release"
        /\ mpc' = "reset" /\ mslot' = mslot
        /\ UNCHANGED <<slotVars, wpc, wop, wslot>>
    BY <1>5 DEF MRelease
  <2>2. \A s \in Slots : sock[s] = g => s = mslot
    BY <2>1
  <2>3. \A w \in Workers, s \in Slots : Filling(w, s) => sock[s] # g \/ s = mslot
    BY <2>2
  <2>4. HandleOwned'
    <3>1. SUFFICES ASSUME NEW s \in Slots, sock[s] # NoHandle, s # mslot
                   PROVE  /\ inUse'[sock[s]]
                          /\ \A t \in Slots \ {s} : sock[t] # sock[s]
      BY <2>1
    <3>2. sock[s] \in Handles /\ sock[s] # g
      BY <2>1, <2>2, <3>1
    <3>3. inUse'[sock[s]] = inUse[sock[s]]
      BY <2>1, <3>2 DEF Release
    <3>4. QED
      BY <2>1, <3>1, <3>3
  <2>5. AcceptPosted'
    <3>1. SUFFICES ASSUME NEW h \in Handles
                   PROVE  /\ posted'[<<"accept", h>>] <= 1
                          /\ orphan'[<<"accept", h>>] = 0
                          /\ posted'[<<"accept", h>>] > 0 =>
                               inUse'[h] /\ Unowned(h)'
      BY DEF AcceptPosted
    <3>2. Unowned(h) => Unowned(h)'
      BY <2>1
    <3>3. posted[<<"accept", g>>] = 0
      BY SMTT(30), <2>1
    <3>4. CASE h = g
      BY <2>1, <3>3, <3>4, ReleaseEffect
    <3>5. CASE h # g
      BY <2>1, <3>2, <3>5, ReleaseEffect
    <3>6. QED
      BY <3>4, <3>5
  <2>6. AcceptHeld'
    BY <1>5, <2>1, <2>2 DEF Release
  <2>7. FillingUntouched'
    BY <2>1
  <2>8. ClosingStable'
    BY <2>1
  <2>9. QED
    BY <2>4, <2>5, <2>6, <2>7, <2>8
<1>6. CASE MReset
  BY <1>6 DEF MReset, ResetTo
<1>7. CASE MParseEnter \/ MParseNone
  BY <1>7 DEF MParseEnter, MParseNone
<1>8. CASE MParseEnd
  BY <1>8 DEF MParseEnd, MParsing
<1>9. CASE MParseBadHead
  BY <1>9 DEF MParseBadHead, MParsing, ShutDown, MayReply
<1>10. CASE MParseRejected
  BY <1>10 DEF MParseRejected, MParsing, MayReply
<1>11. CASE MParseFrames
  BY <1>11 DEF MParseFrames, MParsing, MayReply
<1>12. CASE MParseShutDown
  BY <1>12 DEF MParseShutDown, MParsing, ShutDown, MayReply
<1>13. CASE MSendNone
  BY <1>13 DEF MSendNone
<1>14. CASE MSend
  BY <1>14 DEF MSend, MSending, Post
<1>15. CASE MSendFails
  BY <1>15 DEF MSendFails, MSending, ShutDown
<1>16. QED
  BY <1>1, <1>2, <1>3, <1>4, <1>5, <1>6, <1>7, <1>8, <1>9, <1>10, <1>11,
     <1>12, <1>13, <1>14, <1>15 DEF MainStep

LEMMA NextOwned ==
  ASSUME OneWorker, OwnershipInv, [Next]_vars
  PROVE  OwnershipInv'
<1>1. TypeOK' /\ WorkerShape'
  BY NextShape DEF OwnershipInv
<1>2. ASSUME NEW w \in Workers, WorkerStep(w)
      PROVE  OwnershipInv'
  BY <1>1, <1>2, WorkerStepOwned
<1>3. CASE MainStep
  BY <1>1, <1>3, MainStepOwned
<1>4. ASSUME NEW s \in Slots, Tick(s)
      PROVE  OwnershipInv'
  BY <1>1, <1>4 DEF OwnershipInv, Tick, TypeOK, HandleOwned, AcceptPosted,
     AcceptHeld, FillingUntouched, ClosingStable, Unowned, Resetting, Filling,
     osVars, wVars, mVars
<1>5. CASE UNCHANGED vars
  BY <1>1, <1>5 DEF OwnershipInv, HandleOwned, AcceptPosted, AcceptHeld,
     FillingUntouched, ClosingStable, Unowned, Resetting, Filling, vars,
     slotVars, osVars, wVars, mVars
<1>6. QED
  BY <1>2, <1>3, <1>4, <1>5 DEF Next

(* With the one worker AppManager starts, a slot names an open socket that *)
(* no other slot names, for any number of slots, handles and accepts and   *)
(* however late the operations of a closed socket are delivered.           *)
THEOREM SocketOwned ==
  ASSUME OneWorker
  PROVE  Spec => []HandleOwned
<1>1. Init => OwnershipInv
  BY InitOwned
<1>2. OwnershipInv /\ [Next]_vars => OwnershipInv'
  BY NextOwned
<1>3. OwnershipInv => HandleOwned
  BY DEF OwnershipInv
<1>4. QED
  BY <1>1, <1>2, <1>3, PTL DEF Spec
=============================================================================
