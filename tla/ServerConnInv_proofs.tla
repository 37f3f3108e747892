------------------------ MODULE ServerConnInv_proofs ------------------------
(***************************************************************************)
(* With the one worker AppManager starts, for any number of slots, handles *)
(* and posted accepts and however handle values are reused: no open        *)
(* connection is deaf, the connection count matches the slots in use and   *)
(* the accepts outstanding stay bounded.  If a handle value is reused only *)
(* when the operations of its last owner are done with: completions find   *)
(* their owner, and a socket has one receive and one send at most.         *)
(***************************************************************************)
EXTENDS ServerConn_proofs, FiniteSetTheorems

LEMMA SlotsFinite == IsFiniteSet(Slots) /\ IsFiniteSet(Workers) /\ IsFiniteSet(Handles)
  BY ConstantsOK, FS_Interval DEF Slots

(* References: the index and what a worker remembers.                      *)
LEMMA InitRefs == Init => Indexed /\ HandShape
  BY DEF Init, Indexed, HandShape, AcceptPCs

LEMMA WorkerRefs ==
  ASSUME OneWorker, OwnershipInv, Indexed, HandShape,
         NEW w \in Workers, WorkerStep(w)
  PROVE  Indexed' /\ HandShape'
<1> USE ConstantsOK DEF OneWorker, Indexed, HandShape, AcceptPCs,
      OwnershipInv, TypeOK, WorkerShape, AcceptHeld, FillingUntouched, Resetting, Filling,
      Unowned, slotVars, osVars, wVars, mVars, WGoto, WDone
<1>1. CASE DequeueFailed(w)
  BY <1>1 DEF DequeueFailed, Take
<1>2. CASE DequeueDone(w)
  BY <1>2 DEF DequeueDone, Take, Ops, Modes
<1>3. CASE ShutDownFind(w)
  BY <1>3 DEF ShutDownFind, Found, Ops
<1>4. CASE ShutDownMark(w)
  BY <1>4 DEF ShutDownMark
<1>5. CASE OnRecv(w)
  BY <1>5 DEF OnRecv, Found, Ops
<1>6. CASE OnRecvSave(w)
  BY <1>6 DEF OnRecvSave
<1>7. CASE OnRecvRearm(w)
  BY <1>7 DEF OnRecvRearm
<1>8. CASE OnRecvRearmFails(w)
  BY <1>8 DEF OnRecvRearmFails
<1>9. CASE OnSend(w)
  BY <1>9 DEF OnSend, Found, Ops
<1>10. CASE OnSendDone(w)
  BY <1>10 DEF OnSendDone
<1>11. CASE OnAcceptRefused(w)
  BY <1>11 DEF OnAcceptRefused
<1>12. CASE OnAcceptSlot(w)
  BY <1>12 DEF OnAcceptSlot, ResetTo
<1>13. CASE OnAcceptBind(w)
  <2> DEFINE h == wop[w][2]  r == wslot[w]
  <2>1. /\ wpc[w] = "bind" /\ index' = [index EXCEPT ![h] = r]
        /\ sock' = [sock EXCEPT ![r] = h] /\ state' = [state EXCEPT ![r] = "Connect"]
        /\ wpc' = [wpc EXCEPT ![w] = "first"]
        /\ UNCHANGED <<wop, wown, wslot, mpc, mslot>>
    BY <1>13 DEF OnAcceptBind
  <2>2. h \in Handles /\ r \in Slots /\ Unowned(h) /\ wop[w][1] = "accept"
    BY <2>1 DEF Ops
  <2>3. HandShape'
    BY <2>1, <2>2
  <2>4. ASSUME NEW s \in Slots
        PROVE  /\ sock'[s] # NoHandle =>
                    state'[s] # "Free" /\ (Resetting(s)' \/ index'[sock'[s]] = s)
               /\ sock'[s] = NoHandle => state'[s] = "Free" \/ Filling(w, s)'
    <3>1. CASE s = r
      BY <2>1, <2>2, <3>1
    <3>2. CASE s # r
      <4>1. sock'[s] = sock[s] /\ state'[s] = state[s] /\ ~Filling(w, s)
        BY <2>1, <2>2, <3>2
      <4>2. sock[s] = h => Resetting(s)
        BY <2>2
      <4>3. sock[s] # NoHandle => sock[s] \in Handles
        OBVIOUS
      <4>4. sock[s] # NoHandle /\ sock[s] # h => index'[sock[s]] = index[sock[s]]
        BY <2>1, <2>2, <4>3
      <4> HIDE DEF h, r
      <4>5. sock[s] = NoHandle => state[s] = "Free"
        BY <4>1
      <4> QED
        BY <2>1, <4>1, <4>2, <4>4, <4>5
    <3> QED
      BY <3>1, <3>2
  <2>5. Indexed'
    BY ONLY <2>4 DEF Indexed
  <2> QED
    BY <2>3, <2>5
<1>14. CASE OnAcceptFirstRecv(w)
  <2>1. /\ wpc[w] = "first" /\ wpc' = [wpc EXCEPT ![w] = "count"]
        /\ UNCHANGED <<sock, state, index, wop, wown, wslot, mpc, mslot>>
    BY <1>14 DEF OnAcceptFirstRecv
  <2>2. sock[wslot[w]] = wop[w][2] /\ wop[w][2] \in Handles
    BY <2>1 DEF Ops
  <2>3. HandShape'
    BY <2>1
  <2>4. ASSUME NEW s \in Slots, sock[s] = NoHandle PROVE state[s] = "Free"
    BY <2>1, <2>2, <2>4
  <2>5. Indexed'
    BY <2>1, <2>4
  <2> QED
    BY <2>3, <2>5
<1>15. CASE OnAcceptFirstRecvFails(w)
  BY <1>15 DEF OnAcceptFirstRecvFails, ResetTo
<1>16. CASE OnAcceptCount(w)
  BY <1>16 DEF OnAcceptCount
<1>17. CASE RefuseClose(w)
  BY <1>17 DEF RefuseClose, Release
<1>18. CASE PostAccept(w)
  BY <1>18 DEF PostAccept
<1>19. CASE PostAcceptFails(w)
  BY <1>19 DEF PostAcceptFails
<1>20. QED
  BY <1>1, <1>2, <1>3, <1>4, <1>5, <1>6, <1>7, <1>8, <1>9, <1>10, <1>11, <1>12, <1>13, <1>14, <1>15, <1>16, <1>17, <1>18, <1>19 DEF WorkerStep

LEMMA MainRefs ==
  ASSUME OneWorker, OwnershipInv, Indexed, HandShape, MainStep
  PROVE  Indexed' /\ HandShape'
<1> USE ConstantsOK DEF OneWorker, Indexed, HandShape, AcceptPCs,
      OwnershipInv, TypeOK, WorkerShape, ClosingStable, Resetting,
      slotVars, osVars, wVars, mVars, MGoto, MAdvance
<1>0. \A w \in Workers, s \in Slots : Filling(w, s)' = Filling(w, s)
  BY DEF Filling, MainStep, MSkip, MCheckClosing, MCheckOpen, MUncount, MRelease, MReset,
     MParseEnter, MParseNone, MParseEnd, MParseRejected, MParseBadHead, MParseFrames, MParseShutDown,
     MSendNone, MSend, MSendFails
<1>1. CASE MSkip \/ MCheckClosing \/ MCheckOpen \/ MUncount
  BY <1>0, <1>1 DEF MSkip, MCheckClosing, MCheckOpen, MUncount
<1>2. CASE MRelease
  BY <1>0, <1>2 DEF MRelease, Release
<1>3. CASE MReset
  BY <1>0, <1>3 DEF MReset, ResetTo
<1>4. CASE MParseEnter \/ MParseNone \/ MParseEnd \/ MParseRejected
  BY <1>0, <1>4 DEF MParseEnter, MParseNone, MParseEnd, MParsing, MParseRejected
<1>5. CASE MParseBadHead
  BY <1>0, <1>5 DEF MParseBadHead, MParsing
<1>6. CASE MParseFrames
  BY <1>0, <1>6 DEF MParseFrames, MParsing
<1>7. CASE MParseShutDown
  BY <1>0, <1>7 DEF MParseShutDown, MParsing
<1>8. CASE MSendNone \/ MSend \/ MSendFails
  BY <1>0, <1>8 DEF MSendNone, MSend, MSending, MSendFails
<1>9. QED
  BY <1>1, <1>2, <1>3, <1>4, <1>5, <1>6, <1>7, <1>8 DEF MainStep

(* No step leaves a connection open and deaf.  With one worker w, NeverDeaf *)
(* is about each slot and w alone.                                         *)
HeardBy(w, s) ==
  \/ state[s] = "Free" \/ closing[s]
  \/ Filling(w, s)
  \/ posted[<<"recv", sock[s]>>] > 0
  \/ wop[w] = <<"recv", sock[s]>> /\ wown[w]

LEMMA HeardOne ==
  ASSUME OneWorker, NEW w \in Workers
  PROVE  /\ NeverDeaf <=> \A s \in Slots : HeardBy(w, s)
         /\ NeverDeaf' <=> \A s \in Slots : HeardBy(w, s)'
<1>1. \A v \in Workers : v = w
  BY DEF OneWorker
<1> HIDE DEF OneWorker
<1>2. \A h : InHand("recv", h) # {} <=> wop[w] = <<"recv", h>> /\ wown[w]
  BY <1>1 DEF InHand
<1>3. \A h : InHand("recv", h)' # {} <=> wop'[w] = <<"recv", h>> /\ wown'[w]
  BY <1>1 DEF InHand
<1>4. \A s : (\E v \in Workers : Filling(v, s)) <=> Filling(w, s)
  BY <1>1
<1>5. \A s : (\E v \in Workers : Filling(v, s))' <=> Filling(w, s)'
  BY <1>1 DEF Filling
<1> QED
  BY <1>2, <1>3, <1>4, <1>5 DEF NeverDeaf, HeardBy

LEMMA InitHeard == Init => NeverDeaf
  BY DEF Init, NeverDeaf

LEMMA WorkerHeard ==
  ASSUME OneWorker, OwnershipInv, Indexed, HandShape,
         NEW w \in Workers, WorkerStep(w), NEW s \in Slots, HeardBy(w, s)
  PROVE  HeardBy(w, s)'
<1> USE ConstantsOK DEF HeardBy, Filling, slotVars, osVars, wVars, mVars, WGoto, WDone
<1> HIDE DEF OneWorker, OwnershipInv, Indexed, HandShape
<1>a. TypeOK /\ WorkerShape
  BY DEF OwnershipInv
<1>b. /\ wpc[w] = "idle" => ~wown[w]
      /\ wpc[w] \in AcceptPCs => wop[w][1] = "accept"
      /\ wpc[w] \in {"send", "sent"} => wop[w][1] = "send"
      /\ wown[w] /\ wpc[w] \in {"save", "rearm", "shut"} => wslot[w] = index[wop[w][2]]
  BY DEF HandShape
<1>c. sock[s] # NoHandle => state[s] # "Free" /\ (Resetting(s) \/ index[sock[s]] = s)
  BY DEF Indexed
<1>f. state[s] # "Free" /\ ~Filling(w, s) => sock[s] \in Handles
  BY <1>a DEF OneWorker, Indexed, TypeOK
<1>d. Resetting(s) => closing[s]
  BY DEF OwnershipInv, ClosingStable, Resetting
<1>e. state[s] # "Free" /\ ~Filling(w, s) /\ wop[w] = <<"recv", sock[s]>> /\ wown[w] =>
        /\ sock[s] \in Handles
        /\ closing[s] \/ index[sock[s]] = s
  BY <1>a, <1>b, <1>c, <1>d DEF TypeOK, WorkerShape, Ops
<1>1. CASE DequeueFailed(w) \/ DequeueDone(w)
  <2>1. PICK op \in Ops, own \in BOOLEAN : Take(w, op, own)
    BY <1>1 DEF DequeueFailed, DequeueDone
  <2>2. /\ wpc[w] = "idle" /\ UNCHANGED <<state, closing, sock>>
        /\ wop'[w] = op /\ wown'[w] = own
        /\ IF own THEN posted' = [posted EXCEPT ![op] = @ - 1] ELSE posted' = posted
    BY <1>a, <2>1 DEF Take, TypeOK
  <2>3. CASE op = <<"recv", sock[s]>> /\ own
    BY <2>2, <2>3
  <2>4. CASE ~(op = <<"recv", sock[s]>> /\ own)
    <3>1. ASSUME sock[s] \in Handles
          PROVE  posted'[<<"recv", sock[s]>>] = posted[<<"recv", sock[s]>>]
      <4>1. <<"recv", sock[s]>> \in Ops
        BY <3>1 DEF Ops, Modes
      <4> QED
        BY <1>a, <2>2, <2>4, <4>1 DEF TypeOK
    <3> QED
      BY <1>b, <1>f, <2>2, <3>1
  <2> QED
    BY <2>3, <2>4
<1>3. CASE ShutDownFind(w)
  <2>1. wop[w] = <<"recv", sock[s]>> => wop[w][2] = sock[s]
    OBVIOUS
  <2>2. ASSUME wop[w] = <<"recv", sock[s]>>, wown[w], ~closing[s], state[s] # "Free", ~Filling(w, s)
        PROVE  UNCHANGED wop /\ UNCHANGED wown
    <3>1. Found(sock[s]) /\ index[sock[s]] = s
      BY <1>e, <2>2 DEF Found, NoSlot, Slots
    <3> QED
      BY <1>3, <2>1, <2>2, <3>1 DEF ShutDownFind
  <2> QED
    BY <1>3, <1>a, <2>2 DEF ShutDownFind, TypeOK
<1>4. CASE ShutDownMark(w)
  BY <1>4, <1>a, <1>b, <1>e DEF ShutDownMark, TypeOK
<1>5. CASE OnRecv(w)
  BY <1>5, <1>a DEF OnRecv, TypeOK
<1>6. CASE OnRecvSave(w)
  BY <1>6, <1>a DEF OnRecvSave, TypeOK
<1>7. CASE OnRecvRearm(w)
  <2>1. wop[w] = <<"recv", sock[s]>> => posted'[<<"recv", sock[s]>>] > 0
    BY <1>7, <1>a DEF OnRecvRearm, Post, TypeOK, WorkerShape, Ops, Modes
  <2>2. posted'[<<"recv", sock[s]>>] = posted[<<"recv", sock[s]>>] \/ posted'[<<"recv", sock[s]>>] > 0
    BY <1>7, <1>a DEF OnRecvRearm, Post, TypeOK, Ops, Modes
  <2> QED
    BY <1>7, <2>1, <2>2 DEF OnRecvRearm
<1>8. CASE OnRecvRearmFails(w)
  BY <1>8, <1>a, <1>b, <1>e DEF OnRecvRearmFails, ShutDown, TypeOK
<1>9. CASE OnSend(w)
  BY <1>9, <1>a DEF OnSend, TypeOK
<1>10. CASE OnSendDone(w)
  BY <1>10, <1>b DEF OnSendDone
<1>11. CASE OnAcceptRefused(w)
  BY <1>11, <1>a DEF OnAcceptRefused, TypeOK
<1>12. CASE OnAcceptSlot(w)
  BY <1>12, <1>a DEF OnAcceptSlot, ResetTo, TypeOK
<1>13. CASE OnAcceptBind(w)
  BY <1>13, <1>a, <1>b DEF OnAcceptBind, TypeOK, WorkerShape, AcceptPCs
<1>14. CASE OnAcceptFirstRecv(w)
  <2>1. wslot[w] = s => sock[s] = wop[w][2]
    BY <1>14 DEF OwnershipInv, AcceptHeld, OnAcceptFirstRecv
  <2>2. posted'[<<"recv", sock[s]>>] = posted[<<"recv", sock[s]>>] \/ posted'[<<"recv", sock[s]>>] > 0
    BY <1>14, <1>a DEF OnAcceptFirstRecv, Post, TypeOK, Ops, Modes
  <2>3. wop[w][2] = sock[s] => posted'[<<"recv", sock[s]>>] > 0
    BY <1>14, <1>a DEF OnAcceptFirstRecv, Post, TypeOK, WorkerShape, Ops, Modes
  <2> QED
    BY <1>14, <1>a, <2>1, <2>2, <2>3 DEF OnAcceptFirstRecv, TypeOK
<1>15. CASE OnAcceptFirstRecvFails(w)
  BY <1>15, <1>a, <1>b DEF OnAcceptFirstRecvFails, ResetTo, TypeOK, AcceptPCs
<1>16. CASE OnAcceptCount(w)
  BY <1>16, <1>a DEF OnAcceptCount, TypeOK
<1>17. CASE RefuseClose(w)
  <2> DEFINE g == wop[w][2]
  <2>1. /\ g \in Handles /\ wop[w][1] = "accept"
        /\ sock[s] = g => closing[s]
    BY <1>17, <1>d DEF OwnershipInv, AcceptHeld, RefuseClose, Unowned, WorkerShape, Ops
  <2>2. Release(g) /\ UNCHANGED <<slotVars, wop, wslot>> /\ wpc[w] = "refuse"
    BY <1>17 DEF RefuseClose
  <2> HIDE DEF g
  <2>3. sock[s] \in Handles /\ sock[s] # g => posted'[<<"recv", sock[s]>>] = posted[<<"recv", sock[s]>>]
    BY <1>a, <2>1, <2>2, ReleaseEffect DEF Modes
  <2> QED
    BY <1>a, <1>f, <2>1, <2>2, <2>3 DEF TypeOK, Release
<1>18. CASE PostAccept(w)
  <2>1. posted'[<<"recv", sock[s]>>] = posted[<<"recv", sock[s]>>]
    BY <1>18, <1>a DEF PostAccept, Post, TypeOK
  <2> QED
    BY <1>18, <1>b, <2>1 DEF PostAccept, AcceptPCs
<1>19. CASE PostAcceptFails(w)
  BY <1>19, <1>b DEF PostAcceptFails, AcceptPCs
<1>20. QED
  BY <1>1, <1>3, <1>4, <1>5, <1>6, <1>7, <1>8, <1>9, <1>10, <1>11, <1>12, <1>13, <1>14, <1>15, <1>16, <1>17, <1>18, <1>19 DEF WorkerStep

LEMMA MainHeard ==
  ASSUME OneWorker, OwnershipInv, Indexed, MainStep,
         NEW w \in Workers, NEW s \in Slots, HeardBy(w, s)
  PROVE  HeardBy(w, s)'
<1> USE ConstantsOK DEF HeardBy, Filling, slotVars, osVars, wVars, mVars
<1>a. TypeOK /\ ClosingStable
  BY DEF OwnershipInv
<1>b. state[s] # "Free" /\ ~Filling(w, s) => sock[s] \in Handles
  BY <1>a DEF OneWorker, Indexed, TypeOK
<1>1. CASE MSkip \/ MCheckClosing \/ MUncount
  BY <1>1 DEF MSkip, MCheckClosing, MUncount
<1>10. CASE MCheckOpen
  BY <1>10, <1>a DEF MCheckOpen, ShutDown, TypeOK
<1>2. CASE MRelease
  <2>1. /\ Release(sock[mslot]) /\ mpc = "release" /\ UNCHANGED <<slotVars, wpc, wop, wslot>>
    BY <1>2 DEF MRelease
  <2>2. sock[mslot] \in Handles /\ closing[mslot]
    BY <1>a, <2>1 DEF ClosingStable, TypeOK
  <2>3. sock[s] = sock[mslot] => closing[s]
    BY <1>a, <2>1, <2>2 DEF OwnershipInv, HandleOwned, Resetting, TypeOK
  <2>4. sock[s] \in Handles /\ sock[s] # sock[mslot]
          => posted'[<<"recv", sock[s]>>] = posted[<<"recv", sock[s]>>]
    BY <1>a, <2>1, <2>2, ReleaseEffect DEF Modes
  <2>5. wown[w] /\ wop[w] = <<"recv", sock[s]>> /\ sock[s] # sock[mslot] => wown'[w]
    <3>1. wop[w] = <<"recv", sock[s]>> => wop[w][2] = sock[s]
      OBVIOUS
    <3> QED
      BY <2>1, <3>1 DEF Release
  <2> QED
    BY <1>a, <1>b, <2>1, <2>2, <2>3, <2>4, <2>5
<1>3. CASE MReset
  BY <1>3, <1>a DEF MReset, ResetTo, TypeOK
<1>4. CASE MParseEnter \/ MParseNone \/ MParseEnd \/ MParseRejected
  BY <1>4 DEF MParseEnter, MParseNone, MParseEnd, MParsing, MParseRejected
<1>5. CASE MParseBadHead
  BY <1>5, <1>a DEF MParseBadHead, MParsing, ShutDown, TypeOK
<1>6. CASE MParseFrames
  BY <1>6, <1>a DEF MParseFrames, MParsing, TypeOK
<1>7. CASE MParseShutDown
  BY <1>7, <1>a DEF MParseShutDown, MParsing, ShutDown, TypeOK
<1>8. CASE MSendNone
  BY <1>8 DEF MSendNone
<1>11. CASE MSend
  BY <1>11, <1>a DEF MSend, MSending, Post, TypeOK
<1>12. CASE MSendFails
  BY <1>12, <1>a DEF MSending, MSendFails, ShutDown, TypeOK
<1>9. QED
  BY <1>1, <1>2, <1>3, <1>4, <1>5, <1>6, <1>7, <1>8, <1>10, <1>11, <1>12 DEF MainStep

LEMMA MainDeaf ==
  ASSUME OneWorker, OwnershipInv, Indexed, NeverDeaf, MainStep
  PROVE  NeverDeaf'
<1>1. PICK w \in Workers : TRUE
  BY ConstantsOK
<1> QED
  BY <1>1, MainHeard, HeardOne

(* The connection count.                                                   *)
Used == {s \in Slots : state[s] # "Free"}
Uncounted == {w \in Workers : wpc[w] \in {"bind", "first", "count"}}
Uncounting == IF mpc \in {"release", "reset"} THEN 1 ELSE 0

LEMMA UsedFinite == IsFiniteSet(Used) /\ IsFiniteSet(Used') /\ Cardinality(Used) \in Nat
  BY SlotsFinite, FS_Subset, FS_CardinalityType DEF Used

(* How many workers are at one of some places in the code. *)
LEMMA WorkersAt ==
  ASSUME OneWorker, NEW w \in Workers, NEW at, NEW PCs
  PROVE  Cardinality({v \in Workers : at[v] \in PCs}) = IF at[w] \in PCs THEN 1 ELSE 0
<1>1. {v \in Workers : at[v] \in PCs} = IF at[w] \in PCs THEN {w} ELSE {}
  BY DEF OneWorker
<1> QED
  BY <1>1, FS_EmptySet, FS_Singleton

(* A slot that is taken or freed changes the number in use by one. *)
LEMMA UsedChanges ==
  ASSUME TypeOK, NEW s \in Slots, NEW st \in {"Free", "Connect", "Secure"},
         state' = [state EXCEPT ![s] = st]
  PROVE  /\ state[s] = "Free" /\ st # "Free" => Cardinality(Used') = Cardinality(Used) + 1
         /\ state[s] # "Free" /\ st = "Free" => Cardinality(Used') = Cardinality(Used) - 1
         /\ (state[s] = "Free" <=> st = "Free") => Used' = Used
<1>1. CASE state[s] = "Free" /\ st # "Free"
  <2>1. Used' = Used \cup {s} /\ s \notin Used
    BY <1>1 DEF Used, TypeOK
  <2> QED
    BY <1>1, <2>1, UsedFinite, FS_AddElement
<1>2. CASE state[s] # "Free" /\ st = "Free"
  <2>1. Used' = Used \ {s} /\ s \in Used
    BY <1>2 DEF Used, TypeOK
  <2> QED
    BY <1>2, <2>1, UsedFinite, FS_RemoveElement
<1>3. CASE state[s] = "Free" <=> st = "Free"
  BY <1>3 DEF Used, TypeOK
<1> QED
  BY <1>1, <1>2, <1>3

LEMMA InitCount == Init => CountMatches
<1> SUFFICES ASSUME Init PROVE CountMatches
  OBVIOUS
<1>1. Used = {} /\ Uncounted = {} /\ Uncounting = 0
  BY DEF Init, Used, Uncounted, Uncounting
<1>2. CountMatches <=> connectCount = Cardinality(Used) - Cardinality(Uncounted) - Uncounting
  BY DEF CountMatches, Used, Uncounted, Uncounting
<1> QED
  BY <1>1, <1>2, FS_EmptySet DEF Init

LEMMA WorkerCount ==
  ASSUME OneWorker, OwnershipInv, CountMatches, NEW w \in Workers, WorkerStep(w)
  PROVE  CountMatches'
<1> DEFINE filling == IF wpc[w] \in {"bind", "first", "count"} THEN 1 ELSE 0
<1>0. TypeOK /\ WorkerShape
  BY DEF OwnershipInv
<1>1. /\ CountMatches <=> connectCount = Cardinality(Used) - filling - Uncounting
      /\ CountMatches' <=> connectCount' = Cardinality(Used') - filling' - Uncounting'
  BY WorkersAt DEF CountMatches, Used, Uncounting
<1>2. connectCount \in Int /\ Cardinality(Used) \in Nat
  BY <1>0, UsedFinite DEF TypeOK
<1> USE DEF slotVars, osVars, wVars, mVars, WGoto, WDone, Uncounting
<1>3. CASE OnAcceptSlot(w)
  <2>1. PICK s \in Slots : state[s] = "Free" /\ ResetTo(s, "Connect")
    BY <1>3 DEF OnAcceptSlot
  <2>2. Cardinality(Used') = Cardinality(Used) + 1
    BY <1>0, <2>1, UsedChanges DEF ResetTo
  <2>3. filling = 0 /\ filling' = 1 /\ UNCHANGED <<connectCount, mpc>>
    BY <1>0, <1>3 DEF OnAcceptSlot, TypeOK
  <2> QED
    BY <1>1, <1>2, <2>2, <2>3
<1>4. CASE OnAcceptFirstRecvFails(w)
  <2>1. wslot[w] \in Slots /\ state[wslot[w]] # "Free" /\ ResetTo(wslot[w], "Free")
    BY <1>0, <1>4 DEF OnAcceptFirstRecvFails, OwnershipInv, WorkerShape, FillingUntouched, Filling
  <2>2. Cardinality(Used') = Cardinality(Used) - 1
    BY <1>0, <2>1, UsedChanges DEF ResetTo
  <2>3. filling = 1 /\ filling' = 0 /\ UNCHANGED <<connectCount, mpc>>
    BY <1>0, <1>4 DEF OnAcceptFirstRecvFails, TypeOK
  <2> QED
    BY <1>1, <1>2, <2>2, <2>3
<1>5. CASE OnAcceptBind(w)
  <2>1. wslot[w] \in Slots /\ state[wslot[w]] = "Connect"
    BY <1>0, <1>5 DEF OnAcceptBind, OwnershipInv, WorkerShape, FillingUntouched, Filling
  <2>2. Used' = Used
    BY <1>0, <1>5, <2>1, UsedChanges DEF OnAcceptBind
  <2>3. filling = 1 /\ filling' = 1 /\ UNCHANGED <<connectCount, mpc>>
    BY <1>0, <1>5 DEF OnAcceptBind, TypeOK
  <2> QED
    BY <1>1, <2>2, <2>3
<1>6. CASE OnAcceptCount(w)
  <2>1. /\ filling = 1 /\ filling' = 0 /\ UNCHANGED <<state, mpc>>
        /\ connectCount' = connectCount + 1
    BY <1>0, <1>6 DEF OnAcceptCount, TypeOK
  <2>2. Used' = Used
    BY <2>1 DEF Used
  <2> QED
    BY <1>1, <1>2, <2>1, <2>2
<1>7. ASSUME \/ DequeueFailed(w) \/ DequeueDone(w)
             \/ ShutDownFind(w) \/ ShutDownMark(w)
             \/ OnRecv(w) \/ OnRecvSave(w) \/ OnRecvRearm(w) \/ OnRecvRearmFails(w)
             \/ OnSend(w) \/ OnSendDone(w)
             \/ OnAcceptRefused(w) \/ OnAcceptFirstRecv(w)
             \/ RefuseClose(w) \/ PostAccept(w) \/ PostAcceptFails(w)
      PROVE  CountMatches'
  <2>1. UNCHANGED <<state, connectCount, mpc>>
    BY <1>7 DEF DequeueFailed, DequeueDone, Take, ShutDownFind, ShutDownMark, OnRecv,
       OnRecvSave, OnRecvRearm, OnRecvRearmFails, OnSend, OnSendDone, OnAcceptRefused,
       OnAcceptFirstRecv, RefuseClose, PostAccept, PostAcceptFails
  <2>2. filling' = filling
    <3>1. CASE DequeueFailed(w)
      BY <1>0, <3>1 DEF DequeueFailed, Take, TypeOK
    <3>2. CASE DequeueDone(w)
      BY <1>0, <3>2 DEF DequeueDone, Take, TypeOK, Ops, Modes
    <3>3. CASE ~DequeueFailed(w) /\ ~DequeueDone(w)
      BY <1>0, <1>7, <3>3 DEF TypeOK, ShutDownFind, ShutDownMark, OnRecv,
         OnRecvSave, OnRecvRearm, OnRecvRearmFails, OnSend, OnSendDone, OnAcceptRefused,
         OnAcceptFirstRecv, RefuseClose, PostAccept, PostAcceptFails
    <3> QED
      BY <3>1, <3>2, <3>3
  <2>3. Used' = Used
    BY <2>1 DEF Used
  <2> QED
    BY <1>1, <2>1, <2>2, <2>3
<1> QED
  BY <1>3, <1>4, <1>5, <1>6, <1>7 DEF WorkerStep

LEMMA MainCount ==
  ASSUME OwnershipInv, CountMatches, MainStep
  PROVE  CountMatches'
<1>0. TypeOK /\ ClosingStable
  BY DEF OwnershipInv
<1>1. UNCHANGED wpc
  BY DEF MainStep, MSkip, MCheckClosing, MCheckOpen, MUncount, MRelease, MReset,
     MParseEnter, MParseNone, MParseEnd, MParseRejected, MParseBadHead, MParseFrames, MParseShutDown,
     MSendNone, MSend, MSendFails, wVars
<1> DEFINE n == Cardinality(Uncounted)
<1>2. /\ CountMatches <=> connectCount = Cardinality(Used) - n - Uncounting
      /\ CountMatches' <=> connectCount' = Cardinality(Used') - n - Uncounting'
  BY <1>1 DEF CountMatches, Used, Uncounting, Uncounted
<1>3. connectCount \in Int /\ Cardinality(Used) \in Nat /\ n \in Nat
  BY <1>0, UsedFinite, SlotsFinite, FS_Subset, FS_CardinalityType DEF TypeOK, Uncounted
<1> HIDE DEF n
<1> USE DEF slotVars, mVars, MGoto, MAdvance, Uncounting
<1>4. CASE MUncount
  <2>1. Uncounting = 0 /\ Uncounting' = 1 /\ state' = state /\ connectCount' = connectCount - 1
    BY <1>4 DEF MUncount
  <2>2. Used' = Used
    BY <2>1 DEF Used
  <2> QED
    BY <1>2, <1>3, <2>1, <2>2
<1>5. CASE MReset
  <2>1. Uncounting = 1 /\ Uncounting' = 0 /\ connectCount' = connectCount
        /\ mslot \in Slots /\ state[mslot] # "Free" /\ ResetTo(mslot, "Free")
    BY <1>0, <1>5 DEF MReset, ClosingStable, TypeOK
  <2>2. Cardinality(Used') = Cardinality(Used) - 1
    BY <1>0, <2>1, UsedChanges DEF ResetTo
  <2> QED
    BY <1>2, <1>3, <2>1, <2>2
<1>6. CASE MRelease
  <2>1. Uncounting' = Uncounting /\ UNCHANGED <<state, connectCount>>
    BY <1>6 DEF MRelease
  <2> QED
    BY <1>2, <2>1 DEF Used
<1>7. ASSUME \/ MSkip \/ MCheckClosing \/ MCheckOpen \/ MParseEnter \/ MParseNone \/ MParseEnd
             \/ MParseRejected \/ MSendNone \/ MSend \/ MSendFails
      PROVE  CountMatches'
  <2>1. Uncounting' = Uncounting /\ UNCHANGED <<state, connectCount>>
    BY <1>7 DEF MSkip, MCheckClosing, MCheckOpen, MParseEnter, MParseNone, MParseEnd, MParsing,
       MParseRejected, MSendNone, MSend, MSending, MSendFails
  <2> QED
    BY <1>2, <2>1 DEF Used
<1>8. ASSUME MParseBadHead \/ MParseFrames \/ MParseShutDown
      PROVE  CountMatches'
  <2>1. /\ Uncounting' = Uncounting /\ UNCHANGED connectCount
        /\ state[mslot] # "Free" /\ mslot \in Slots
        /\ \E st \in {state[mslot], "Secure"} : state' = [state EXCEPT ![mslot] = st]
    BY <1>0, <1>8 DEF MParseBadHead, MParseFrames, MParseShutDown, MParsing, TypeOK
  <2>2. Used' = Used
    BY <1>0, <2>1, UsedChanges DEF TypeOK
  <2> QED
    BY <1>2, <2>1, <2>2
<1> QED
  BY <1>4, <1>5, <1>6, <1>7, <1>8 DEF MainStep

(* The accepts outstanding and in workers' hands.                          *)
Waiting == {h \in Handles : posted[<<"accept", h>>] > 0}
Accepting == {w \in Workers : wpc[w] \in AcceptPCs}

LEMMA AcceptSets ==
  /\ IsFiniteSet(Waiting) /\ Cardinality(Waiting) \in Nat
  /\ IsFiniteSet(Waiting') /\ Cardinality(Waiting') \in Nat
  /\ \A T \in SUBSET Waiting : IsFiniteSet(T) /\ Cardinality(T) <= Cardinality(Waiting)
  BY SlotsFinite, FS_Subset, FS_CardinalityType DEF Waiting

LEMMA InitAccepts == Init => AcceptsBounded
<1> SUFFICES ASSUME Init PROVE AcceptsBounded
  OBVIOUS
<1>1. PICK L \in SUBSET Handles :
        /\ Cardinality(L) <= MaxAccept
        /\ posted = [op \in Ops |-> IF op[1] = "accept" /\ op[2] \in L THEN 1 ELSE 0]
  BY DEF Init
<1>2. \A h \in Handles : posted[<<"accept", h>>] = IF h \in L THEN 1 ELSE 0
  BY <1>1 DEF Ops, Modes
<1>3. Waiting = L
  BY <1>2 DEF Waiting
<1>4. Accepting = {}
  BY DEF Init, Accepting, AcceptPCs
<1>5. Cardinality(L) \in Nat
  BY <1>3, AcceptSets
<1>6. AcceptsBounded <=> Cardinality(Waiting) + Cardinality(Accepting) <= MaxAccept
  BY DEF AcceptsBounded, Waiting, Accepting
<1> QED
  BY <1>1, <1>3, <1>4, <1>5, <1>6, FS_EmptySet

LEMMA WorkerAccepts ==
  ASSUME OneWorker, OwnershipInv, AcceptsBounded, NEW w \in Workers, WorkerStep(w)
  PROVE  AcceptsBounded'
<1> DEFINE busy == IF wpc[w] \in AcceptPCs THEN 1 ELSE 0
<1>0. TypeOK /\ WorkerShape /\ AcceptPosted
  BY DEF OwnershipInv
<1>1. /\ AcceptsBounded <=> Cardinality(Waiting) + busy <= MaxAccept
      /\ AcceptsBounded' <=> Cardinality(Waiting') + busy' <= MaxAccept
  <2>1. Cardinality({v \in Workers : wpc[v] \in AcceptPCs}) = busy
    BY WorkersAt
  <2>2. Cardinality({v \in Workers : wpc'[v] \in AcceptPCs}) = busy'
    BY WorkersAt
  <2> HIDE DEF busy
  <2> QED
    BY <2>1, <2>2 DEF AcceptsBounded, Waiting
<1>2. busy \in 0 .. 1 /\ busy' \in 0 .. 1 /\ MaxAccept \in Nat
  BY ConstantsOK
<1>3. ASSUME busy' <= busy, Waiting' \subseteq Waiting PROVE AcceptsBounded'
  <2>1. Cardinality(Waiting') <= Cardinality(Waiting)
    BY <1>3, AcceptSets
  <2> HIDE DEF busy
  <2> QED
    BY <1>1, <1>2, <1>3, <2>1, AcceptSets
<1> USE DEF slotVars, osVars, wVars, mVars, WGoto, WDone
<1>4. CASE DequeueFailed(w) \/ DequeueDone(w)
  <2>1. PICK op \in Ops, own \in BOOLEAN : Take(w, op, own) /\ wpc'[w] \in {"find", op[1]}
    BY <1>0, <1>4 DEF DequeueFailed, DequeueDone, TypeOK
  <2>2. /\ busy = 0 /\ op[1] # "accept" => busy' = 0
    BY <2>1 DEF Take, AcceptPCs, Ops, Modes
  <2>3. \A h \in Handles : /\ posted'[<<"accept", h>>] <= posted[<<"accept", h>>]
                               /\ posted'[<<"accept", h>>] \in Nat
                               /\ posted[<<"accept", h>>] \in Nat
    <3>1. \A h \in Handles : <<"accept", h>> \in Ops
      BY DEF Ops, Modes
    <3>2. posted' = posted \/ (posted[op] > 0 /\ posted' = [posted EXCEPT ![op] = @ - 1])
      BY <2>1 DEF Take
    <3>3. \A q \in Ops : posted'[q] <= posted[q] /\ posted[q] \in Nat /\ posted'[q] \in Nat
      BY <1>0, <2>1, <3>2 DEF TypeOK
    <3> QED
      BY <3>1, <3>3
  <2>4. Waiting' \subseteq Waiting
    BY <2>3 DEF Waiting
  <2>5. CASE op[1] # "accept"
    BY <1>3, <2>2, <2>4, <2>5
  <2>6. CASE op[1] = "accept"
    <3> DEFINE h == op[2]
    <3>1. h \in Handles /\ op = <<"accept", h>>
      BY <2>1, <2>6 DEF Ops
    <3> HIDE DEF h
    <3>2. own /\ posted[op] > 0 /\ posted' = [posted EXCEPT ![op] = @ - 1]
      BY <1>0, <2>1, <3>1 DEF Take, AcceptPosted
    <3>3. posted[op] = 1 /\ posted'[op] = 0
      BY <1>0, <3>1, <3>2 DEF AcceptPosted, TypeOK, Ops, Modes
    <3>4. h \in Waiting /\ h \notin Waiting'
      BY <3>1, <3>2, <3>3 DEF Waiting
    <3>5. Waiting' \subseteq Waiting \ {h}
      BY <2>4, <3>4
    <3>6. Cardinality(Waiting \ {h}) = Cardinality(Waiting) - 1 /\ IsFiniteSet(Waiting \ {h})
      BY <3>4, AcceptSets, FS_RemoveElement
    <3>7. Cardinality(Waiting') <= Cardinality(Waiting) - 1
      BY <3>5, <3>6, FS_Subset
    <3> HIDE DEF busy
    <3> QED
      BY <1>1, <1>2, <2>2, <3>7, AcceptSets
  <2> QED
    BY <2>5, <2>6
<1>5. CASE PostAccept(w)
  <2>1. PICK h \in Handles : ~inUse[h] /\ Post("accept", h)
    BY <1>5 DEF PostAccept
  <2>2. busy = 1 /\ busy' = 0
    BY <1>0, <1>5 DEF PostAccept, AcceptPCs, TypeOK
  <2>3. \A g \in Handles : g # h => posted'[<<"accept", g>>] = posted[<<"accept", g>>]
    <3>1. \A g \in Handles : <<"accept", g>> \in Ops
      BY DEF Ops, Modes
    <3> QED
      BY <1>0, <2>1, <3>1 DEF Post, TypeOK
  <2>4. Waiting' \subseteq Waiting \cup {h} /\ h \notin Waiting
    BY <1>0, <2>1, <2>3 DEF Waiting, AcceptPosted
  <2>5. IsFiniteSet(Waiting \cup {h}) /\ Cardinality(Waiting \cup {h}) = Cardinality(Waiting) + 1
    BY <2>4, AcceptSets, FS_AddElement
  <2>6. Cardinality(Waiting') <= Cardinality(Waiting) + 1
    BY <2>4, <2>5, FS_Subset
  <2> HIDE DEF busy
  <2> QED
    BY <1>1, <1>2, <2>2, <2>6, AcceptSets
<1>6. CASE RefuseClose(w)
  <2>1. wpc[w] = "refuse" /\ wpc'[w] = "repost" /\ Release(wop[w][2]) /\ wop[w][2] \in Handles
    BY <1>0, <1>6 DEF RefuseClose, TypeOK, WorkerShape, Ops
  <2>2. \A h \in Handles : posted'[<<"accept", h>>] \in {0, posted[<<"accept", h>>]}
    BY <1>0, <2>1, ReleaseEffect DEF Modes
  <2>3. Waiting' \subseteq Waiting
    BY <2>2 DEF Waiting
  <2> QED
    BY <1>3, <2>1, <2>3 DEF AcceptPCs
<1>7. CASE OnRecvRearm(w) \/ OnAcceptFirstRecv(w)
  <2>1. Post("recv", wop[w][2])
    BY <1>7 DEF OnRecvRearm, OnAcceptFirstRecv
  <2>2. \A h \in Handles : posted'[<<"accept", h>>] = posted[<<"accept", h>>]
    <3>1. \A h \in Handles : <<"accept", h>> \in Ops
      BY DEF Ops, Modes
    <3> QED
      BY <1>0, <2>1, <3>1 DEF Post, TypeOK
  <2>3. Waiting' = Waiting
    BY <2>2 DEF Waiting
  <2>4. busy' = busy
    BY <1>0, <1>7 DEF OnRecvRearm, OnAcceptFirstRecv, TypeOK, AcceptPCs
  <2> QED
    BY <1>2, <1>3, <2>3, <2>4
<1>8. ASSUME \/ ShutDownFind(w) \/ ShutDownMark(w)
             \/ OnRecv(w) \/ OnRecvSave(w) \/ OnRecvRearmFails(w)
             \/ OnSend(w) \/ OnSendDone(w)
             \/ OnAcceptRefused(w) \/ OnAcceptSlot(w) \/ OnAcceptBind(w)
             \/ OnAcceptFirstRecvFails(w) \/ OnAcceptCount(w) \/ PostAcceptFails(w)
      PROVE  AcceptsBounded'
  <2>1. UNCHANGED posted /\ (wpc'[w] \in AcceptPCs => wpc[w] \in AcceptPCs)
    BY <1>0, <1>8 DEF TypeOK, ShutDownFind, ShutDownMark, OnRecv, OnRecvSave,
       OnRecvRearmFails, OnSend, OnSendDone, OnAcceptRefused, OnAcceptSlot, OnAcceptBind,
       OnAcceptFirstRecvFails, OnAcceptCount, PostAcceptFails, AcceptPCs
  <2> QED
    BY <1>3, <2>1 DEF Waiting
<1> QED
  BY <1>4, <1>5, <1>6, <1>7, <1>8 DEF WorkerStep

LEMMA MainAccepts ==
  ASSUME OwnershipInv, AcceptsBounded, MainStep
  PROVE  AcceptsBounded'
<1>0. TypeOK /\ ClosingStable
  BY DEF OwnershipInv
<1>1. UNCHANGED wpc
  BY DEF MainStep, MSkip, MCheckClosing, MCheckOpen, MUncount, MRelease, MReset,
     MParseEnter, MParseNone, MParseEnd, MParseRejected, MParseBadHead, MParseFrames, MParseShutDown,
     MSendNone, MSend, MSendFails, wVars
<1>2. \A h \in Handles : posted'[<<"accept", h>>] \in {0, posted[<<"accept", h>>]}
  <2>1. CASE MRelease
    <3>1. Release(sock[mslot]) /\ sock[mslot] \in Handles
      BY <1>0, <2>1 DEF MRelease, ClosingStable, TypeOK
    <3> QED
      BY <1>0, <3>1, ReleaseEffect DEF Modes
  <2>2. CASE MSend
    <3>1. \A h \in Handles : <<"accept", h>> \in Ops
      BY DEF Ops, Modes
    <3> QED
      BY <1>0, <2>2, <3>1 DEF MSend, Post, TypeOK
  <2>3. CASE ~MRelease /\ ~MSend
    <3>1. UNCHANGED posted
      BY <2>3 DEF MainStep, MSkip, MCheckClosing, MCheckOpen, MUncount, MReset,
         MParseEnter, MParseNone, MParseEnd, MParseRejected, MParseBadHead, MParseFrames, MParseShutDown,
         MSendNone, MSendFails, osVars
    <3> QED
      BY <3>1
  <2> QED
    BY <2>1, <2>2, <2>3
<1>3. Waiting' \subseteq Waiting
  BY <1>2 DEF Waiting
<1> DEFINE n == Cardinality(Accepting)
<1>4. n \in Nat
  BY SlotsFinite, FS_Subset, FS_CardinalityType DEF Accepting
<1>5. /\ AcceptsBounded <=> Cardinality(Waiting) + n <= MaxAccept
      /\ AcceptsBounded' <=> Cardinality(Waiting') + n <= MaxAccept
  BY <1>1 DEF AcceptsBounded, Waiting, Accepting
<1> HIDE DEF n
<1>6. Cardinality(Waiting') <= Cardinality(Waiting)
  BY <1>3, AcceptSets
<1> QED
  BY <1>4, <1>5, <1>6, AcceptSets, ConstantsOK

(* What a worker goes on with is the connection of its operation's socket. *)
LEMMA WorkerKept ==
  ASSUME OneWorker, OwnershipInv, HandKept, NEW w \in Workers, WorkerStep(w)
  PROVE  HandKept'
<1> USE DEF OneWorker, slotVars, osVars, wVars, mVars, WGoto, WDone
<1>a. TypeOK /\ WorkerShape /\ AcceptHeld
  BY DEF OwnershipInv
<1> DEFINE Kept == wpc[w] \in {"save", "rearm", "shut", "sent", "count"} =>
                     state[wslot[w]] = "Free" \/ sock[wslot[w]] = wop[w][2]
<1>b. Kept
  BY DEF HandKept
<1>c. SUFFICES Kept'
  BY DEF HandKept
<1>1. CASE DequeueFailed(w) \/ DequeueDone(w)
  <2>1. PICK op \in Ops, own \in BOOLEAN : Take(w, op, own) /\ wpc'[w] \in {"find", op[1]}
    BY <1>1, <1>a DEF DequeueFailed, DequeueDone, TypeOK
  <2>2. op[1] \in {"accept", "recv", "send"}
    BY DEF Ops, Modes
  <2> QED
    BY <2>1, <2>2
<1>2. CASE ShutDownFind(w) \/ OnRecv(w) \/ OnSend(w)
  <2>1. /\ UNCHANGED <<state, sock, index>>
        /\ wpc'[w] \in {"idle", "find", "shut", "save", "sent"}
    BY <1>2, <1>a DEF ShutDownFind, OnRecv, OnSend, TypeOK
  <2>2. wpc'[w] \in {"shut", "save", "sent"} =>
          /\ Found(wop[w][2]) /\ wslot'[w] = index[wop[w][2]]
          /\ UNCHANGED wop
    BY <1>2, <1>a DEF ShutDownFind, OnRecv, OnSend, TypeOK
  <2> QED
    BY <2>1, <2>2 DEF Found
<1>3. CASE OnRecvSave(w)
  BY <1>3, <1>a, <1>b DEF OnRecvSave, TypeOK
<1>4. CASE OnAcceptFirstRecv(w)
  BY <1>4, <1>a, <1>b DEF OnAcceptFirstRecv, AcceptHeld, TypeOK
<1>5. CASE OnAcceptRefused(w) \/ OnAcceptSlot(w) \/ OnAcceptBind(w) \/ OnAcceptFirstRecvFails(w)
  <2>1. wpc'[w] \in {"bind", "first", "refuse"}
    BY <1>5, <1>a DEF OnAcceptRefused, OnAcceptSlot, OnAcceptBind, OnAcceptFirstRecvFails, TypeOK
  <2> QED
    BY <2>1
<1>6. CASE \/ ShutDownMark(w) \/ OnRecvRearm(w) \/ OnRecvRearmFails(w) \/ OnSendDone(w)
           \/ OnAcceptCount(w) \/ RefuseClose(w) \/ PostAccept(w) \/ PostAcceptFails(w)
  <2>1. wpc'[w] \in {"idle", "repost"}
    BY <1>6, <1>a DEF ShutDownMark, OnRecvRearm, OnRecvRearmFails, OnSendDone, OnAcceptCount,
       RefuseClose, PostAccept, PostAcceptFails, TypeOK
  <2> QED
    BY <2>1
<1> QED
  BY <1>1, <1>2, <1>3, <1>4, <1>5, <1>6 DEF WorkerStep

(* The main thread neither takes a free slot nor gives one another socket. *)
LEMMA MainKeeps ==
  ASSUME TypeOK, MainStep, NEW s \in Slots
  PROVE  /\ state[s] = "Free" => state'[s] = "Free"
         /\ sock'[s] = sock[s] \/ state'[s] = "Free"
<1> USE DEF TypeOK, slotVars
<1>1. CASE MReset
  BY <1>1 DEF MReset, ResetTo
<1>2. CASE MParseBadHead \/ MParseShutDown \/ MParseFrames
  BY <1>2 DEF MParseBadHead, MParseShutDown, MParseFrames, MParsing
<1>3. CASE ~MReset /\ ~MParseBadHead /\ ~MParseShutDown /\ ~MParseFrames
  BY <1>3 DEF MainStep, MSkip, MCheckClosing, MCheckOpen, MUncount, MRelease, MParseEnter,
     MParseNone, MParseEnd, MParseRejected, MSendNone, MSend, MSendFails
<1> QED
  BY <1>1, <1>2, <1>3

LEMMA MainKept ==
  ASSUME TypeOK, WorkerShape, HandKept, MainStep
  PROVE  HandKept'
<1>1. UNCHANGED <<wpc, wop, wslot>>
  BY DEF MainStep, MSkip, MCheckClosing, MCheckOpen, MUncount, MRelease, MReset, MParseEnter,
     MParseNone, MParseEnd, MParseBadHead, MParseRejected, MParseFrames, MParseShutDown,
     MSendNone, MSend, MSendFails, wVars
<1> QED
  BY <1>1, MainKeeps DEF HandKept, WorkerShape

LEMMA InitConn == Init => ConnInv
<1>1. Init => HandKept
  BY DEF Init, HandKept
<1> QED
  BY <1>1, InitOwned, InitRefs, InitHeard, InitCount, InitAccepts DEF ConnInv

LEMMA NextConn ==
  ASSUME OneWorker, ConnInv, [Next]_vars
  PROVE  ConnInv'
<1> USE DEF ConnInv
<1>1. OwnershipInv'
  BY NextOwned
<1>2. ASSUME NEW w \in Workers, WorkerStep(w) PROVE ConnInv'
  <2>1. Indexed' /\ HandShape'
    BY <1>2, WorkerRefs
  <2>2. NeverDeaf'
    BY <1>2, WorkerHeard, HeardOne
  <2>3. HandKept'
    BY <1>2, WorkerKept
  <2> QED
    BY <1>1, <1>2, <2>1, <2>2, <2>3, WorkerCount, WorkerAccepts
<1>3. CASE MainStep
  <2>1. Indexed' /\ HandShape'
    BY <1>3, MainRefs
  <2>2. NeverDeaf'
    BY <1>3, MainDeaf
  <2>3. HandKept'
    BY <1>3, MainKept DEF OwnershipInv
  <2> QED
    BY <1>1, <1>3, <2>1, <2>2, <2>3, MainCount, MainAccepts
<1>4. CASE \E s \in Slots : Tick(s)
  <2>1. UNCHANGED <<state, sock, closing, index, connectCount, posted, wVars, mVars>>
    BY <1>4 DEF Tick, osVars
  <2> QED
    BY <1>1, <2>1 DEF Indexed, HandShape, HandKept, NeverDeaf, CountMatches,
       AcceptsBounded, Filling, Resetting, InHand, wVars, mVars
<1>5. CASE UNCHANGED vars
  BY <1>1, <1>5 DEF Indexed, HandShape, HandKept, NeverDeaf, CountMatches,
     AcceptsBounded, Filling, Resetting, InHand, vars, slotVars, osVars, wVars, mVars
<1> QED
  BY <1>2, <1>3, <1>4, <1>5 DEF Next

(* The inductive invariant of the connection life cycle.                   *)
THEOREM ConnSafe ==
  ASSUME OneWorker
  PROVE  Spec => []ConnInv
<1>1. Init => ConnInv
  BY InitConn
<1>2. ConnInv /\ [Next]_vars => ConnInv'
  BY NextConn
<1> QED
  BY <1>1, <1>2, PTL DEF Spec

(* m_ConnectCount never drifts from the number of slots in use: every      *)
(* accept that fails and every close gives back what it took.              *)
THEOREM CountExact ==
  ASSUME OneWorker
  PROVE  Spec => []CountMatches
<1>1. ConnInv => CountMatches
  BY DEF ConnInv
<1> QED
  BY <1>1, ConnSafe, PTL

(* No error path of onRecv, onAccpet or shutDown leaves a connection open  *)
(* without a receive, whatever late completions reach it.                  *)
THEOREM AlwaysHeard ==
  ASSUME OneWorker
  PROVE  Spec => []NeverDeaf
<1>1. ConnInv => NeverDeaf
  BY DEF ConnInv
<1> QED
  BY <1>1, ConnSafe, PTL

(* postAccept replaces an accept that was taken and never adds one.        *)
THEOREM AcceptsLimited ==
  ASSUME OneWorker
  PROVE  Spec => []AcceptsBounded
<1>1. ConnInv => AcceptsBounded
  BY DEF ConnInv
<1> QED
  BY <1>1, ConnSafe, PTL
-----------------------------------------------------------------------------
(* Where no handle value is reused before it is drained, a receive or send *)
(* is its slot's.                                                          *)

(* Operations m on the open socket h, posted or in the hands of w. *)
Pending(w, m, h) ==
  posted[<<m, h>>] + IF wop[w] = <<m, h>> /\ wown[w] THEN 1 ELSE 0

LEMMA PendingType ==
  ASSUME TypeOK, NEW w, NEW m \in {"recv", "send"}, NEW h \in Handles
  PROVE  /\ <<m, h>> \in Ops /\ posted[<<m, h>>] \in Nat /\ Pending(w, m, h) \in Nat
         /\ Pending(w, m, h) > 0 <=> posted[<<m, h>>] > 0 \/ (wop[w] = <<m, h>> /\ wown[w])
<1>1. <<m, h>> \in Ops
  BY DEF Ops, Modes
<1>2. posted[<<m, h>>] \in Nat
  BY <1>1 DEF TypeOK
<1> QED
  BY <1>1, <1>2 DEF Pending

(* The invariants about operations, in terms of Pending. *)
Owned(w) == \A m \in {"recv", "send"}, h \in Handles :
  Pending(w, m, h) > 0 => Found(h) /\ ~Resetting(index[h])
Single(w) == \A m \in {"recv", "send"}, h \in Handles : Pending(w, m, h) <= 1
Gated(w) == \A s \in Slots :
  sock[s] # NoHandle /\ sendCompleted[s] /\ ~closing[s] => Pending(w, "send", sock[s]) = 0

LEMMA PendingInv ==
  ASSUME OneWorker, TypeOK, NEW w \in Workers
  PROVE  FindsOwner /\ Abandoned /\ OneRecv /\ OneSend /\ SendGate
           <=> Owned(w) /\ Single(w) /\ Gated(w)
<1>1. \A m, h : InHand(m, h) # {} <=> wop[w] = <<m, h>> /\ wown[w]
  BY DEF OneWorker, InHand
<1>2. ASSUME NEW m, NEW h
      PROVE  Cardinality(InHand(m, h)) = IF wop[w] = <<m, h>> /\ wown[w] THEN 1 ELSE 0
  <2>1. InHand(m, h) = IF wop[w] = <<m, h>> /\ wown[w] THEN {w} ELSE {}
    BY DEF OneWorker, InHand
  <2> QED
    BY <2>1, FS_EmptySet, FS_Singleton
<1>3. FindsOwner /\ Abandoned <=> Owned(w)
  BY <1>1, PendingType DEF FindsOwner, Abandoned, Owned
<1>4. /\ OneRecv <=> \A h \in Handles : Pending(w, "recv", h) <= 1
      /\ OneSend <=> /\ \A h \in Handles : Pending(w, "send", h) <= 1
                     /\ \A s \in Slots : sock[s] # NoHandle /\ sendCompleted[s] /\ ~closing[s]
                          => ~(wop[w] = <<"send", sock[s]>> /\ wown[w])
  BY <1>1, <1>2 DEF OneRecv, OneSend, Pending
<1>5. \A s \in Slots : sock[s] # NoHandle =>
        (Pending(w, "send", sock[s]) = 0 <=>
           posted[<<"send", sock[s]>>] = 0 /\ ~(wop[w] = <<"send", sock[s]>> /\ wown[w]))
  <2>1. \A s \in Slots : sock[s] # NoHandle => sock[s] \in Handles
    BY DEF TypeOK
  <2> QED
    BY <2>1, PendingType DEF Pending
<1> QED
  BY <1>3, <1>4, <1>5 DEF Gated, Single, SendGate

LEMMA PendingInvNext ==
  ASSUME OneWorker, TypeOK', NEW w \in Workers
  PROVE  (FindsOwner /\ Abandoned /\ OneRecv /\ OneSend /\ SendGate)'
           <=> (Owned(w) /\ Single(w) /\ Gated(w))'
<1>0. \A m \in {"recv", "send"}, h \in Handles :
        /\ posted'[<<m, h>>] \in Nat /\ Pending(w, m, h)' \in Nat
        /\ Pending(w, m, h)' > 0 <=> posted'[<<m, h>>] > 0 \/ (wop'[w] = <<m, h>> /\ wown'[w])
  BY DEF Pending, TypeOK, Ops, Modes
<1>1. \A m, h : InHand(m, h)' # {} <=> wop'[w] = <<m, h>> /\ wown'[w]
  BY DEF OneWorker, InHand
<1>2. ASSUME NEW m, NEW h
      PROVE  Cardinality(InHand(m, h)') = IF wop'[w] = <<m, h>> /\ wown'[w] THEN 1 ELSE 0
  <2>1. InHand(m, h)' = IF wop'[w] = <<m, h>> /\ wown'[w] THEN {w} ELSE {}
    BY DEF OneWorker, InHand
  <2> QED
    BY <2>1, FS_EmptySet, FS_Singleton
<1>3. (FindsOwner /\ Abandoned)' <=> Owned(w)'
  BY <1>0, <1>1 DEF FindsOwner, Abandoned, Owned
<1>4. /\ OneRecv' <=> \A h \in Handles : Pending(w, "recv", h)' <= 1
      /\ OneSend' <=> /\ \A h \in Handles : Pending(w, "send", h)' <= 1
                      /\ \A s \in Slots : sock'[s] # NoHandle /\ sendCompleted'[s] /\ ~closing'[s]
                           => ~(wop'[w] = <<"send", sock'[s]>> /\ wown'[w])
  BY <1>1, <1>2 DEF OneRecv, OneSend, Pending
<1>5. \A s \in Slots : sock'[s] # NoHandle =>
        (Pending(w, "send", sock[s])' = 0 <=>
           posted'[<<"send", sock'[s]>>] = 0 /\ ~(wop'[w] = <<"send", sock'[s]>> /\ wown'[w]))
  <2>1. \A s \in Slots : sock'[s] # NoHandle => sock'[s] \in Handles
    BY DEF TypeOK
  <2> QED
    BY <1>0, <2>1 DEF Pending
<1> QED
  BY <1>3, <1>4, <1>5 DEF Gated, Single, SendGate

LEMMA InitDrained == Init => DrainedInv
<1> SUFFICES ASSUME Init PROVE DrainedInv
  OBVIOUS
<1>1. ConnInv
  BY InitConn
<1>2. /\ \A s \in Slots : sock[s] = NoHandle
      /\ \A w \in Workers : wpc[w] = "idle" /\ ~wown[w]
      /\ \A m \in {"recv", "send"}, h \in Handles :
           posted[<<m, h>>] = 0 /\ orphan[<<m, h>>] = 0
  BY DEF Init, Ops, Modes
<1>3. \A m, h : InHand(m, h) = {}
  BY <1>2 DEF InHand
<1> QED
  BY <1>1, <1>2, <1>3, FS_EmptySet DEF DrainedInv, Drained, FirstQuiet, FindsOwner,
     Abandoned, OneRecv, OneSend, SendGate, AcceptPCs

(* A handle value that WSASocket returns again has nothing left over.      *)
LEMMA NoneLeft ==
  ASSUME TypeOK, OrphanMax = 0, NEW h \in Handles, Orphans(h) <= OrphanMax
  PROVE  \A m \in {"recv", "send"} : orphan[<<m, h>>] = 0
<1> DEFINE W == {w \in Workers : wop[w][2] = h /\ wpc[w] # "repost"}
<1>1. Cardinality(W) \in Nat
  BY SlotsFinite, FS_Subset, FS_CardinalityType
<1>2. \A m \in Modes : orphan[<<m, h>>] \in Nat
  BY DEF TypeOK, Ops
<1> QED
  BY <1>1, <1>2 DEF Orphans, Modes

(* A slot whose socket is closed is the one that is about to be reset.     *)
LEMMA ClosedIsClosing ==
  ASSUME HandleOwned, ClosingStable, NEW h \in Handles, Found(h), ~inUse[h], TypeOK
  PROVE  closing[index[h]]
BY ConstantsOK DEF HandleOwned, ClosingStable, Found, Resetting, TypeOK

LEMMA WorkerDrained ==
  ASSUME OneWorker, OrphanMax = 0, ConnInv, Drained,
         NEW w \in Workers, WorkerStep(w), TypeOK'
  PROVE  Drained'
<1> USE ConstantsOK DEF OneWorker, ConnInv, OwnershipInv, AcceptPCs, slotVars, osVars,
      wVars, mVars, WGoto, WDone
<1>a. TypeOK /\ WorkerShape /\ HandShape /\ HandleOwned /\ ClosingStable
  OBVIOUS
<1> DEFINE OrphansOK == \A m \in {"recv", "send"}, h \in Handles : inUse[h] => orphan[<<m, h>>] = 0
           HandOK == /\ wpc[w] \notin AcceptPCs \cup {"idle"} /\ inUse[wop[w][2]] => wown[w]
                     /\ wpc[w] \in {"recv", "save", "rearm"} => wop[w][1] = "recv"
                     /\ wpc[w] = "sent" => IF wown[w] THEN wslot[w] = index[wop[w][2]]
                                           ELSE sock[wslot[w]] = NoHandle \/ closing[wslot[w]]
<1>b. OrphansOK /\ HandOK
  BY DEF Drained
<1>c. SUFFICES OrphansOK' /\ HandOK'
  BY DEF Drained
<1>1. ASSUME NEW op \in Ops, NEW own \in BOOLEAN, Take(w, op, own), wpc'[w] \in {"find", op[1]}
      PROVE  OrphansOK' /\ HandOK'
  <2>1. wop'[w] = op /\ wown'[w] = own /\ inUse' = inUse
    BY <1>a, <1>1 DEF Take, TypeOK
  <2>2. OrphansOK'
    BY <1>a, <1>b, <1>1 DEF Take, TypeOK, Ops, Modes
  <2>3. op \in Modes \X Handles /\ op = <<op[1], op[2]>>
    BY DEF Ops
  <2>4. ~own => orphan[op] > 0
    BY <1>1 DEF Take
  <2>5. ~own /\ inUse[op[2]] => op[1] = "accept"
    BY <1>b, <2>3, <2>4 DEF Modes
  <2>6. ~own => op[1] # "accept"
    BY <2>3, <2>4 DEF AcceptPosted
  <2>7. wpc'[w] # "sent" /\ wpc'[w] \notin {"save", "rearm"}
    BY <1>1, <2>3 DEF Modes
  <2> QED
    BY <1>1, <2>1, <2>2, <2>5, <2>6, <2>7
<1>2. CASE DequeueFailed(w)
  BY <1>1, <1>2, <1>a DEF DequeueFailed, TypeOK
<1>3. CASE DequeueDone(w)
  BY <1>1, <1>3, <1>a DEF DequeueDone, TypeOK
<1>4. CASE \/ ShutDownFind(w) \/ ShutDownMark(w) \/ OnRecvSave(w) \/ OnRecvRearmFails(w)
           \/ OnSendDone(w) \/ OnAcceptRefused(w) \/ OnAcceptSlot(w) \/ OnAcceptBind(w)
           \/ OnAcceptFirstRecvFails(w) \/ OnAcceptCount(w) \/ PostAcceptFails(w)
  <2>1. UNCHANGED <<inUse, orphan>>
    BY <1>4 DEF ShutDownFind, ShutDownMark, OnRecvSave, OnRecvRearmFails, OnSendDone,
       OnAcceptRefused, OnAcceptSlot, OnAcceptBind, OnAcceptFirstRecvFails, OnAcceptCount,
       PostAcceptFails
  <2>2. wpc'[w] \in AcceptPCs \cup {"idle", "find", "shut", "rearm"}
    BY <1>4, <1>a DEF ShutDownFind, ShutDownMark, OnRecvSave, OnRecvRearmFails, OnSendDone,
       OnAcceptRefused, OnAcceptSlot, OnAcceptBind, OnAcceptFirstRecvFails, OnAcceptCount,
       PostAcceptFails, TypeOK
  <2>3. wpc'[w] \in {"find", "shut", "rearm"} =>
          /\ wop' = wop /\ wown' = wown /\ wpc[w] \notin AcceptPCs \cup {"idle"}
          /\ wpc'[w] = "rearm" => wpc[w] = "save"
    BY <1>4, <1>a DEF ShutDownFind, ShutDownMark, OnRecvSave, OnRecvRearmFails, OnSendDone,
       OnAcceptRefused, OnAcceptSlot, OnAcceptBind, OnAcceptFirstRecvFails, OnAcceptCount,
       PostAcceptFails, TypeOK
  <2> QED
    BY <1>b, <2>1, <2>2, <2>3
<1>5. CASE OnRecvRearm(w) \/ OnAcceptFirstRecv(w)
  BY <1>5, <1>a, <1>b DEF OnRecvRearm, OnAcceptFirstRecv, TypeOK
<1>6. CASE OnRecv(w)
  BY <1>6, <1>a, <1>b DEF OnRecv, TypeOK
<1>7. CASE OnSend(w)
  <2>1. /\ wpc[w] = "send" /\ wpc'[w] \in {"find", "sent"}
        /\ UNCHANGED <<wop, wown, inUse, orphan, sock, closing, index>>
    BY <1>7, <1>a DEF OnSend, TypeOK
  <2>2. wpc'[w] = "sent" => Found(wop[w][2]) /\ wslot'[w] = index[wop[w][2]]
    BY <1>7, <1>a DEF OnSend, TypeOK
  <2>3. wop[w][2] \in Handles
    BY <1>a, <2>1 DEF WorkerShape, Ops
  <2>4. ~wown[w] => ~inUse[wop[w][2]]
    BY <1>b, <2>1
  <2>5. Found(wop[w][2]) /\ ~wown[w] => closing[index[wop[w][2]]]
    BY <1>a, <2>3, <2>4, ClosedIsClosing
  <2> QED
    BY <1>b, <2>1, <2>2, <2>4, <2>5
<1>8. CASE RefuseClose(w)
  <2>1. /\ Release(wop[w][2]) /\ wpc'[w] = "repost" /\ wop[w][2] \in Handles
    BY <1>8, <1>a DEF RefuseClose, TypeOK, WorkerShape, Ops
  <2>2. OrphansOK'
    <3> SUFFICES ASSUME NEW m \in {"recv", "send"}, NEW h \in Handles, inUse'[h]
                 PROVE  orphan'[<<m, h>>] = 0
      OBVIOUS
    <3>1. h # wop[w][2]
      BY <1>a, <2>1 DEF Release, TypeOK
    <3> QED
      BY <1>a, <1>b, <2>1, <3>1, ReleaseEffect DEF Modes
  <2> QED
    BY <2>1, <2>2
<1>9. CASE PostAccept(w)
  <2>1. PICK h \in Handles :
          /\ Orphans(h) <= OrphanMax /\ inUse' = [inUse EXCEPT ![h] = TRUE]
          /\ UNCHANGED orphan /\ wpc' = [wpc EXCEPT ![w] = "idle"]
    BY <1>9 DEF PostAccept
  <2>2. OrphansOK'
    BY <1>a, <1>b, <2>1, NoneLeft DEF TypeOK
  <2> QED
    BY <1>a, <2>1, <2>2 DEF TypeOK
<1>10. QED
  BY <1>2, <1>3, <1>4, <1>5, <1>6, <1>7, <1>8, <1>9 DEF WorkerStep

LEMMA MainDrained ==
  ASSUME OneWorker, ConnInv, Drained, MainStep, NEW w \in Workers
  PROVE  Drained'
<1> USE ConstantsOK DEF OneWorker, ConnInv, OwnershipInv, slotVars, osVars, wVars, mVars
<1>a. TypeOK /\ WorkerShape /\ ClosingStable /\ Indexed
  OBVIOUS
<1>1. CASE MRelease
  <2> DEFINE g == sock[mslot]
  <2>1. /\ Release(g) /\ mpc = "release"
        /\ UNCHANGED <<sock, closing, index, wpc, wop, wslot>>
    BY <1>1 DEF MRelease
  <2>2. g \in Handles /\ closing[mslot] /\ index[g] = mslot
    BY <1>a, <2>1 DEF ClosingStable, TypeOK, Indexed, Resetting
  <2>3. inUse' = [inUse EXCEPT ![g] = FALSE] /\ wown'[w] = (wown[w] /\ wop[w][2] # g)
    BY <2>1 DEF Release
  <2> HIDE DEF g
  <2>4. \A m \in {"recv", "send"}, h \in Handles : inUse'[h] => orphan'[<<m, h>>] = 0
    <3> SUFFICES ASSUME NEW m \in {"recv", "send"}, NEW h \in Handles, inUse'[h]
                 PROVE  orphan'[<<m, h>>] = 0
      OBVIOUS
    <3>1. h # g /\ inUse[h]
      BY <1>a, <2>2, <2>3 DEF TypeOK
    <3> QED
      BY <1>a, <2>1, <2>2, <3>1, ReleaseEffect DEF Modes, Drained
  <2>5. wpc[w] \notin AcceptPCs \cup {"idle"} /\ inUse'[wop[w][2]] => wown'[w]
    <3>1. wpc[w] # "idle" => wop[w][2] \in Handles
      BY <1>a DEF WorkerShape, Ops
    <3> QED
      BY <1>a, <2>2, <2>3, <3>1 DEF Drained, TypeOK
  <2>6. wpc[w] = "sent" => IF wown'[w] THEN wslot[w] = index[wop[w][2]]
                           ELSE sock[wslot[w]] = NoHandle \/ closing[wslot[w]]
    BY <2>2, <2>3 DEF Drained
  <2> QED
    BY <2>1, <2>4, <2>5, <2>6 DEF Drained
<1>2. CASE ~MRelease
  <2>1. UNCHANGED <<index, inUse, orphan, wVars>>
    BY <1>2 DEF MainStep, MSkip, MCheckClosing, MCheckOpen, MUncount, MReset, MParseEnter, MParseNone,
       MParseEnd, MParseBadHead, MParseRejected, MParseFrames, MParseShutDown, MSendNone,
       MSend, MSendFails
  <2>2. \A s \in Slots : sock'[s] = NoHandle \/ (sock'[s] = sock[s] /\ (closing[s] => closing'[s]))
    <3>1. CASE MReset
      BY <1>a, <3>1 DEF MReset, ResetTo, TypeOK
    <3>2. CASE ~MReset
      BY <1>a, <1>2, <3>2 DEF MainStep, MSkip, MCheckClosing, MCheckOpen, MUncount, MParseEnter, MParseNone,
         MParseEnd, MParseBadHead, MParseRejected, MParseFrames, MParseShutDown, MSendNone,
         MSend, MSendFails, ShutDown, TypeOK
    <3> QED
      BY <3>1, <3>2
  <2>3. wpc[w] = "sent" => wslot[w] \in Slots
    BY <1>a DEF WorkerShape
  <2> QED
    BY <2>1, <2>2, <2>3 DEF Drained
<1> QED
  BY <1>1, <1>2

LEMMA WorkerQuiet ==
  ASSUME OneWorker, ConnInv, FirstQuiet, NEW w \in Workers, Owned(w), WorkerStep(w), TypeOK'
  PROVE  FirstQuiet'
<1> USE ConstantsOK DEF OneWorker, ConnInv, OwnershipInv, slotVars, osVars, wVars, mVars,
      WGoto, WDone
<1>a. TypeOK /\ WorkerShape /\ AcceptHeld
  OBVIOUS
<1>1. CASE OnAcceptSlot(w)
  BY <1>1, <1>a DEF OnAcceptSlot, ResetTo, FirstQuiet, TypeOK
<1>2. CASE OnAcceptBind(w)
  <2>1. wpc[w] = "bind" /\ UNCHANGED <<posted, wop>> /\ wpc'[w] = "first"
    BY <1>2, <1>a DEF OnAcceptBind, TypeOK
  <2>2. wop[w][2] \in Handles /\ Unowned(wop[w][2])
    BY <1>a, <2>1 DEF WorkerShape, AcceptHeld, Ops
  <2>3. Found(wop[w][2]) => Resetting(index[wop[w][2]])
    BY <1>a, <2>2 DEF Found, Unowned, TypeOK
  <2>4. \A m \in {"recv", "send"} : posted[<<m, wop[w][2]>>] = 0
    BY <1>a, <2>2, <2>3, PendingType DEF Owned
  <2> QED
    BY <2>1, <2>4 DEF FirstQuiet
<1>3. CASE ~OnAcceptSlot(w) /\ ~OnAcceptBind(w)
  <2>1. wpc'[w] \notin {"bind", "first"}
    BY <1>3, <1>a DEF WorkerStep, DequeueFailed, DequeueDone, ShutDownFind, ShutDownMark,
       OnRecv, OnRecvSave, OnRecvRearm, OnRecvRearmFails, OnSend, OnSendDone, OnAcceptRefused,
       OnAcceptFirstRecv, OnAcceptFirstRecvFails, OnAcceptCount, RefuseClose, PostAccept,
       PostAcceptFails, TypeOK, Ops, Modes
  <2> QED
    BY <2>1 DEF FirstQuiet
<1> QED
  BY <1>1, <1>2, <1>3

LEMMA MainQuiet ==
  ASSUME OneWorker, ConnInv, FirstQuiet, MainStep, NEW w \in Workers
  PROVE  FirstQuiet'
<1> USE ConstantsOK DEF OneWorker, ConnInv, OwnershipInv, slotVars, osVars, wVars, mVars
<1>a. TypeOK /\ WorkerShape /\ AcceptHeld /\ FillingUntouched /\ HandleOwned
  OBVIOUS
<1>0. UNCHANGED <<wpc, wop, wslot>>
  BY DEF MainStep, MSkip, MCheckClosing, MCheckOpen, MUncount, MRelease, MReset, MParseEnter, MParseNone,
     MParseEnd, MParseBadHead, MParseRejected, MParseFrames, MParseShutDown, MSendNone,
     MSend, MSendFails
<1>b. wpc[w] \in {"bind", "first"} => wop[w][2] \in Handles /\ wslot[w] \in Slots
  BY <1>a DEF WorkerShape, Ops
<1>1. CASE MRelease
  <2>1. Release(sock[mslot]) /\ UNCHANGED sock /\ sock[mslot] \in Handles
    BY <1>1, <1>a DEF MRelease, ClosingStable, TypeOK
  <2>2. \A m \in {"recv", "send"}, h \in Handles : posted[<<m, h>>] = 0 => posted'[<<m, h>>] = 0
    BY <1>a, <2>1, ReleaseEffect DEF Modes
  <2> QED
    BY <1>0, <1>b, <2>1, <2>2 DEF FirstQuiet
<1>2. CASE MSend
  <2>1. /\ mpc = "send" /\ unsent[mslot] /\ sock[mslot] \in Handles /\ UNCHANGED sock
        /\ posted' = [posted EXCEPT ![<<"send", sock[mslot]>>] = @ + 1]
    BY <1>2, <1>a DEF MSend, MSending, Post, TypeOK
  <2>2. ASSUME wpc[w] = "first" PROVE sock[mslot] # wop[w][2]
    <3>1. Filling(w, wslot[w]) /\ sock[wslot[w]] = wop[w][2]
      BY <1>a, <2>2 DEF Filling, AcceptHeld
    <3>2. wslot[w] # mslot
      BY <1>a, <1>b, <2>1, <2>2, <3>1 DEF FillingUntouched
    <3> QED
      BY <1>a, <1>b, <2>1, <2>2, <3>1, <3>2 DEF HandleOwned, Resetting, TypeOK
  <2>3. \A m \in {"recv", "send"}, h \in Handles :
          h # sock[mslot] => posted'[<<m, h>>] = posted[<<m, h>>]
    BY <1>a, <2>1 DEF TypeOK, Ops, Modes
  <2> QED
    BY <1>0, <1>b, <2>1, <2>2, <2>3 DEF FirstQuiet
<1>3. CASE MReset
  BY <1>0, <1>3, <1>a, <1>b DEF MReset, ResetTo, FirstQuiet, TypeOK
<1>4. CASE ~MRelease /\ ~MSend /\ ~MReset
  <2>1. UNCHANGED <<sock, posted>>
    BY <1>4 DEF MainStep, MSkip, MCheckClosing, MCheckOpen, MUncount, MParseEnter, MParseNone,
     MParseEnd, MParseBadHead, MParseRejected, MParseFrames, MParseShutDown, MSendNone,
     MSendFails
  <2> QED
    BY <1>0, <2>1 DEF FirstQuiet
<1> QED
  BY <1>1, <1>2, <1>3, <1>4

(* The worker posts one operation for the one it has, and a first receive  *)
(* where there was none.                                                   *)
LEMMA WorkerPending ==
  ASSUME OneWorker, ConnInv, Drained, NEW w \in Workers, WorkerStep(w),
         ~OnAcceptFirstRecv(w), NEW m \in {"recv", "send"}, NEW h \in Handles
  PROVE  Pending(w, m, h)' <= Pending(w, m, h)
<1> USE ConstantsOK DEF OneWorker, ConnInv, OwnershipInv, Pending, AcceptPCs, slotVars, osVars,
      wVars, mVars, WGoto, WDone
<1>a. TypeOK /\ WorkerShape /\ HandShape /\ <<m, h>> \in Ops /\ posted[<<m, h>>] \in Nat
  BY PendingType
<1>1. ASSUME NEW op \in Ops, NEW own \in BOOLEAN, Take(w, op, own)
      PROVE  Pending(w, m, h)' <= Pending(w, m, h)
  <2>1. ~wown[w] /\ wop'[w] = op /\ wown'[w] = own
    BY <1>a, <1>1 DEF Take, HandShape, TypeOK
  <2>2. IF own THEN posted'[op] = posted[op] - 1 ELSE posted' = posted
    BY <1>a, <1>1 DEF Take, TypeOK
  <2>3. op # <<m, h>> => posted'[<<m, h>>] = posted[<<m, h>>]
    BY <1>a, <1>1 DEF Take, TypeOK
  <2> QED
    BY <1>a, <2>1, <2>2, <2>3
<1>2. CASE DequeueFailed(w) \/ DequeueDone(w)
  BY <1>1, <1>2 DEF DequeueFailed, DequeueDone
<1>3. CASE OnRecvRearm(w)
  <2>1. /\ wpc[w] = "rearm" /\ inUse[wop[w][2]] /\ ~wown'[w]
        /\ posted' = [posted EXCEPT ![<<"recv", wop[w][2]>>] = @ + 1]
    BY <1>3, <1>a DEF OnRecvRearm, Post, TypeOK
  <2>2. wown[w] /\ wop[w] = <<"recv", wop[w][2]>>
    BY <1>a, <2>1 DEF Drained, WorkerShape, Ops
  <2>3. posted'[<<m, h>>] = IF <<m, h>> = wop[w] THEN posted[<<m, h>>] + 1 ELSE posted[<<m, h>>]
    BY <1>a, <2>1, <2>2 DEF TypeOK
  <2> QED
    BY <1>a, <2>1, <2>2, <2>3
<1>4. CASE RefuseClose(w)
  <2>1. Release(wop[w][2]) /\ wop' = wop /\ wop[w][2] \in Handles
    BY <1>4, <1>a DEF RefuseClose, WorkerShape, Ops
  <2>2. posted'[<<m, h>>] = 0 \/ posted'[<<m, h>>] = posted[<<m, h>>]
    BY <1>a, <2>1, ReleaseEffect DEF Modes
  <2>3. wown'[w] => wown[w]
    BY <1>a, <2>1 DEF Release
  <2> QED
    BY <1>a, <2>1, <2>2, <2>3
<1>5. CASE PostAccept(w)
  <2>1. posted'[<<m, h>>] = posted[<<m, h>>] /\ ~wown'[w]
    BY <1>5, <1>a DEF PostAccept, Post, TypeOK
  <2> QED
    BY <1>a, <2>1
<1>6. CASE \/ ShutDownFind(w) \/ ShutDownMark(w) \/ OnRecv(w) \/ OnRecvSave(w)
           \/ OnRecvRearmFails(w) \/ OnSend(w) \/ OnSendDone(w) \/ OnAcceptRefused(w)
           \/ OnAcceptSlot(w) \/ OnAcceptBind(w) \/ OnAcceptFirstRecvFails(w)
           \/ OnAcceptCount(w) \/ PostAcceptFails(w)
  <2>1. posted' = posted /\ (~wown'[w] \/ UNCHANGED <<wop, wown>>)
    BY <1>6, <1>a DEF ShutDownFind, ShutDownMark, OnRecv, OnRecvSave, OnRecvRearmFails, OnSend,
       OnSendDone, OnAcceptRefused, OnAcceptSlot, OnAcceptBind, OnAcceptFirstRecvFails,
       OnAcceptCount, PostAcceptFails, TypeOK
  <2> QED
    BY <1>a, <2>1
<1> QED
  BY <1>2, <1>3, <1>4, <1>5, <1>6 DEF WorkerStep

(* The first receive of a socket that was just bound.                      *)
LEMMA FirstPending ==
  ASSUME OneWorker, ConnInv, FirstQuiet, NEW w \in Workers, OnAcceptFirstRecv(w)
  PROVE  /\ wop[w][2] \in Handles /\ Found(wop[w][2]) /\ ~Resetting(index[wop[w][2]])
         /\ \A m \in {"recv", "send"}, h \in Handles :
              Pending(w, m, h)' = IF m = "recv" /\ h = wop[w][2] THEN 1 ELSE Pending(w, m, h)
<1> USE DEF ConnInv, OwnershipInv
<1>a. TypeOK /\ WorkerShape /\ HandShape /\ AcceptHeld /\ Indexed /\ FillingUntouched
      /\ ClosingStable
  OBVIOUS
<1>1. /\ wpc[w] = "first" /\ UNCHANGED <<wop, wown>>
      /\ posted' = [posted EXCEPT ![<<"recv", wop[w][2]>>] = @ + 1]
  BY DEF OnAcceptFirstRecv, Post
<1>2. /\ wop[w][2] \in Handles /\ wslot[w] \in Slots /\ wop[w][1] = "accept"
      /\ sock[wslot[w]] = wop[w][2] /\ ~closing[wslot[w]]
  BY <1>a, <1>1 DEF WorkerShape, AcceptHeld, FillingUntouched, Filling, Ops
<1>3. ~Resetting(wslot[w])
  BY <1>a, <1>2 DEF Resetting, ClosingStable
<1>4. index[wop[w][2]] = wslot[w]
  BY <1>a, <1>2, <1>3, ConstantsOK DEF Indexed
<1>5. wslot[w] # NoSlot
  BY <1>2 DEF Slots, NoSlot
<1>6. \A m \in {"recv", "send"}, h \in Handles : wop[w] # <<m, h>>
  BY <1>2
<1>7. ASSUME NEW m \in {"recv", "send"}, NEW h \in Handles
      PROVE  Pending(w, m, h)' = IF m = "recv" /\ h = wop[w][2] THEN 1 ELSE Pending(w, m, h)
  <2>1. <<m, h>> \in Ops /\ posted[<<m, h>>] \in Nat
    BY <1>a, PendingType
  <2>2. h = wop[w][2] => posted[<<m, h>>] = 0
    BY <1>1 DEF FirstQuiet
  <2>3. posted'[<<m, h>>] = IF m = "recv" /\ h = wop[w][2] THEN posted[<<m, h>>] + 1
                                                           ELSE posted[<<m, h>>]
    BY <1>a, <1>1, <2>1 DEF TypeOK
  <2> QED
    BY <1>1, <1>6, <2>1, <2>2, <2>3 DEF Pending
<1> QED
  BY <1>2, <1>3, <1>4, <1>5, <1>7 DEF Found

LEMMA MainPending ==
  ASSUME OneWorker, ConnInv, MainStep, NEW w \in Workers,
         NEW m \in {"recv", "send"}, NEW h \in Handles
  PROVE  /\ ~MSend => Pending(w, m, h)' <= Pending(w, m, h)
         /\ MSend => Pending(w, m, h)' = IF m = "send" /\ h = sock[mslot]
                                         THEN Pending(w, m, h) + 1 ELSE Pending(w, m, h)
         /\ MRelease /\ h = sock[mslot] => Pending(w, m, h)' = 0
<1> USE ConstantsOK DEF OneWorker, ConnInv, OwnershipInv, Pending, slotVars, osVars, wVars, mVars
<1>a. TypeOK /\ ClosingStable /\ <<m, h>> \in Ops /\ posted[<<m, h>>] \in Nat
  BY PendingType
<1>0. MRelease => ~MSend
  BY DEF MRelease, MSend, MSending
<1>1. CASE MRelease
  <2>1. Release(sock[mslot]) /\ UNCHANGED wop /\ sock[mslot] \in Handles
    BY <1>1, <1>a DEF MRelease, ClosingStable, TypeOK
  <2>2. posted'[<<m, h>>] = IF h = sock[mslot] THEN 0 ELSE posted[<<m, h>>]
    BY <1>a, <2>1, ReleaseEffect DEF Modes
  <2>3. wown'[w] = (wown[w] /\ wop[w][2] # sock[mslot])
    BY <2>1 DEF Release
  <2>4. wop[w] = <<m, h>> => wop[w][2] = h
    OBVIOUS
  <2>5. h = sock[mslot] => ~(wop'[w] = <<m, h>> /\ wown'[w])
    BY <2>1, <2>3, <2>4
  <2>6. wown'[w] => wown[w]
    BY <2>3
  <2> HIDE DEF Pending
  <2>7. Pending(w, m, h)' <= Pending(w, m, h) /\ (h = sock[mslot] => Pending(w, m, h)' = 0)
    BY <1>a, <2>1, <2>2, <2>5, <2>6 DEF Pending
  <2> QED
    BY <1>0, <1>1, <2>7
<1>2. CASE MSend
  <2>1. UNCHANGED <<wop, wown>> /\ posted' = [posted EXCEPT ![<<"send", sock[mslot]>>] = @ + 1]
    BY <1>2 DEF MSend, Post
  <2>2. posted'[<<m, h>>] = IF m = "send" /\ h = sock[mslot] THEN posted[<<m, h>>] + 1
                                                            ELSE posted[<<m, h>>]
    BY <1>a, <2>1 DEF TypeOK
  <2> QED
    BY <1>0, <1>a, <1>2, <2>1, <2>2
<1>3. CASE ~MRelease /\ ~MSend
  <2>1. UNCHANGED <<wop, wown, posted>>
    BY <1>3 DEF MainStep, MSkip, MCheckClosing, MCheckOpen, MUncount, MReset, MParseEnter, MParseNone,
     MParseEnd, MParseBadHead, MParseRejected, MParseFrames, MParseShutDown, MSendNone,
     MSendFails
  <2> QED
    BY <1>a, <1>3, <2>1
<1> QED
  BY <1>1, <1>2, <1>3

LEMMA PendingTypeNext ==
  ASSUME TypeOK', NEW w, NEW m \in {"recv", "send"}, NEW h \in Handles
  PROVE  Pending(w, m, h)' \in Nat
BY DEF Pending, TypeOK, Ops, Modes

LEMMA WorkerOwned ==
  ASSUME OneWorker, ConnInv, Drained, FirstQuiet, NEW w \in Workers, WorkerStep(w),
         Owned(w), TypeOK'
  PROVE  Owned(w)'
<1> USE DEF OneWorker, ConnInv, OwnershipInv, slotVars, osVars, wVars, mVars
<1>a. /\ TypeOK /\ WorkerShape /\ HandShape /\ Indexed /\ AcceptHeld
      /\ \A h \in Handles : h # NoHandle
  BY ConstantsOK
<1>b. UNCHANGED <<mpc, mslot>>
  BY DEF WorkerStep, DequeueFailed, DequeueDone, Take, ShutDownFind, ShutDownMark, OnRecv,
     OnRecvSave, OnRecvRearm, OnRecvRearmFails, OnSend, OnSendDone, OnAcceptRefused,
     OnAcceptSlot, OnAcceptBind, OnAcceptFirstRecv, OnAcceptFirstRecvFails, OnAcceptCount,
     RefuseClose, PostAccept, PostAcceptFails
<1> SUFFICES ASSUME NEW m \in {"recv", "send"}, NEW h \in Handles, Pending(w, m, h)' > 0
             PROVE  Found(h)' /\ ~Resetting(index[h])'
  BY DEF Owned
<1>1. CASE OnAcceptFirstRecv(w)
  <2>1. Found(h) /\ ~Resetting(index[h])
    BY <1>1, FirstPending DEF Owned
  <2> QED
    BY <1>1, <1>b, <2>1 DEF OnAcceptFirstRecv, Found, Resetting
<1>2. CASE ~OnAcceptFirstRecv(w)
  <2>1. Pending(w, m, h) > 0
    <3>1. Pending(w, m, h)' <= Pending(w, m, h)
      BY ONLY OneWorker, ConnInv, Drained, WorkerStep(w), <1>2, WorkerPending, w \in Workers,
              m \in {"recv", "send"}, h \in Handles
    <3>2. Pending(w, m, h) \in Nat
      BY <1>a, PendingType
    <3>3. Pending(w, m, h)' \in Nat
      BY PendingTypeNext
    <3> QED
      BY <3>1, <3>2, <3>3
  <2>2. /\ index[h] # NoSlot /\ index[h] \in Slots /\ sock[index[h]] = h
        /\ ~Resetting(index[h])
    BY <1>a, <2>1 DEF Owned, Found, TypeOK
  <2>3. index'[h] = index[h] /\ sock'[index[h]] = h
    <3>1. CASE OnAcceptSlot(w)
      BY <1>a, <2>2, <3>1 DEF OnAcceptSlot, ResetTo, Indexed, TypeOK
    <3>2. CASE OnAcceptBind(w)
      <4>1. /\ wpc[w] = "bind" /\ index' = [index EXCEPT ![wop[w][2]] = wslot[w]]
            /\ sock' = [sock EXCEPT ![wslot[w]] = wop[w][2]]
        BY <3>2 DEF OnAcceptBind
      <4>2. sock[wslot[w]] = NoHandle /\ Unowned(wop[w][2])
        BY <1>a, <4>1 DEF FirstQuiet, AcceptHeld
      <4> QED
        BY <1>a, <2>2, <4>1, <4>2 DEF Unowned, TypeOK
    <3>3. CASE OnAcceptFirstRecvFails(w)
      <4>1. wpc[w] = "first" /\ sock' = [sock EXCEPT ![wslot[w]] = NoHandle] /\ index' = index
        BY <3>3 DEF OnAcceptFirstRecvFails, ResetTo
      <4>2. sock[wslot[w]] = wop[w][2] /\ wop[w][1] = "accept"
        BY <1>a, <4>1 DEF AcceptHeld
      <4>3. Pending(w, m, h) = posted[<<m, h>>]
        BY <1>a, <4>2, PendingType DEF Pending
      <4>4. posted[<<m, wop[w][2]>>] = 0
        BY <4>1 DEF FirstQuiet
      <4>5. h # wop[w][2]
        BY <2>1, <4>3, <4>4
      <4> QED
        BY <1>a, <2>2, <4>1, <4>2, <4>5 DEF TypeOK
    <3>4. CASE ~OnAcceptSlot(w) /\ ~OnAcceptBind(w) /\ ~OnAcceptFirstRecvFails(w)
      <4>1. UNCHANGED <<sock, index>>
        BY <3>4 DEF WorkerStep, DequeueFailed, DequeueDone, Take, ShutDownFind, ShutDownMark,
           OnRecv, OnRecvSave, OnRecvRearm, OnRecvRearmFails, OnSend, OnSendDone,
           OnAcceptRefused, OnAcceptFirstRecv, OnAcceptCount, RefuseClose, PostAccept,
           PostAcceptFails
      <4> QED
        BY <2>2, <4>1
    <3> QED
      BY <3>1, <3>2, <3>3, <3>4
  <2> QED
    BY <1>b, <2>2, <2>3 DEF Found, Resetting
<1> QED
  BY <1>1, <1>2

LEMMA WorkerGated ==
  ASSUME OneWorker, ConnInv, Drained, FirstQuiet, NEW w \in Workers, WorkerStep(w),
         Owned(w), Single(w), Gated(w), TypeOK'
  PROVE  Gated(w)'
<1> USE DEF OneWorker, ConnInv, OwnershipInv, slotVars, osVars, wVars, mVars
<1>a. /\ TypeOK /\ WorkerShape /\ HandShape /\ AcceptHeld
      /\ \A s \in Slots : sock[s] # NoHandle => sock[s] \in Handles
      /\ \A h \in Handles : h # NoHandle
  BY ConstantsOK DEF TypeOK
<1> SUFFICES ASSUME NEW s \in Slots, NEW h \in Handles, sock'[s] = h,
                    sendCompleted'[s], ~closing'[s]
             PROVE  Pending(w, "send", h)' = 0
  <2>1. \A s \in Slots : sock'[s] # NoHandle => sock'[s] \in Handles
    BY DEF TypeOK
  <2> QED
    BY <2>1 DEF Gated, Pending
<1>c. Pending(w, "send", h)' \in Nat /\ Pending(w, "send", h) \in Nat
  <2>1. Pending(w, "send", h) \in Nat
    BY <1>a, PendingType
  <2>2. Pending(w, "send", h)' \in Nat
    BY PendingTypeNext
  <2> QED
    BY <2>1, <2>2
<1>d. Pending(w, "send", h)' <= Pending(w, "send", h)
  <2>1. CASE OnAcceptFirstRecv(w)
    <3>1. Pending(w, "send", h)' = Pending(w, "send", h)
      BY ONLY OneWorker, ConnInv, FirstQuiet, w \in Workers, <2>1, FirstPending, h \in Handles
    <3> QED
      BY <1>c, <3>1
  <2>2. CASE ~OnAcceptFirstRecv(w)
    BY ONLY OneWorker, ConnInv, Drained, WorkerStep(w), <2>2, WorkerPending, w \in Workers,
            h \in Handles
  <2> QED
    BY <2>1, <2>2
<1>1. ASSUME sock'[s] = sock[s], sendCompleted[s], ~closing[s]
      PROVE  Pending(w, "send", h)' = 0
  <2>1. Pending(w, "send", h) = 0
    BY <1>1, <1>a DEF Gated
  <2> QED
    BY <1>1, <1>c, <1>d, <2>1
<1>2. CASE OnSendDone(w)
  <2>1. /\ wpc[w] = "sent" /\ UNCHANGED <<sock, closing, posted>> /\ ~wown'[w]
        /\ sendCompleted' = [sendCompleted EXCEPT ![wslot[w]] = TRUE]
    BY <1>2, <1>a DEF OnSendDone, WDone, TypeOK
  <2>2. CASE s # wslot[w]
    BY <1>1, <1>a, <2>1, <2>2 DEF TypeOK
  <2>3. CASE s = wslot[w]
    <3> DEFINE g == wop[w][2]
    <3>1. wown[w] /\ wslot[w] = index[g]
      BY <1>a, <2>1, <2>3 DEF Drained
    <3>2. g \in Handles /\ wop[w] = <<"send", g>>
      BY <1>a, <2>1 DEF WorkerShape, HandShape, Ops
    <3> HIDE DEF g
    <3>3. Pending(w, "send", g) = posted[<<"send", g>>] + 1
      BY <3>1, <3>2 DEF Pending
    <3>4. Pending(w, "send", g) <= 1 /\ posted[<<"send", g>>] \in Nat
      BY <1>a, <3>2, PendingType DEF Single
    <3>5. posted[<<"send", g>>] = 0 /\ Pending(w, "send", g) > 0
      BY <3>3, <3>4
    <3>6. sock[s] = g
      BY <2>3, <3>1, <3>2, <3>5 DEF Owned, Found
    <3> QED
      BY <2>1, <3>5, <3>6 DEF Pending
  <2> QED
    BY <2>2, <2>3
<1>3. CASE OnAcceptSlot(w) \/ OnAcceptFirstRecvFails(w)
  <2>1. \E r \in Slots, st \in {"Free", "Connect"} : ResetTo(r, st)
    BY <1>3, <1>a DEF OnAcceptSlot, OnAcceptFirstRecvFails, WorkerShape
  <2> QED
    BY <1>1, <1>a, <2>1 DEF ResetTo, TypeOK
<1>4. CASE OnAcceptBind(w)
  <2>1. /\ wpc[w] = "bind" /\ sock' = [sock EXCEPT ![wslot[w]] = wop[w][2]]
        /\ UNCHANGED <<sendCompleted, closing>>
    BY <1>4 DEF OnAcceptBind
  <2>2. CASE s # wslot[w]
    BY <1>1, <1>a, <2>1, <2>2 DEF TypeOK
  <2>3. CASE s = wslot[w]
    <3>1. h = wop[w][2]
      BY <1>a, <2>1, <2>3 DEF TypeOK
    <3>2. Unowned(h)
      BY <1>a, <2>1, <3>1 DEF AcceptHeld
    <3>3. Found(h) => Resetting(index[h])
      BY <1>a, <3>2 DEF Found, Unowned, TypeOK
    <3>4. ~(Pending(w, "send", h) > 0)
      BY <3>3 DEF Owned
    <3> QED
      BY <1>c, <1>d, <3>4
  <2> QED
    BY <2>2, <2>3
<1>5. CASE ShutDownMark(w)
  <2>1. sock'[s] = sock[s] /\ s # wslot[w] /\ sendCompleted[s] /\ ~closing[s]
    BY <1>5, <1>a DEF ShutDownMark, WorkerShape, TypeOK
  <2> QED
    BY <1>1, <2>1
<1>6. CASE OnRecvRearmFails(w)
  <2>1. sock'[s] = sock[s] /\ sendCompleted[s] /\ ~closing[s]
    BY <1>6, <1>a DEF OnRecvRearmFails, ShutDown, WorkerShape, TypeOK
  <2> QED
    BY <1>1, <2>1
<1>7. CASE \/ DequeueFailed(w) \/ DequeueDone(w) \/ ShutDownFind(w) \/ OnRecv(w)
           \/ OnRecvSave(w) \/ OnRecvRearm(w) \/ OnSend(w) \/ OnAcceptRefused(w)
           \/ OnAcceptFirstRecv(w) \/ OnAcceptCount(w) \/ RefuseClose(w)
           \/ PostAccept(w) \/ PostAcceptFails(w)
  <2>1. UNCHANGED <<sock, sendCompleted, closing>>
    BY <1>7 DEF DequeueFailed, DequeueDone, Take, ShutDownFind, OnRecv, OnRecvSave,
       OnRecvRearm, OnSend, OnAcceptRefused, OnAcceptFirstRecv, OnAcceptCount, RefuseClose,
       PostAccept, PostAcceptFails
  <2> QED
    BY <1>1, <2>1
<1> QED
  BY <1>2, <1>3, <1>4, <1>5, <1>6, <1>7 DEF WorkerStep

LEMMA MainOwned ==
  ASSUME OneWorker, ConnInv, MainStep, NEW w \in Workers, Owned(w), TypeOK'
  PROVE  Owned(w)'
<1> USE DEF OneWorker, ConnInv, OwnershipInv, slotVars, osVars, wVars, mVars
<1>a. /\ TypeOK /\ Indexed /\ ClosingStable
      /\ \A h \in Handles : h # NoHandle
  BY ConstantsOK
<1> SUFFICES ASSUME NEW m \in {"recv", "send"}, NEW h \in Handles, Pending(w, m, h)' > 0
             PROVE  Found(h)' /\ ~Resetting(index[h])'
  BY DEF Owned
<1>b. Pending(w, m, h)' \in Nat
  BY PendingTypeNext
<1>c. Pending(w, m, h) \in Nat
  BY <1>a, PendingType
<1>d. /\ ~MSend => Pending(w, m, h)' <= Pending(w, m, h)
      /\ MSend => Pending(w, m, h)' = IF m = "send" /\ h = sock[mslot]
                                      THEN Pending(w, m, h) + 1 ELSE Pending(w, m, h)
      /\ MRelease /\ h = sock[mslot] => Pending(w, m, h)' = 0
  BY ONLY OneWorker, ConnInv, MainStep, w \in Workers, m \in {"recv", "send"}, h \in Handles,
          MainPending
<1>1. ASSUME Pending(w, m, h) > 0
      PROVE  /\ index[h] # NoSlot /\ index[h] \in Slots /\ sock[index[h]] = h
             /\ ~Resetting(index[h])
  BY <1>a, <1>1 DEF Owned, Found, TypeOK
<1>2. CASE MRelease
  <2>1. h # sock[mslot]
    BY <1>2, <1>d
  <2>2. Pending(w, m, h) > 0
    BY <1>2, <1>b, <1>c, <1>d DEF MRelease, MSend, MSending
  <2>3. UNCHANGED <<sock, index, mslot>>
    BY <1>2 DEF MRelease, MGoto
  <2> QED
    BY <1>1, <2>1, <2>2, <2>3 DEF Found, Resetting
<1>3. CASE MReset
  <2>1. Pending(w, m, h) > 0
    BY <1>3, <1>b, <1>c, <1>d DEF MReset, MSend, MSending
  <2>2. /\ mpc = "reset" /\ mpc' = "parse" /\ UNCHANGED index
        /\ sock' = [sock EXCEPT ![mslot] = NoHandle]
    BY <1>3 DEF MReset, ResetTo, MGoto
  <2>3. index[h] # mslot
    BY <1>1, <2>1, <2>2 DEF Resetting
  <2> QED
    BY <1>1, <1>a, <2>1, <2>2, <2>3 DEF Found, Resetting, TypeOK
<1>4. CASE MSend
  <2>1. /\ mpc = "send" /\ mpc' = "check" /\ UNCHANGED <<sock, index>>
        /\ sock[mslot] # NoHandle
    BY <1>4 DEF MSend, MSending, MAdvance
  <2>2. CASE m = "send" /\ h = sock[mslot]
    <3>1. index[h] = mslot /\ mslot # NoSlot
      BY <1>a, <2>1, <2>2 DEF Indexed, Resetting, TypeOK, Slots, NoSlot
    <3> QED
      BY <2>1, <2>2, <3>1 DEF Found, Resetting
  <2>3. CASE ~(m = "send" /\ h = sock[mslot])
    <3>1. Pending(w, m, h) > 0
      BY <1>4, <1>d, <2>3
    <3> QED
      BY <1>1, <2>1, <3>1 DEF Found, Resetting
  <2> QED
    BY <2>2, <2>3
<1>5. CASE ~MRelease /\ ~MReset /\ ~MSend
  <2>1. UNCHANGED <<sock, index>> /\ mpc' # "reset"
    BY <1>5 DEF MainStep, MSkip, MCheckClosing, MCheckOpen, MUncount, MParseEnter, MParseNone,
     MParseEnd, MParseBadHead, MParseRejected, MParseFrames, MParseShutDown, MSendNone,
     MSendFails, MSending, MAdvance, MGoto
  <2>2. Pending(w, m, h) > 0
    BY <1>5, <1>b, <1>c, <1>d
  <2> QED
    BY <1>1, <2>1, <2>2 DEF Found, Resetting
<1> QED
  BY <1>2, <1>3, <1>4, <1>5

LEMMA MainGated ==
  ASSUME OneWorker, ConnInv, MainStep, NEW w \in Workers, Single(w), Gated(w), TypeOK'
  PROVE  Single(w)' /\ Gated(w)'
<1> USE DEF OneWorker, ConnInv, OwnershipInv, slotVars, osVars, wVars, mVars
<1>a. /\ TypeOK /\ HandleOwned
      /\ \A h \in Handles : h # NoHandle
  BY ConstantsOK
<1>b. \A m \in {"recv", "send"}, h \in Handles :
        /\ ~MSend => Pending(w, m, h)' <= Pending(w, m, h)
        /\ MSend => Pending(w, m, h)' = IF m = "send" /\ h = sock[mslot]
                                        THEN Pending(w, m, h) + 1 ELSE Pending(w, m, h)
  BY ONLY OneWorker, ConnInv, MainStep, w \in Workers, MainPending
<1>c. \A m \in {"recv", "send"}, h \in Handles :
        Pending(w, m, h) \in Nat /\ Pending(w, m, h)' \in Nat
  <2>1. \A m \in {"recv", "send"}, h \in Handles : Pending(w, m, h) \in Nat
    BY <1>a, PendingType
  <2>2. \A m \in {"recv", "send"}, h \in Handles : Pending(w, m, h)' \in Nat
    BY PendingTypeNext
  <2> QED
    BY <2>1, <2>2
<1>d. MSend => /\ mpc = "send" /\ sock[mslot] \in Handles
               /\ sendCompleted[mslot] /\ ~closing[mslot]
               /\ UNCHANGED <<sock, closing>>
               /\ sendCompleted' = [sendCompleted EXCEPT ![mslot] = FALSE]
  BY <1>a DEF MSend, MSending, TypeOK
<1>e. MSend => Pending(w, "send", sock[mslot]) = 0
  BY <1>a, <1>d DEF Gated, TypeOK
<1>1. Single(w)'
  <2> SUFFICES ASSUME NEW m \in {"recv", "send"}, NEW h \in Handles
               PROVE  Pending(w, m, h)' <= 1
    BY DEF Single
  <2>1. Pending(w, m, h) <= 1
    BY DEF Single
  <2> QED
    BY <2>1, <1>b, <1>c, <1>e
<1>2. Gated(w)'
  <2> SUFFICES ASSUME NEW s \in Slots, NEW h \in Handles, sock'[s] = h,
                      sendCompleted'[s], ~closing'[s]
               PROVE  Pending(w, "send", h)' = 0
    <3>1. \A s \in Slots : sock'[s] # NoHandle => sock'[s] \in Handles
      BY DEF TypeOK
    <3> QED
      BY <3>1 DEF Gated, Pending
  <2>1. sock[s] = h /\ sendCompleted[s] /\ ~closing[s]
    <3>1. CASE MReset
      BY <1>a, <3>1 DEF MReset, ResetTo, TypeOK
    <3>2. CASE MSendFails
      BY <1>a, <3>2 DEF MSendFails, MSending, ShutDown, TypeOK
    <3>3. CASE MCheckOpen \/ MParseBadHead \/ MParseShutDown
      BY <1>a, <3>3 DEF MCheckOpen, MParseBadHead, MParseShutDown, ShutDown, TypeOK
    <3>4. CASE MSend
      BY <1>a, <1>d, <3>4 DEF TypeOK
    <3>5. CASE \/ MSkip \/ MCheckClosing \/ MUncount \/ MRelease \/ MParseEnter \/ MParseNone \/ MParseEnd
               \/ MParseRejected \/ MParseFrames \/ MSendNone
      BY <3>5 DEF MSkip, MCheckClosing, MUncount, MRelease, MParseEnter, MParseNone, MParseEnd,
         MParseRejected, MParseFrames, MSendNone
    <3> QED
      BY <3>1, <3>2, <3>3, <3>4, <3>5 DEF MainStep
  <2>2. Pending(w, "send", h) = 0
    BY <1>a, <2>1 DEF Gated
  <2>3. MSend => h # sock[mslot]
    <3> SUFFICES ASSUME MSend PROVE h # sock[mslot]
      OBVIOUS
    <3>1. s # mslot
      BY <1>a, <1>d DEF TypeOK
    <3> QED
      BY <1>a, <1>d, <2>1, <3>1 DEF HandleOwned, Resetting, TypeOK
  <2> QED
    BY <1>b, <1>c, <2>2, <2>3
<1> QED
  BY <1>1, <1>2

LEMMA WorkerSingle ==
  ASSUME OneWorker, ConnInv, Drained, FirstQuiet, NEW w \in Workers, WorkerStep(w),
         Single(w), TypeOK'
  PROVE  Single(w)'
<1> SUFFICES ASSUME NEW m \in {"recv", "send"}, NEW h \in Handles
             PROVE  Pending(w, m, h)' <= 1
  BY DEF Single
<1>1. Pending(w, m, h) <= 1 /\ Pending(w, m, h) \in Nat
  BY PendingType DEF Single, ConnInv, OwnershipInv
<1>2. Pending(w, m, h)' \in Nat
  BY PendingTypeNext
<1>3. CASE OnAcceptFirstRecv(w)
  <2>1. Pending(w, m, h)' = IF m = "recv" /\ h = wop[w][2] THEN 1 ELSE Pending(w, m, h)
    BY <1>3, FirstPending
  <2> QED
    BY <1>1, <2>1
<1>4. CASE ~OnAcceptFirstRecv(w)
  <2>1. Pending(w, m, h)' <= Pending(w, m, h)
    BY <1>4, WorkerPending
  <2> QED
    BY <1>1, <1>2, <2>1
<1> QED
  BY <1>3, <1>4

LEMMA NextDrained ==
  ASSUME OneWorker, OrphanMax = 0, DrainedInv, [Next]_vars
  PROVE  DrainedInv'
<1>a. ConnInv /\ Drained /\ FirstQuiet /\ TypeOK
  BY DEF DrainedInv, ConnInv, OwnershipInv
<1>b. ConnInv' /\ TypeOK'
  <2>1. ConnInv'
    BY <1>a, NextConn
  <2> QED
    BY <2>1 DEF ConnInv, OwnershipInv
<1>c. PICK w \in Workers : Workers = {w}
  BY ConstantsOK DEF OneWorker
<1>d. Owned(w) /\ Single(w) /\ Gated(w)
  BY <1>a, PendingInv DEF DrainedInv
<1>e. SUFFICES Drained' /\ FirstQuiet' /\ Owned(w)' /\ Single(w)' /\ Gated(w)'
  BY <1>b, PendingInvNext DEF DrainedInv
<1>1. CASE WorkerStep(w)
  BY <1>1, <1>a, <1>b, <1>d, WorkerDrained, WorkerQuiet, WorkerOwned, WorkerSingle, WorkerGated
<1>2. CASE MainStep
  BY <1>2, <1>a, <1>b, <1>d, MainDrained, MainQuiet, MainOwned, MainGated
<1>3. CASE (\E s \in Slots : Tick(s)) \/ UNCHANGED vars
  <2>1. UNCHANGED <<state, sock, closing, sendCompleted, index, inUse, posted, orphan, wVars,
                      mVars>>
    BY <1>3 DEF Tick, vars, slotVars, osVars
  <2> QED
    BY <1>a, <1>d, <2>1 DEF Drained, FirstQuiet, Owned, Single, Gated, Pending, Found,
       Resetting, wVars, mVars
<1> QED
  BY <1>1, <1>2, <1>3, <1>c DEF Next

(* The inductive invariant where a handle value comes back only after the  *)
(* operations of its last owner.                                           *)
THEOREM ConnDrained ==
  ASSUME OneWorker, OrphanMax = 0
  PROVE  Spec => []DrainedInv
<1>1. DrainedInv /\ [Next]_vars => DrainedInv'
  BY NextDrained
<1> QED
  BY <1>1, InitDrained, PTL DEF Spec

(* A receive or send completes on the slot that posted it: the handle      *)
(* still leads there, however accepts, closes and completions interleave.  *)
THEOREM OwnerFound ==
  ASSUME OneWorker, OrphanMax = 0
  PROVE  Spec => []FindsOwner
<1>1. DrainedInv => FindsOwner
  BY DEF DrainedInv
<1> QED
  BY <1>1, ConnDrained, PTL

(* onRecv posts the next receive before it is done, yet a socket never has *)
(* two.                                                                    *)
THEOREM OneReceive ==
  ASSUME OneWorker, OrphanMax = 0
  PROVE  Spec => []OneRecv
<1>1. DrainedInv => OneRecv
  BY DEF DrainedInv
<1> QED
  BY <1>1, ConnDrained, PTL

(* postSend never starts a send beside one that is outstanding.            *)
THEOREM SendsGated ==
  ASSUME OneWorker, OrphanMax = 0
  PROVE  Spec => []SendGate
<1>1. DrainedInv => SendGate
  BY DEF DrainedInv
<1> QED
  BY <1>1, ConnDrained, PTL
-----------------------------------------------------------------------------
(* A slot in service is changed only by a worker that holds it.            *)
LEMMA WorkerTouches ==
  ASSUME TypeOK, WorkerShape, NEW w \in Workers, WorkerStep(w), NEW s \in Slots, Serving(s),
         s # wslot[w] \/ wpc[w] \notin {"save", "rearm", "shut", "sent", "count"}
  PROVE  /\ state'[s] = state[s] /\ sock'[s] = sock[s] /\ closing'[s] = closing[s]
         /\ recvCompleted'[s] = recvCompleted[s] /\ sendCompleted'[s] = sendCompleted[s]
         /\ unsent'[s] = unsent[s]
<1> USE DEF TypeOK, WorkerShape, slotVars
<1>0. wpc[w] \in {"bind", "first"} => wslot[w] # s
  BY DEF Serving, Filling
<1>1. CASE OnAcceptSlot(w)
  <2>1. PICK r \in Slots : state[r] = "Free" /\ ResetTo(r, "Connect")
    BY <1>1 DEF OnAcceptSlot
  <2>2. r # s
    BY <2>1 DEF Serving
  <2> HIDE DEF WorkerShape
  <2> QED
    BY <2>1, <2>2 DEF ResetTo
<1>2. CASE OnAcceptBind(w)
  BY <1>0, <1>2 DEF OnAcceptBind
<1>3. CASE ShutDownMark(w)
  BY <1>3 DEF ShutDownMark
<1>4. CASE OnRecvSave(w) \/ OnRecvRearm(w)
  BY <1>4 DEF OnRecvSave, OnRecvRearm
<1>5. CASE OnRecvRearmFails(w)
  BY <1>5 DEF OnRecvRearmFails, ShutDown
<1>6. CASE OnSendDone(w)
  BY <1>6 DEF OnSendDone
<1>7. CASE OnAcceptCount(w)
  BY <1>7 DEF OnAcceptCount
<1>8. CASE \/ DequeueFailed(w) \/ DequeueDone(w) \/ ShutDownFind(w) \/ OnRecv(w) \/ OnSend(w)
           \/ OnAcceptRefused(w) \/ OnAcceptFirstRecv(w) \/ RefuseClose(w) \/ PostAccept(w)
           \/ PostAcceptFails(w)
  BY <1>8 DEF DequeueFailed, DequeueDone, Take, ShutDownFind, OnRecv, OnSend, OnAcceptRefused,
     OnAcceptFirstRecv, RefuseClose, PostAccept, PostAcceptFails
<1>9. CASE OnAcceptFirstRecvFails(w)
  BY <1>0, <1>9 DEF OnAcceptFirstRecvFails, ResetTo
<1> QED
  BY <1>1, <1>2, <1>3, <1>4, <1>5, <1>6, <1>7, <1>8, <1>9 DEF WorkerStep

LEMMA OwnStep ==
  ASSUME OneWorker, [Next]_vars, NEW w \in Workers, wpc'[w] # wpc[w]
  PROVE  WorkerStep(w)
<1>1. ~MainStep
  BY DEF MainStep, MSkip, MCheckClosing, MCheckOpen, MUncount, MRelease, MReset, MParseEnter,
     MParseNone, MParseEnd, MParseBadHead, MParseRejected, MParseFrames, MParseShutDown,
     MSendNone, MSend, MSendFails, wVars
<1>2. ~\E s \in Slots : Tick(s)
  BY DEF Tick, wVars
<1> QED
  BY <1>1, <1>2 DEF OneWorker, Next, vars, wVars

(* A worker changes a connection only for an operation on the handle that  *)
(* connection has (onRecv, onSend and shutDown by handle), for any reuse   *)
(* of handle values: the slot it looked up has not gone to another socket  *)
(* meanwhile.                                                              *)
THEOREM NoStrayCompletion ==
  ASSUME OneWorker
  PROVE  Spec => NoCrossTalk
<1>1. ConnInv /\ [Next]_vars => [\A w \in Workers, s \in Slots : OwnOnly(w, s)]_vars
  <2> SUFFICES ASSUME ConnInv, [Next]_vars,
                      NEW w \in Workers, NEW s \in Slots, wpc'[w] # wpc[w], Serving(s),
                      Client(s)' # Client(s)
               PROVE  wop[w][2] = sock[s]
    BY DEF OwnOnly
  <2>1. TypeOK /\ WorkerShape /\ HandKept
    BY DEF ConnInv, OwnershipInv
  <2>2. WorkerStep(w)
    BY OwnStep
  <2>3. s = wslot[w] /\ wpc[w] \in {"save", "rearm", "shut", "sent", "count"}
    BY <2>1, <2>2, WorkerTouches DEF Client
  <2> QED
    BY <2>1, <2>3 DEF HandKept, Serving
<1> QED
  BY <1>1, ConnSafe, PTL DEF Spec, NoCrossTalk
-----------------------------------------------------------------------------
(* The life cycle implements SlotWalk.                                     *)
LEMMA WalkInit == Init => Walk!Init
BY DEF Init, Walk!Init, Walk!Slots, Phase, Closed, Slots, Filling

(* With one worker w, a slot's phase depends on w alone. *)
LEMMA PhaseOne ==
  ASSUME OneWorker, NEW w \in Workers
  PROVE  /\ Phase = [s \in Slots |-> IF Filling(w, s) THEN "Free" ELSE state[s]]
         /\ Phase' = [s \in Slots |-> IF Filling(w, s)' THEN "Free" ELSE state'[s]]
<1>1. \A v \in Workers : v = w
  BY DEF OneWorker
<1>2. \A s \in Slots : (\E v \in Workers : Filling(v, s)) <=> Filling(w, s)
  BY <1>1
<1>3. \A s \in Slots : (\E v \in Workers : Filling(v, s)') <=> Filling(w, s)'
  BY <1>1 DEF Filling
<1> QED
  BY <1>2, <1>3 DEF Phase

LEMMA WorkerWalks ==
  ASSUME OneWorker, OwnershipInv, NEW w \in Workers, WorkerStep(w)
  PROVE  [Walk!Next]_<<Phase, Closed, mslot>>
<1> DEFINE F(s) == Filling(w, s)
<1>a. /\ TypeOK /\ WorkerShape
      /\ \A s \in Slots : F(s) => state[s] = "Connect" /\ ~closing[s]
      /\ Phase = [s \in Slots |-> IF F(s) THEN "Free" ELSE state[s]]
      /\ Phase' = [s \in Slots |-> IF F(s)' THEN "Free" ELSE state'[s]]
  BY PhaseOne DEF OwnershipInv, FillingUntouched
<1>b. mslot' = mslot
  BY DEF WorkerStep, DequeueFailed, DequeueDone, Take, ShutDownFind, ShutDownMark, OnRecv,
     OnRecvSave, OnRecvRearm, OnRecvRearmFails, OnSend, OnSendDone, OnAcceptRefused,
     OnAcceptSlot, OnAcceptBind, OnAcceptFirstRecv, OnAcceptFirstRecvFails, OnAcceptCount,
     RefuseClose, PostAccept, PostAcceptFails, mVars
<1> USE DEF TypeOK, WorkerShape, Filling, slotVars, wVars, WGoto, WDone
<1>1. CASE OnAcceptSlot(w)
  <2>1. PICK r \in Slots :
          /\ state[r] = "Free" /\ wpc[w] = "accept"
          /\ state' = [state EXCEPT ![r] = "Connect"]
          /\ closing' = [closing EXCEPT ![r] = FALSE]
          /\ wslot' = [wslot EXCEPT ![w] = r] /\ wpc' = [wpc EXCEPT ![w] = "bind"]
    BY <1>1 DEF OnAcceptSlot, ResetTo
  <2>2. Phase' = Phase /\ Closed' = Closed
    BY <1>a, <2>1 DEF Closed
  <2> QED
    BY <1>b, <2>2
<1>2. CASE OnAcceptBind(w) \/ OnAcceptFirstRecvFails(w)
  <2>0. PICK r \in Slots : r = wslot[w]
    BY <1>a, <1>2 DEF OnAcceptBind, OnAcceptFirstRecvFails
  <2>1. /\ F(r)
        /\ \A s \in Slots \ {r} : state'[s] = state[s] /\ closing'[s] = closing[s]
        /\ ~closing'[r] /\ (F(r)' \/ state'[r] = "Free")
        /\ \A s \in Slots \ {r} : ~F(s) /\ ~F(s)'
    BY <1>2, <1>a, <2>0 DEF OnAcceptBind, OnAcceptFirstRecvFails, ResetTo
  <2>2. Phase' = Phase
    BY <1>a, <2>1
  <2>3. Closed' = Closed
    BY <1>a, <2>1 DEF Closed
  <2> QED
    BY <1>b, <2>2, <2>3
<1>3. CASE OnAcceptFirstRecv(w)
  <2> DEFINE r == wslot[w]
  <2>1. /\ F(r) /\ r \in Slots /\ UNCHANGED <<state, closing>>
        /\ \A s \in Slots : (F(s) <=> s = r) /\ ~F(s)'
    BY <1>3, <1>a DEF OnAcceptFirstRecv
  <2>2. Phase[r] = "Free" /\ Phase' = [Phase EXCEPT ![r] = "Connect"]
    BY <1>a, <2>1
  <2>3. Closed' = Closed
    BY <2>1 DEF Closed
  <2>4. Walk!Open(r)
    BY <1>b, <2>2, <2>3 DEF Walk!Open
  <2> QED
    BY <2>1, <2>4 DEF Walk!Next, Walk!Slots, Slots
<1>4. CASE ShutDownMark(w) \/ OnRecvRearmFails(w)
  <2> DEFINE r == wslot[w]
  <2>1. /\ r \in Slots /\ UNCHANGED state /\ \A s \in Slots : ~F(s) /\ ~F(s)'
        /\ closing' \in {closing, [closing EXCEPT ![r] = TRUE]}
    BY <1>4, <1>a DEF ShutDownMark, OnRecvRearmFails, ShutDown
  <2>2. Phase' = Phase /\ Phase[r] = state[r]
    BY <1>a, <2>1
  <2>3. Closed' = Closed \/ (state[r] # "Free" /\ Closed' = Closed \cup {r})
    BY <1>a, <2>1 DEF Closed
  <2>4. Closed' = Closed \/ Walk!Lose(r)
    BY <1>b, <2>2, <2>3 DEF Walk!Lose
  <2> QED
    BY <1>b, <2>1, <2>2, <2>4 DEF Walk!Next, Walk!Slots, Slots
<1>5. CASE \/ DequeueFailed(w) \/ DequeueDone(w) \/ ShutDownFind(w) \/ OnRecv(w)
           \/ OnRecvSave(w) \/ OnRecvRearm(w) \/ OnSend(w) \/ OnSendDone(w)
           \/ OnAcceptRefused(w) \/ OnAcceptCount(w) \/ RefuseClose(w) \/ PostAccept(w)
           \/ PostAcceptFails(w)
  <2>1. /\ UNCHANGED <<state, closing>>
        /\ wpc[w] \notin {"bind", "first"} /\ wpc'[w] \notin {"bind", "first"}
    BY <1>5, <1>a DEF DequeueFailed, DequeueDone, Take, ShutDownFind, OnRecv, OnRecvSave,
       OnRecvRearm, OnSend, OnSendDone, OnAcceptRefused, OnAcceptCount, RefuseClose,
       PostAccept, PostAcceptFails, Ops, Modes
  <2>2. Phase' = Phase
    BY <1>a, <2>1
  <2>3. Closed' = Closed
    BY <2>1 DEF Closed
  <2> QED
    BY <1>b, <2>2, <2>3
<1> QED
  BY <1>1, <1>2, <1>3, <1>4, <1>5 DEF WorkerStep

LEMMA MainWalks ==
  ASSUME OneWorker, OwnershipInv, MainStep
  PROVE  [Walk!Next]_<<Phase, Closed, mslot>>
<1>c. PICK w \in Workers : TRUE
  BY ConstantsOK
<1> DEFINE F(s) == Filling(w, s)
<1>a. /\ TypeOK /\ ClosingStable /\ mslot \in Slots
      /\ F(mslot) => ~closing[mslot] /\ ~recvCompleted[mslot] /\ ~unsent[mslot] /\ ~late[mslot]
      /\ Phase = [s \in Slots |-> IF F(s) THEN "Free" ELSE state[s]]
  BY PhaseOne DEF OwnershipInv, FillingUntouched, TypeOK
<1>b. Phase' = [s \in Slots |-> IF F(s) THEN "Free" ELSE state'[s]]
  <2>1. \A s \in Slots : F(s)' <=> F(s)
    BY DEF MainStep, MSkip, MCheckClosing, MCheckOpen, MUncount, MRelease, MReset, MParseEnter,
       MParseNone, MParseEnd, MParseBadHead, MParseRejected, MParseFrames, MParseShutDown,
       MSendNone, MSend, MSendFails, wVars, Filling
  <2> QED
    BY <2>1, PhaseOne
<1>d. mslot' \in {mslot, IF mslot = MaxConnect THEN 1 ELSE mslot + 1}
  BY DEF MainStep, MSkip, MCheckClosing, MCheckOpen, MUncount, MRelease, MReset, MParseEnter,
     MParseNone, MParseEnd, MParseBadHead, MParseRejected, MParseFrames, MParseShutDown,
     MSendNone, MSend, MSending, MSendFails, MAdvance, MGoto
<1> SUFFICES Walk!Serve \/ Walk!Free \/ Walk!Stay
  BY <1>d DEF Walk!Next, Walk!Main
<1> USE DEF TypeOK, slotVars
<1>1. CASE MReset
  <2>1. mslot \in Closed
    BY <1>1, <1>a DEF MReset, ClosingStable, Closed
  <2>2. /\ state' = [state EXCEPT ![mslot] = "Free"]
        /\ closing' = [closing EXCEPT ![mslot] = FALSE]
    BY <1>1 DEF MReset, ResetTo
  <2>3. Phase' = [Phase EXCEPT ![mslot] = "Free"] /\ Closed' = Closed \ {mslot}
    BY <1>a, <1>b, <2>2 DEF Closed
  <2> QED
    BY <2>1, <2>3 DEF Walk!Free
<1>2. ASSUME ~F(mslot), state[mslot] # "Free",
             NEW st \in {state[mslot], "Secure"}, state' = [state EXCEPT ![mslot] = st],
             closing' \in {closing, [closing EXCEPT ![mslot] = TRUE]}
      PROVE  Walk!Serve
  <2>1. Phase[mslot] = state[mslot] /\ Phase' = [Phase EXCEPT ![mslot] = st]
    BY <1>a, <1>b, <1>2
  <2>2. Closed' \in {Closed, Closed \cup {mslot}}
    <3>1. st # "Free"
      BY <1>2
    <3>2. CASE closing' = closing
      BY <1>a, <1>2, <3>1, <3>2 DEF Closed
    <3>3. CASE closing' = [closing EXCEPT ![mslot] = TRUE]
      BY <1>a, <1>2, <3>1, <3>3 DEF Closed
    <3> QED
      BY <1>2, <3>2, <3>3
  <2> QED
    BY <1>2, <2>1, <2>2 DEF Walk!Serve
<1>3. CASE MParseBadHead \/ MParseFrames \/ MParseShutDown
  <2>1. /\ ~F(mslot) /\ state[mslot] # "Free"
        /\ closing' \in {closing, [closing EXCEPT ![mslot] = TRUE]}
    BY <1>3, <1>a DEF MParseBadHead, MParseFrames, MParseShutDown, MParsing, ShutDown
  <2>2. \E st \in {state[mslot], "Secure"} : state' = [state EXCEPT ![mslot] = st]
    BY <1>3 DEF MParseBadHead, MParseFrames, MParseShutDown
  <2> QED
    BY <1>2, <2>1, <2>2
<1>4. CASE MSendFails \/ (MCheckOpen /\ late[mslot])
  <2>1. /\ ~F(mslot) /\ state[mslot] # "Free" /\ UNCHANGED state
        /\ closing' \in {closing, [closing EXCEPT ![mslot] = TRUE]}
    BY <1>4, <1>a DEF MCheckOpen, MSendFails, MSending, ShutDown
  <2>2. state' = [state EXCEPT ![mslot] = state[mslot]]
    BY <1>a, <2>1
  <2> QED
    BY <1>2, <2>1, <2>2
<1>5. CASE \/ MSkip \/ MCheckClosing \/ (MCheckOpen /\ ~late[mslot]) \/ MUncount \/ MRelease
           \/ MParseEnter \/ MParseNone \/ MParseEnd \/ MParseRejected \/ MSendNone \/ MSend
  <2>1. UNCHANGED <<state, closing>>
    BY <1>5 DEF MSkip, MCheckClosing, MCheckOpen, MUncount, MRelease, MParseEnter, MParseNone,
       MParseEnd, MParseRejected, MSendNone, MSend
  <2>2. Phase' = Phase /\ Closed' = Closed
    BY <1>a, <1>b, <2>1 DEF Closed
  <2> QED
    BY <2>2 DEF Walk!Stay
<1> QED
  BY <1>1, <1>3, <1>4, <1>5 DEF MainStep

(* The two threads of the life cycle keep to what SlotWalk allows them: no *)
(* slot in use is taken or reset by the worker, none is freed before it    *)
(* was shut down, and the walk changes nothing but the slot it is at.      *)
THEOREM ConnImplementsWalk ==
  ASSUME OneWorker
  PROVE  Spec => WalkSlots
<1>1. OwnershipInv /\ [Next]_vars => [Walk!Next]_<<Phase, Closed, mslot>>
  <2> SUFFICES ASSUME OwnershipInv, [Next]_vars
               PROVE  [Walk!Next]_<<Phase, Closed, mslot>>
    OBVIOUS
  <2>1. CASE (\E s \in Slots : Tick(s)) \/ UNCHANGED vars
    BY <2>1 DEF Tick, vars, slotVars, wVars, mVars, Phase, Closed, Filling
  <2> QED
    BY <2>1, WorkerWalks, MainWalks DEF Next
<1>2. ConnInv => OwnershipInv
  BY DEF ConnInv
<1> QED
  BY <1>1, <1>2, WalkInit, ConnSafe, PTL DEF Spec, WalkSlots, Walk!Spec
=============================================================================
