--------------------------- MODULE Timers_proofs ---------------------------
(***************************************************************************)
(* Theorems about Timers, for any number of workers and periods.  The      *)
(* balance of contexts and notices is inductive by itself; that at most    *)
(* one context stays behind follows from it, because a notice is missed    *)
(* only when the queue is empty.                                           *)
(***************************************************************************)
EXTENDS Timers, FiniteSetTheorems, TLAPS

LEMMA TypeStep == ASSUME TimersTypeOK, [Next]_vars PROVE TimersTypeOK'
<1> USE TimersOK DEF TimersTypeOK, WorkerPCs, wVars, WGoto
<1>1. CASE Setup
  BY <1>1 DEF Setup
<1>2. CASE Elapse
  BY <1>2 DEF Elapse
<1>3. CASE Post
  <2>1. notices' \in Nat
    BY <1>3 DEF Post
  <2>2. adding' = TRUE /\ due' = FALSE
    BY <1>3 DEF Post
  <2> QED
    BY <1>3, <2>1, <2>2, Zenon DEF Post
<1>4. CASE Push
  <2>1. queue' \in Nat
    BY <1>4 DEF Push
  <2> QED
    BY <1>4, <2>1, Zenon DEF Push
<1>5. CASE Register
  BY <1>5 DEF Register
<1>6. ASSUME NEW w \in Workers, Dequeue(w) PROVE TimersTypeOK'
  BY <1>6 DEF Dequeue
<1>7. ASSUME NEW w \in Workers, Count(w) PROVE TimersTypeOK'
  BY <1>7 DEF Count
<1>8. ASSUME NEW w \in Workers, Pop(w) PROVE TimersTypeOK'
  BY <1>8 DEF Pop
<1>9. ASSUME NEW w \in Workers, Call(w) PROVE TimersTypeOK'
  <2>4. handled' = handled \/ handled' = handled + 1
    BY <1>9, Zenon DEF Call
  <2>1. handled' \in Nat
    BY <2>4
  <2>3. wpc' \in [Workers -> WorkerPCs]
    BY <1>9, Zenon DEF Call
  <2>2. timerOn' \in BOOLEAN
    BY <1>9, Zenon DEF Call
  <2> QED
    BY <1>9, <2>1, <2>2, <2>3, Zenon DEF Call
<1>10. ASSUME NEW w \in Workers, Crash(w) PROVE TimersTypeOK'
  BY <1>10 DEF Crash
<1>11. CASE UNCHANGED vars
  BY <1>11 DEF vars
<1> QED
  BY <1>1, <1>2, <1>3, <1>4, <1>5, <1>6, <1>7, <1>8, <1>9, <1>10, <1>11
     DEF Next, Worker

(* Every variable keeps its type. *)
THEOREM TimersTypeCorrect == Spec => []TimersTypeOK
<1>1. Init => TimersTypeOK
  <2> SUFFICES ASSUME Init PROVE TimersTypeOK
    OBVIOUS
  <2>1. ticks \in 0 .. TickMax /\ wpc \in [Workers -> WorkerPCs]
    BY TimersOK DEF Init, WorkerPCs
  <2>2. notices \in Nat /\ queue \in Nat /\ missed \in Nat /\ handled \in Nat
    BY DEF Init
  <2> QED
    BY <2>1, <2>2, Zenon DEF Init, TimersTypeOK
<1>2. TimersTypeOK /\ [Next]_vars => TimersTypeOK'
  BY TypeStep
<1> QED
  BY <1>1, <1>2, PTL DEF Spec
-----------------------------------------------------------------------------
LEMMA HoldingFinite ==
  /\ IsFiniteSet(Holding)
  /\ Cardinality(Holding) \in Nat
<1>1. IsFiniteSet(Holding)
  BY TimersOK, FS_Subset DEF Holding
<1> QED
  BY <1>1, FS_CardinalityType

(* A worker that lets go of a notice leaves Holding. *)
LEMMA LetGo ==
  ASSUME NEW w \in Holding, Holding' = Holding \ {w}
  PROVE  Cardinality(Holding') = Cardinality(Holding) - 1
BY HoldingFinite, FS_RemoveElement

LEMMA ConservedStep ==
  ASSUME TimersTypeOK, ContextsConserved, [Next]_vars
  PROVE  ContextsConserved'
<1> USE HoldingFinite DEF TimersTypeOK, ContextsConserved, wVars, WGoto
<1>1. CASE UNCHANGED wpc
  <2>1. Holding' = Holding
    BY <1>1 DEF Holding
  <2>2. CASE Setup \/ Elapse \/ Register \/ UNCHANGED vars
    BY <2>1, <2>2 DEF Setup, Elapse, Register, vars
  <2>3. CASE Post
    BY <2>1, <2>3 DEF Post
  <2>4. CASE Push
    BY <2>1, <2>4 DEF Push
  <2>5. ASSUME NEW w \in Workers, Worker(w) \/ Crash(w) PROVE FALSE
    BY <1>1, <2>5 DEF Worker, Dequeue, Count, Pop, Call, Crash
  <2> QED
    BY <2>2, <2>3, <2>4, <2>5 DEF Next
<1>2. ASSUME NEW w \in Workers, Dequeue(w) PROVE ContextsConserved'
  <2>1. w \notin Holding
    BY <1>2 DEF Dequeue, Holding
  <2>2. Holding' = Holding \cup {w}
    BY <1>2 DEF Dequeue, Holding
  <2>3. Cardinality(Holding') = Cardinality(Holding) + 1
    BY <2>1, <2>2, FS_AddElement
  <2> QED
    BY <1>2, <2>3 DEF Dequeue
<1>3. ASSUME NEW w \in Workers, Count(w) PROVE ContextsConserved'
  <2>1. w \in Holding
    BY <1>3 DEF Count, Holding
  <2>2. CASE queue > 0
    <3>1. Holding' = Holding
      BY <1>3, <2>2 DEF Count, Holding
    <3> QED
      BY <1>3, <2>2, <3>1 DEF Count
  <2>3. CASE ~(queue > 0)
    <3>1. Holding' = Holding \ {w}
      BY <1>3, <2>3 DEF Count, Holding
    <3>2. Cardinality(Holding') = Cardinality(Holding) - 1
      BY <2>1, <3>1, LetGo
    <3> QED
      BY <1>3, <2>3, <3>2 DEF Count
  <2> QED
    BY <2>2, <2>3
<1>4. ASSUME NEW w \in Workers, Pop(w) PROVE ContextsConserved'
  <2>1. w \in Holding
    BY <1>4 DEF Pop, Holding
  <2>2. Holding' = Holding \ {w}
    BY <1>4 DEF Pop, Holding
  <2>3. Cardinality(Holding') = Cardinality(Holding) - 1
    BY <2>1, <2>2, LetGo
  <2> QED
    BY <1>4, <2>3 DEF Pop
<1>5. ASSUME NEW w \in Workers, Call(w) PROVE ContextsConserved'
  <2>1. Holding' = Holding
    BY <1>5 DEF Call, Holding
  <2> QED
    BY <1>5, <2>1 DEF Call
<1>6. ASSUME NEW w \in Workers, Crash(w) PROVE ContextsConserved'
  <2>1. Holding' = Holding
    BY <1>6 DEF Crash, Holding
  <2> QED
    BY <1>6, <2>1 DEF Crash
<1> QED
  BY <1>1, <1>2, <1>3, <1>4, <1>5, <1>6
     DEF Next, Worker, Setup, Elapse, Post, Push, Register, vars

(* Contexts and notices balance. *)
THEOREM ContextsBalance == Spec => []ContextsConserved
<1>1. Init => ContextsConserved
  <2> SUFFICES ASSUME Init PROVE ContextsConserved
    OBVIOUS
  <2>1. Holding = {}
    BY DEF Init, Holding
  <2> QED
    BY <2>1, FS_EmptySet DEF Init, ContextsConserved
<1>2. TimersTypeOK /\ ContextsConserved /\ [Next]_vars => ContextsConserved'
  BY ConservedStep
<1> QED
  BY <1>1, <1>2, TimersTypeCorrect, PTL DEF Spec
-----------------------------------------------------------------------------
(* A notice is missed when the queue is empty: then the balance says that  *)
(* it is the only one and that none was missed before.                     *)
LEMMA MissedStep ==
  ASSUME TimersTypeOK, ContextsConserved, OneLeftBehind, [Next]_vars
  PROVE  OneLeftBehind'
<1> USE HoldingFinite DEF TimersTypeOK, OneLeftBehind
<1>1. CASE UNCHANGED missed
  BY <1>1
<1>2. ASSUME NEW w \in Workers, w \in Holding, queue = 0,
             missed' = missed + 1
      PROVE  OneLeftBehind'
  <2>1. Cardinality(Holding) >= 1
    <3>1. Cardinality(Holding) # 0
      BY <1>2, FS_EmptySet
    <3> QED
      BY <3>1
  <2>2. missed = 0
    BY <1>2, <2>1 DEF ContextsConserved
  <2> QED
    BY <1>2, <2>2
<1>3. ASSUME NEW w \in Workers, Count(w) PROVE OneLeftBehind'
  <2>1. w \in Holding
    BY <1>3 DEF Count, Holding
  <2>2. UNCHANGED missed \/ (queue = 0 /\ missed' = missed + 1)
    BY <1>3 DEF Count
  <2> QED
    BY <1>1, <1>2, <2>1, <2>2
<1>4. ASSUME NEW w \in Workers, Pop(w) PROVE OneLeftBehind'
  <2>1. w \in Holding
    BY <1>4 DEF Pop, Holding
  <2>2. UNCHANGED missed \/ (queue = 0 /\ missed' = missed + 1)
    BY <1>4 DEF Pop
  <2> QED
    BY <1>1, <1>2, <2>1, <2>2
<1> QED
  BY <1>1, <1>3, <1>4
     DEF Next, Worker, Setup, Elapse, Post, Push, Register, Dequeue, Call,
         Crash, vars

(* At most one notice is ever missed. *)
THEOREM MissedOnce == Spec => []OneLeftBehind
<1>1. Init => OneLeftBehind
  BY DEF Init, OneLeftBehind
<1>2. TimersTypeOK /\ ContextsConserved /\ OneLeftBehind /\ [Next]_vars
        => OneLeftBehind'
  BY MissedStep
<1> QED
  BY <1>1, <1>2, TimersTypeCorrect, ContextsBalance, PTL DEF Spec
=============================================================================
