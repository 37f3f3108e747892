--------------------------- MODULE Session_proofs ---------------------------
(***************************************************************************)
(* Theorems about Session, for any number of slots and ids, any contents   *)
(* of the fresh tables and any number of repeated handshakes.              *)
(***************************************************************************)
EXTENDS Session, FiniteSetTheorems, TLAPS

LEMMA ShutDownType ==
  ASSUME SessionTypeOK, NEW s \in Slots, ShutDown(s)
  PROVE  /\ closing' \in [Slots -> BOOLEAN]
         /\ keyed' \in [Slots -> BOOLEAN]
BY DEF SessionTypeOK, ShutDown

LEMMA AdvanceType ==
  ASSUME at \in Slots, Advance
  PROVE  at' \in 1 .. MaxConnect + 1 /\ parsing' = FALSE
BY SessionOK DEF Advance, Slots

LEMMA TypeInit == ASSUME Init PROVE SessionTypeOK
<1>1. clientID \in [Slots -> AllIds]
  BY DEF Init, AllIds
<1>2. isServer \in [Slots -> BOOLEAN]
  BY DEF Init
<1>3. ustate \in [Users -> UserStates]
  BY DEF Init, UserStates
<1>4. at \in 1 .. MaxConnect + 1
  BY SessionOK DEF Init
<1> QED
  <2>1. /\ state \in [Slots -> {"Free", "Connect", "Secure"}]
        /\ closing \in [Slots -> BOOLEAN]
        /\ keyed \in [Slots -> BOOLEAN]
    BY DEF Init
  <2>2. /\ registry \in [RegIds -> Slots \cup {NoSlot}]
        /\ uid \in [Users -> Slots \cup {NoSlot}]
    BY DEF Init
  <2>3. /\ secCount \in Int /\ repeats \in Nat
        /\ parsing = FALSE
    BY DEF Init
  <2> QED
    BY <1>1, <1>2, <1>3, <1>4, <2>1, <2>2, <2>3 DEF SessionTypeOK

LEMMA TypeStep ==
  ASSUME SessionTypeOK, [Next]_vars
  PROVE  SessionTypeOK'
<1> USE SessionOK
<1>1. ASSUME NEW s \in Slots, Accept(s) PROVE SessionTypeOK'
  BY <1>1 DEF Accept, SessionTypeOK, idVars, userVars, mainVars
<1>2. ASSUME NEW s \in Slots, Lost(s) PROVE SessionTypeOK'
  <2>1. PICK k \in {keyed[s], FALSE} : keyed' = [keyed EXCEPT ![s] = k]
    BY <1>2 DEF Lost
  <2>2. k \in BOOLEAN
    BY <2>1 DEF SessionTypeOK
  <2> QED
    BY <1>2, <2>1, <2>2 DEF Lost, SessionTypeOK, idVars, userVars, mainVars
<1>3. CASE Skip
  BY <1>3, AdvanceType DEF Skip, SessionTypeOK, connVars, idVars, userVars
<1>4. CASE Close
  <2>1. secCount' \in Int
    BY <1>4 DEF Close, SessionTypeOK
  <2>2. registry' \in [RegIds -> Slots \cup {NoSlot}]
    BY <1>4 DEF Close, SessionTypeOK
  <2> QED
    BY <1>4, <2>1, <2>2, AdvanceType DEF Close, SessionTypeOK, userVars
<1>5. CASE WaitOrTimeOut
  BY <1>5, ShutDownType, AdvanceType
     DEF WaitOrTimeOut, SessionTypeOK, idVars, userVars
<1>6. CASE Enter
  BY <1>6 DEF Enter, SessionTypeOK, connVars, idVars, userVars
<1>7. ASSUME NEW id \in Ids, NEW server \in BOOLEAN, Handshake(id, server)
      PROVE  SessionTypeOK'
  <2>1. at \in Slots
    BY <1>7 DEF Handshake, HasFrame, SessionTypeOK
  <2>2. registry' \in [RegIds -> Slots \cup {NoSlot}]
    BY <1>7, <2>1 DEF Handshake, SessionTypeOK
  <2>3. /\ secCount' \in Int
        /\ repeats' \in Nat
    BY <1>7 DEF Handshake, SessionTypeOK
  <2>4. /\ closing' \in [Slots -> BOOLEAN]
        /\ keyed' \in [Slots -> BOOLEAN]
    BY <1>7, <2>1, ShutDownType DEF Handshake, SessionTypeOK
  <2> QED
    BY <1>7, <2>1, <2>2, <2>3, <2>4
       DEF Handshake, SessionTypeOK, AllIds, userVars, mainVars
<1>8. CASE LoginRefused
  BY <1>8, ShutDownType, AdvanceType
     DEF LoginRefused, HasFrame, SessionTypeOK, idVars, userVars
<1>9. CASE Login
  BY <1>9, ShutDownType DEF Login, HasFrame, SessionTypeOK, UserStates,
                            idVars, mainVars
<1>10. CASE Leave
  <2>1. at \in Slots
    BY <1>10 DEF Leave, SessionTypeOK
  <2>2. /\ closing' \in [Slots -> BOOLEAN]
        /\ keyed' \in [Slots -> BOOLEAN]
    BY <1>10, <2>1, ShutDownType DEF Leave, SessionTypeOK
  <2> QED
    BY <1>10, <2>1, <2>2, AdvanceType
       DEF Leave, SessionTypeOK, idVars, userVars
<1>11. CASE Match
  BY <1>11 DEF Match, SessionTypeOK, UserStates, connVars, idVars, Slots
<1>12. CASE UNCHANGED vars
  BY <1>12 DEF SessionTypeOK, vars, connVars, idVars, userVars, mainVars
<1> QED
  BY <1>1, <1>2, <1>3, <1>4, <1>5, <1>6, <1>7, <1>8, <1>9, <1>10, <1>11, <1>12
     DEF Next, Worker, Main

(* Every variable keeps its type. *)
THEOREM SessionTypeCorrect == Spec => []SessionTypeOK
<1>1. Init => SessionTypeOK
  BY TypeInit
<1>2. SessionTypeOK /\ [Next]_vars => SessionTypeOK'
  BY TypeStep
<1> QED
  BY <1>1, <1>2, PTL DEF Spec
-----------------------------------------------------------------------------
LEMMA SecureFinite == IsFiniteSet(SecureSlots)
<1>1. IsFiniteSet(Slots)
  BY SessionOK, FS_Interval DEF Slots
<1> QED
  BY <1>1, FS_Subset DEF SecureSlots

LEMMA CountInit == ASSUME Init PROVE SecurityCountMatches
<1>1. SecureSlots = {}
  BY DEF Init, SecureSlots
<1> QED
  BY <1>1, FS_EmptySet DEF Init, SecurityCountMatches

(* A step changes the count when it changes the set, and by as much. *)
LEMMA CountStep ==
  ASSUME SessionTypeOK, SecurityCountMatches, [Next]_vars
  PROVE  SecurityCountMatches'
<1> USE SessionOK
<1>a. IsFiniteSet(SecureSlots)
  BY SecureFinite
<1>b. Cardinality(SecureSlots) \in Nat
  BY <1>a, FS_CardinalityType
<1>c. ASSUME UNCHANGED <<secCount, repeats>>, SecureSlots' = SecureSlots
      PROVE  SecurityCountMatches'
  BY <1>c DEF SecurityCountMatches
<1>1. ASSUME NEW s \in Slots, Accept(s) PROVE SecurityCountMatches'
  <2>1. SecureSlots' = SecureSlots
    BY <1>1 DEF Accept, SecureSlots, SessionTypeOK
  <2> QED
    BY <1>1, <2>1, <1>c DEF Accept, idVars
<1>2. CASE Close
  <2>1. at \in Slots
    BY <1>2 DEF Close
  <2>2. SecureSlots' = SecureSlots \ {at}
    BY <1>2 DEF Close, SecureSlots, SessionTypeOK
  <2>3. CASE state[at] = "Secure"
    <3>1. at \in SecureSlots
      BY <2>1, <2>3 DEF SecureSlots
    <3>2. Cardinality(SecureSlots') = Cardinality(SecureSlots) - 1
      BY <2>2, <3>1, <1>a, FS_RemoveElement
    <3> QED
      BY <1>2, <2>3, <3>2, <1>b
         DEF Close, SecurityCountMatches, SessionTypeOK
  <2>4. CASE state[at] # "Secure"
    <3>1. SecureSlots' = SecureSlots
      BY <2>2, <2>4 DEF SecureSlots
    <3> QED
      BY <1>2, <2>4, <3>1, <1>c DEF Close
  <2> QED
    BY <2>3, <2>4
<1>3. ASSUME NEW id \in Ids, NEW server \in BOOLEAN, Handshake(id, server)
      PROVE  SecurityCountMatches'
  <2>1. at \in Slots
    BY <1>3 DEF Handshake, HasFrame, SessionTypeOK
  <2>2. SecureSlots' = SecureSlots \cup {at}
    BY <1>3, <2>1 DEF Handshake, SecureSlots, SessionTypeOK
  <2>3. CASE state[at] = "Secure"
    <3>1. SecureSlots' = SecureSlots
      BY <2>1, <2>2, <2>3 DEF SecureSlots
    <3> QED
      BY <1>3, <2>3, <3>1, <1>b DEF Handshake, SecurityCountMatches,
                                    SessionTypeOK
  <2>4. CASE state[at] # "Secure"
    <3>1. at \notin SecureSlots
      BY <2>4 DEF SecureSlots
    <3>2. Cardinality(SecureSlots') = Cardinality(SecureSlots) + 1
      BY <2>2, <3>1, <1>a, FS_AddElement
    <3> QED
      BY <1>3, <2>4, <3>2, <1>b DEF Handshake, SecurityCountMatches,
                                    SessionTypeOK
  <2> QED
    BY <2>3, <2>4
<1>4. CASE UNCHANGED <<state, secCount, repeats>>
  <2>1. SecureSlots' = SecureSlots
    BY <1>4 DEF SecureSlots
  <2> QED
    BY <1>4, <2>1, <1>c
<1> QED
  BY <1>1, <1>2, <1>3, <1>4
     DEF Next, Worker, Main, Lost, Skip, WaitOrTimeOut, Enter, LoginRefused,
         Login, Leave, Match, vars, connVars, idVars

(* m_SecurityCount exceeds the number of secure clients by exactly the     *)
(* repeated handshakes.                                                    *)
THEOREM SecurityCountExact == Spec => []SecurityCountMatches
<1>1. Init => SecurityCountMatches
  BY CountInit
<1>2. SessionTypeOK /\ SecurityCountMatches /\ [Next]_vars
        => SecurityCountMatches'
  BY CountStep
<1> QED
  BY <1>1, <1>2, SessionTypeCorrect, PTL DEF Spec
-----------------------------------------------------------------------------
LEMMA RegistryStep ==
  ASSUME SessionTypeOK, RegistryBound, [Next]_vars
  PROVE  RegistryBound'
<1> USE SessionOK
<1>1. ASSUME NEW s \in Slots, Accept(s) PROVE RegistryBound'
  BY <1>1 DEF Accept, RegistryBound, SessionTypeOK, NoSlot, idVars
<1>2. CASE Close
  <2> SUFFICES ASSUME repeats' = 0,
                      NEW i \in RegIds, registry'[i] # NoSlot
               PROVE  /\ state'[registry'[i]] = "Secure"
                      /\ clientID'[registry'[i]] = i
    BY DEF RegistryBound
  <2>1. i # clientID[at] /\ registry'[i] = registry[i]
    BY <1>2 DEF Close
  <2>2. /\ state[registry[i]] = "Secure"
        /\ clientID[registry[i]] = i
    BY <1>2, <2>1 DEF Close, RegistryBound
  <2>3. registry[i] # at
    BY <2>1, <2>2
  <2> QED
    BY <1>2, <2>1, <2>2, <2>3 DEF Close, SessionTypeOK
<1>3. ASSUME NEW id \in Ids, NEW server \in BOOLEAN, Handshake(id, server)
      PROVE  RegistryBound'
  <2> SUFFICES ASSUME repeats' = 0,
                      NEW i \in RegIds, registry'[i] # NoSlot
               PROVE  /\ state'[registry'[i]] = "Secure"
                      /\ clientID'[registry'[i]] = i
    BY DEF RegistryBound
  <2>1. at \in Slots
    BY <1>3 DEF Handshake, HasFrame, SessionTypeOK
  <2>2. state[at] # "Secure" /\ repeats = 0
    BY <1>3 DEF Handshake, SessionTypeOK
  <2>3. CASE registry'[i] = registry[i]
    <3>1. /\ state[registry[i]] = "Secure"
          /\ clientID[registry[i]] = i
      BY <2>2, <2>3 DEF RegistryBound
    <3>2. registry[i] # at
      BY <2>2, <3>1
    <3> QED
      BY <1>3, <2>3, <3>1, <3>2 DEF Handshake, SessionTypeOK
  <2>4. CASE registry'[i] # registry[i]
    <3>1. i = id /\ registry'[i] = at
      BY <1>3, <2>4 DEF Handshake
    <3> QED
      BY <1>3, <2>1, <3>1 DEF Handshake, SessionTypeOK
  <2> QED
    BY <2>3, <2>4
<1>4. CASE UNCHANGED <<state, clientID, registry, repeats>>
  BY <1>4 DEF RegistryBound
<1> QED
  BY <1>1, <1>2, <1>3, <1>4
     DEF Next, Worker, Main, Lost, Skip, WaitOrTimeOut, Enter, LoginRefused,
         Login, Leave, Match, vars, connVars, idVars

(* Without repeated handshakes no entry of the registry points at a slot   *)
(* that was freed or has a new owner.                                      *)
THEOREM RegistryNeverStale == Spec => []RegistryBound
<1>1. Init => RegistryBound
  BY DEF Init, RegistryBound
<1>2. SessionTypeOK /\ RegistryBound /\ [Next]_vars
        => RegistryBound'
  BY RegistryStep
<1> QED
  BY <1>1, <1>2, SessionTypeCorrect, PTL DEF Spec
-----------------------------------------------------------------------------
(* The pairing pass leaves at most one user waiting. *)
LEMMA MatchStep ==
  ASSUME SessionTypeOK, [Next]_vars, at' < at
  PROVE  Cardinality(Waiting') <= 1
<1>1. Match
  <2>1. ASSUME at' = at \/ at' = at + 1 PROVE FALSE
    BY <2>1 DEF SessionTypeOK
  <2> QED
    BY <2>1 DEF Next, Worker, Main, Accept, Lost, Skip, Close, WaitOrTimeOut,
                Enter, Handshake, LoginRefused, Login, Leave, Advance, vars,
                mainVars
<1>2. ASSUME NEW u \in Waiting' PROVE Waiting' = {u}
  <2>1. ustate'[u] = "wait" /\ u \in Users
    BY <1>2 DEF Waiting
  <2>2. u \in Waiting /\ Waiting = {u}
    BY <1>1, <2>1 DEF Match, Waiting
  <2> QED
    BY <1>1, <1>2, <2>2 DEF Match, Waiting
<1>3. CASE Waiting' = {}
  BY <1>3, FS_EmptySet
<1>4. ASSUME NEW u \in Waiting' PROVE Cardinality(Waiting') <= 1
  BY <1>2, <1>4, FS_Singleton
<1> QED
  BY <1>3, <1>4

(* In every pass the pairing leaves at most one user waiting. *)
THEOREM PairingComplete == Spec => MatchLeavesOne
<1>1. SessionTypeOK /\ [Next]_vars
        => [at' < at => Cardinality(Waiting') <= 1]_vars
  BY MatchStep
<1> QED
  BY <1>1, SessionTypeCorrect, PTL DEF Spec, MatchLeavesOne
-----------------------------------------------------------------------------
(* The walk over the slots.                                                *)

(* Only a slot in use is closing. *)
ClosingInUse == \A s \in Slots : closing[s] => state[s] # "Free"

LEMMA WalkInit == Init => Walk!Init /\ ClosingInUse
BY SessionOK DEF Init, Walk!Init, Walk!Slots, Slots, Closed, WalkAt, ClosingInUse

LEMMA ClosingStep ==
  ASSUME SessionTypeOK, ClosingInUse, [Next]_vars
  PROVE  ClosingInUse'
<1> USE DEF SessionTypeOK, ClosingInUse, connVars
<1>1. CASE Worker
  BY <1>1 DEF Worker, Accept, Lost
<1>2. CASE Close
  BY <1>2 DEF Close
<1>3. CASE WaitOrTimeOut \/ LoginRefused \/ Login \/ Leave
  BY <1>3 DEF WaitOrTimeOut, LoginRefused, Login, Leave, HasFrame, ShutDown
<1>4. ASSUME NEW id \in Ids, NEW server \in BOOLEAN, Handshake(id, server)
      PROVE  ClosingInUse'
  BY <1>4 DEF Handshake, HasFrame, ShutDown
<1>5. CASE Skip \/ Enter \/ Match \/ UNCHANGED vars
  BY <1>5 DEF Skip, Enter, Match, vars
<1> QED
  BY <1>1, <1>2, <1>3, <1>4, <1>5 DEF Next, Main

LEMMA AdvanceWalks ==
  ASSUME at \in Slots, Advance
  PROVE  WalkAt' \in {WalkAt, IF WalkAt = MaxConnect THEN 1 ELSE WalkAt + 1}
BY SessionOK DEF Advance, WalkAt, Slots

(* A client that is served, and perhaps shut down. *)
LEMMA ServeWalks ==
  ASSUME SessionTypeOK, at \in Slots, state[at] # "Free",
         NEW st \in {state[at], "Secure"}, state' = [state EXCEPT ![at] = st],
         UNCHANGED <<closing, keyed>> \/ ShutDown(at),
         WalkAt' \in {WalkAt, IF WalkAt = MaxConnect THEN 1 ELSE WalkAt + 1}
  PROVE  Walk!Next
<1>1. Closed' \in {Closed, Closed \cup {at}}
  BY DEF ShutDown, SessionTypeOK, Closed
<1>2. Walk!Serve
  BY <1>1 DEF Walk!Serve, WalkAt
<1> QED
  BY <1>2 DEF Walk!Next, Walk!Main

LEMMA SessionWalks ==
  ASSUME SessionTypeOK, ClosingInUse, [Next]_vars
  PROVE  [Walk!Next]_<<state, Closed, WalkAt>>
<1> USE DEF connVars, idVars, userVars, mainVars
<1>1. ASSUME NEW s \in Slots, Accept(s) PROVE Walk!Next
  <2>1. /\ state[s] = "Free" /\ state' = [state EXCEPT ![s] = "Connect"]
        /\ Closed' = Closed /\ WalkAt' = WalkAt
    BY <1>1 DEF Accept, WalkAt, Closed, ClosingInUse, SessionTypeOK
  <2> QED
    BY <2>1 DEF Walk!Next, Walk!Open, Walk!Slots, Slots
<1>2. ASSUME NEW s \in Slots, Lost(s) PROVE Walk!Next
  <2>1. /\ state[s] # "Free" /\ state' = state
        /\ Closed' = Closed \cup {s} /\ WalkAt' = WalkAt
    BY <1>2 DEF Lost, WalkAt, Closed, SessionTypeOK
  <2> QED
    BY <2>1 DEF Walk!Next, Walk!Lose, Walk!Slots, Slots
<1>3. CASE Close
  <2>1. /\ at \in Closed /\ WalkAt = at /\ state' = [state EXCEPT ![at] = "Free"]
        /\ Closed' = Closed \ {at}
    BY <1>3 DEF Close, Closed, WalkAt, SessionTypeOK
  <2>2. WalkAt' \in {WalkAt, IF WalkAt = MaxConnect THEN 1 ELSE WalkAt + 1}
    BY <1>3, AdvanceWalks DEF Close
  <2> QED
    BY <2>1, <2>2 DEF Walk!Next, Walk!Main, Walk!Free
<1>4. CASE WaitOrTimeOut \/ LoginRefused \/ Login \/ Leave
  <2>1. /\ at \in Slots /\ state[at] # "Free"
        /\ state' = [state EXCEPT ![at] = state[at]]
        /\ UNCHANGED <<closing, keyed>> \/ ShutDown(at)
        /\ Advance \/ at' = at
    BY <1>4 DEF WaitOrTimeOut, LoginRefused, Login, Leave, HasFrame, SessionTypeOK
  <2>2. WalkAt' \in {WalkAt, IF WalkAt = MaxConnect THEN 1 ELSE WalkAt + 1}
    BY <2>1, AdvanceWalks DEF WalkAt
  <2> QED
    BY <2>1, <2>2, ServeWalks
<1>5. ASSUME NEW id \in Ids, NEW server \in BOOLEAN, Handshake(id, server)
      PROVE  Walk!Next
  <2>1. /\ at \in Slots /\ state[at] # "Free"
        /\ state' = [state EXCEPT ![at] = "Secure"]
        /\ UNCHANGED <<closing, keyed>> \/ ShutDown(at)
        /\ WalkAt' = WalkAt
    BY <1>5 DEF Handshake, HasFrame, SessionTypeOK, WalkAt
  <2> QED
    BY <2>1, ServeWalks
<1>6. CASE Skip
  <2>1. at \in Slots /\ Advance /\ state' = state /\ Closed' = Closed
    BY <1>6 DEF Skip, Closed
  <2> QED
    BY <2>1, AdvanceWalks DEF Walk!Next, Walk!Main, Walk!Stay
<1>7. CASE Enter \/ Match \/ UNCHANGED vars
  <2>1. state' = state /\ Closed' = Closed
    BY <1>7 DEF Enter, Match, vars, Closed
  <2>2. WalkAt' = WalkAt
    BY <1>7, SessionOK DEF Enter, Match, vars, WalkAt, Slots
  <2> QED
    BY <2>1, <2>2
<1> QED
  BY <1>1, <1>2, <1>3, <1>4, <1>5, <1>6, <1>7 DEF Next, Worker, Main

(* The bookkeeping sees the slots as the life cycle leaves them: closeSock-*)
(* et frees none that was not shut down, and a handler serves only the     *)
(* slot the walk is at, whatever the worker accepts and loses meanwhile.   *)
THEOREM SessionImplementsWalk == Spec => WalkSlots
<1>1. SessionTypeOK /\ ClosingInUse /\ [Next]_vars => ClosingInUse'
  BY ClosingStep
<1>2. SessionTypeOK /\ ClosingInUse /\ [Next]_vars
        => [Walk!Next]_<<state, Closed, WalkAt>>
  BY SessionWalks
<1> QED
  BY <1>1, <1>2, WalkInit, SessionTypeCorrect, PTL DEF Spec, WalkSlots, Walk!Spec
=============================================================================
