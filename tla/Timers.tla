------------------------------- MODULE Timers -------------------------------
(***************************************************************************)
(* Timer messages.  A thread owns a hidden window; on WM_TIMER it posts a  *)
(* completion without an OVERLAPPED to the port and queues a DataContext,  *)
(* in this order.  A worker that dequeues such a completion takes the      *)
(* oldest context, whichever it is, to the registered container, which     *)
(* kills the timer.  The main thread registers the container after it has  *)
(* started the other threads.                                              *)
(*                                                                         *)
(* There is one timer, so contexts are counted, not told apart.            *)
(***************************************************************************)
EXTENDS Integers, FiniteSets

CONSTANTS
  Workers,  \* runServer(1) starts one, the engine at most ten
  TickMax   \* bound on the WM_TIMERs

ASSUME TimersOK ==
  /\ IsFiniteSet(Workers)
  /\ TickMax \in Nat

VARIABLES
  window,      \* "setup", "up" or "failed": m_hWindow and its thread
  timerOn,     \* Windows runs the timer
  due, ticks,  \* a WM_TIMER is pending; how many there were
  adding,      \* window thread between the post and the push of addData
  notices,     \* completions in the port
  queue,       \* contexts in __DataQueue
  missed,      \* notices that found no context
  wpc,         \* worker: "idle", "notice", "pop", "call", "stuck", "crashed"
  registered,  \* __TimerContainer is not empty
  handled      \* calls of AppLogin::onTimerMessage

wVars == <<timerOn, due, ticks, window>>
vars == <<wVars, adding, notices, queue, missed, wpc, registered, handled>>

Init ==
  /\ window = "setup"
  /\ timerOn = FALSE /\ due = FALSE /\ ticks = 0
  /\ adding = FALSE
  /\ notices = 0 /\ queue = 0 /\ missed = 0
  /\ wpc = [w \in Workers |-> "idle"]
  /\ registered = FALSE
  /\ handled = 0
-----------------------------------------------------------------------------
(* Window thread: create the window and set the timer, or give up.  The    *)
(* SetTimer of runThread sets the same timer or comes too early.           *)
Setup ==
  /\ window = "setup"
  /\ \/ window' = "up" /\ timerOn' = TRUE
     \/ window' = "failed" /\ UNCHANGED timerOn
  /\ UNCHANGED <<due, ticks, adding, notices, queue, missed, wpc, registered,
                 handled>>

(* Windows: a period ends.  One WM_TIMER at most is pending, so a period    *)
(* that ends while one is has no effect.                                   *)
Elapse ==
  /\ timerOn /\ ~due
  /\ ticks < TickMax
  /\ due' = TRUE
  /\ ticks' = ticks + 1
  /\ UNCHANGED <<window, timerOn, adding, notices, queue, missed, wpc,
                 registered, handled>>

(* WM_TIMER, WindowTimerMessage, addData up to the post *)
Post ==
  /\ window = "up" /\ due /\ ~adding
  /\ due' = FALSE
  /\ adding' = TRUE
  /\ notices' = notices + 1
  /\ UNCHANGED <<window, timerOn, ticks, queue, missed, wpc, registered,
                 handled>>

(* Mutant: the context is queued twice. *)
PushTwice ==
  /\ adding
  /\ adding' = FALSE
  /\ queue' = queue + 2
  /\ UNCHANGED <<wVars, notices, missed, wpc, registered, handled>>

(* ... and the push *)
Push ==
  /\ adding
  /\ adding' = FALSE
  /\ queue' = queue + 1
  /\ UNCHANGED <<wVars, notices, missed, wpc, registered, handled>>
-----------------------------------------------------------------------------
WGoto(w, pc) == wpc' = [wpc EXCEPT ![w] = pc]

(* GetQueuedCompletionStatus: bytes, but no OVERLAPPED *)
Dequeue(w) ==
  /\ wpc[w] = "idle"
  /\ notices > 0
  /\ notices' = notices - 1
  /\ WGoto(w, "notice")
  /\ UNCHANGED <<wVars, adding, queue, missed, registered, handled>>

(* Mutant: one context is taken for none. *)
CountOffByOne(w) ==
  /\ wpc[w] = "notice"
  /\ IF queue > 1
     THEN WGoto(w, "pop") /\ UNCHANGED missed
     ELSE WGoto(w, "idle") /\ missed' = missed + 1
  /\ UNCHANGED <<wVars, adding, notices, queue, registered, handled>>

(* Mutant: the timer is killed although no context was found. *)
CountKills(w) ==
  /\ wpc[w] = "notice"
  /\ IF queue > 0
     THEN WGoto(w, "pop") /\ UNCHANGED <<missed, timerOn>>
     ELSE WGoto(w, "idle") /\ missed' = missed + 1 /\ timerOn' = FALSE
  /\ UNCHANGED <<window, due, ticks, adding, notices, queue, registered,
                 handled>>

(* getCount(): without a context the notice is dropped. *)
Count(w) ==
  /\ wpc[w] = "notice"
  /\ IF queue > 0
     THEN WGoto(w, "pop") /\ UNCHANGED missed
     ELSE WGoto(w, "idle") /\ missed' = missed + 1
  /\ UNCHANGED <<wVars, adding, notices, queue, registered, handled>>

(* Mutant: popTimer trusts the count it was given. *)
PopUntested(w) ==
  /\ wpc[w] = "pop"
  /\ WGoto(w, "call") /\ queue' = queue - 1
  /\ UNCHANGED <<wVars, adding, notices, registered, handled, missed>>

(* popTimer(): another worker may have been faster. *)
Pop(w) ==
  /\ wpc[w] = "pop"
  /\ IF queue > 0
     THEN WGoto(w, "call") /\ queue' = queue - 1 /\ UNCHANGED missed
     ELSE WGoto(w, "idle") /\ missed' = missed + 1 /\ UNCHANGED queue
  /\ UNCHANGED <<wVars, adding, notices, registered, handled>>

(* TcpServer::onTimerMessage spins in "while (it == end());" on the        *)
(* iterator of an empty vector.  Otherwise the container's handler kills   *)
(* the timer (Windows may refuse: the window is another thread's); the     *)
(* context is not freed.                                                   *)
Call(w) ==
  /\ wpc[w] = "call"
  /\ \/ /\ ~registered
        /\ WGoto(w, "stuck")
        /\ UNCHANGED <<timerOn, handled>>
     \/ /\ registered
        /\ WGoto(w, "idle")
        /\ handled' = handled + 1
        /\ timerOn' \in {timerOn, FALSE}
  /\ UNCHANGED <<window, due, ticks, adding, notices, queue, missed,
                 registered>>

(* The spin ends when a container is registered, if the build reads end()  *)
(* again, and the old iterator, a null pointer, is dereferenced: the       *)
(* process is gone.                                                        *)
Crash(w) ==
  /\ wpc[w] = "stuck"
  /\ registered
  /\ WGoto(w, "crashed")
  /\ UNCHANGED <<wVars, adding, notices, queue, missed, registered, handled>>

(* Main thread: registerTimerContainer *)
Register ==
  /\ ~registered
  /\ registered' = TRUE
  /\ UNCHANGED <<wVars, adding, notices, queue, missed, wpc, handled>>

Worker(w) == Dequeue(w) \/ Count(w) \/ Pop(w) \/ Call(w)

Running == \A w \in Workers : wpc[w] # "crashed"

Next ==
  /\ Running
  /\ \/ Setup \/ Elapse \/ Post \/ Push \/ Register
     \/ \E w \in Workers : Worker(w) \/ Crash(w)

Spec == Init /\ [][Next]_vars

(* Windows runs a timer that is set; every thread runs on while the        *)
(* process does.                                                           *)
FairSpec ==
  /\ Spec
  /\ WF_vars(Running /\ Setup) /\ WF_vars(Running /\ Elapse)
  /\ WF_vars(Running /\ Post) /\ WF_vars(Running /\ Push)
  /\ \A w \in Workers : WF_vars(Running /\ Worker(w))
-----------------------------------------------------------------------------
WorkerPCs == {"idle", "notice", "pop", "call", "stuck", "crashed"}

(* Every variable has its type. *)
TimersTypeOK ==
  /\ window \in {"setup", "up", "failed"}
  /\ timerOn \in BOOLEAN /\ due \in BOOLEAN /\ ticks \in 0 .. TickMax
  /\ adding \in BOOLEAN
  /\ notices \in Nat /\ queue \in Nat /\ missed \in Nat
  /\ wpc \in [Workers -> WorkerPCs]
  /\ registered \in BOOLEAN
  /\ handled \in Nat

(* Workers that hold a notice and no context yet *)
Holding == {w \in Workers : wpc[w] \in {"notice", "pop"}}

(* Contexts and notices balance: every context is in the queue, or about   *)
(* to be, for a notice in the port, in a worker's hands, or missed.        *)
ContextsConserved ==
  queue + (IF adding THEN 1 ELSE 0) = notices + Cardinality(Holding) + missed

(* However the threads interleave, the completion posted before the push   *)
(* is missed at most once in the life of the server: one context stays     *)
(* behind, and from then on every notice finds one.                        *)
OneLeftBehind == missed <= 1

(* Once the window is up a timer message reaches the container, in spite   *)
(* of a missed notice, unless a worker was caught by the empty list of     *)
(* containers: then it spins, or the process has crashed.                  *)
FirstTickHandled ==
  window = "up" ~>
    handled > 0 \/ \E w \in Workers : wpc[w] \in {"stuck", "crashed"}
=============================================================================
