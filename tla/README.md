# A TLA+ model of xiaoxiaoleServer

This directory models the server of the match-three game in `src/`: a Windows
I/O completion port engine (`src/engine`) and the application on top of it
(`src/Server/code`). The modules follow the source file by file and statement
by statement where threads meet, and `PROJECT.json` names, for every definition,
the lines it stands for. Everything below is checked: the runs by TLC on small
instances, the theorems by TLAPS for every value of the constants.

## 1. The system

Four threads touch the state that matters:

| thread | code | what it does |
|---|---|---|
| main | `AppManager::init`, `onUpdate` | every 2 ms walks the client table: close, time out, parse, send; then user and login updates |
| worker (one, `runServer(1)`) | `TcpServer::run` | dequeues completions: accepts, receives, sends, timer ticks |
| timer window | `WindowMsgThread` | turns `WM_TIMER` into completions |
| log | `LogFile.cpp: run` | writes queued records |

They share the client table without locks (the only locks guard the scan in
`getFreeLinker` and the two counters). The order of single statements is the
protocol, and this is what the models are about.

### Inventory

| component | state | operations | what is hard | module |
|---|---|---|---|---|
| Connection life cycle (`TcpServer*.cpp`, `INetBase.cpp`) | `Linkers` (one `S_CLIENT_BASE` per slot), `LinkersIndexs` (handle to slot), `m_ConnectCount` | `postAccept`, `onAccpet`, `onRecv`, `onSend`, `shutDown`, `closeSocket`, `checkConnect`, `parseCommand()`, `getFreeLinker`, `onClientDisconnect` | worker and main thread on one slot; handle values reused while operations are in flight; lost completions; timeouts | `ServerConn` |
| Receive buffer and parser | `recvBuf`, `recv_Head`, `recv_Tail`, `is_RecvCompleted` | `onRecv_SaveData`, `parseCommand(c)` | lock-free producer and consumer; both write `recv_Head`, both write the flag | `RecvBuffer` |
| Send buffer | `sendBuf`, `send_Head`, `send_Tail`, `send_TempTail`, `is_Sending`, `is_SendCompleted` | `SendGameDataMessageLite`, `_send`, `end`, `postSend`, `onSend` | reset of both positions while a send is outstanding; partial frames; the gate | `SendBuffer` |
| Handshake and registry | `rCode`, `clientID`, `m_SecurityCount`, `m_Connection` | greeting, `cmd_security`, `insertClientConnection`, `clearClientConnection` | `rCode` stored after the greeting is published; repeated handshakes; entries of former owners | `Session`, `ClientLink` |
| Timers | window timer, `DataContext` queue, containers | `SetTimer`, `addData`, `onTimerMessage`, `KillTimer` | completion posted before the queue entry; no container registered yet | `Timers` |
| Login and matching (`AppLogin`, `UserManager`) | user table, `__InGameMap` | `onLoginGame`, `checkOnlineUserNotInGame` | users never given back; a user paired twice; `end` without a message | `Session` |
| Log (`LogFile.cpp`) | record pool, queue, `temp_str` | `pushLog`, `run` | pool tested and popped separately; two threads format into one buffer when a client runs | `LogPool` |
| Context pools (`IOPool.cpp`) | concurrent queues | `pop`, `push` | a context released twice or lost | only as "pending operation" in `ServerConn` |
| TcpClient | `S_SERVER_BASE`: state, `rCode`, both buffers, socket | thread `run` (`connectServer`, `onRecv`, reconnect), main thread (`parseCommand`, `onHeart`, `onSend`), both `disconnectServer` | two threads over one unlocked record, either may disconnect while the other is at work | `ClientLink`; not compiled into the server |
| Rooms, configuration, console, base64, MD5 | - | - | not used or pure | not modelled |
| Vendored and generated code | - | - | - | not modelled |

What makes each correct: a socket has one owner; the count is the number of
connections; an open connection always has a receive posted; a closing or stuck
connection is always reclaimed (life cycle). Bytes come out in the order they
went in, each once, none invented, and none is left behind (buffers). The
security count and the registry follow the secure clients (registry); every
tick is handled once (timers); a player has one opponent and its entry is given
back (matching); a record is written once with its own text and in order (log); client
and server agree on the key and on whether the connection is secure, and a client that
loses its connection gets a new one (client).

### Interactions

The life cycle and the buffers are models of the same slots at two levels.
`ServerConn` abstracts a slot's buffers to two facts: data is announced
(`recvCompleted`) and something is unsent (`unsent`). `RecvBuffer` and
`SendBuffer` take one connection apart and abstract the rest of its life to
`closing`. Two assumptions of the buffer modules are properties of
`ServerConn`: one receive outstanding per socket (`OneRecv`) and no second send
while one is outstanding (`SendGate`).

`Session` sees the same slots from the main thread: of the worker's part it keeps
that a free slot may be taken and that a client may be shut down, both at any
moment. That this is all that `ServerConn` lets the worker do to the fields `Session`
reads is not left to the reader: `SlotWalk` says how the slots change hands between
the worker and the walk of the main loop, and both modules are proved to implement it
(`WalkSlots`). `Session` maps its slots directly, `ServerConn` counts a slot as open from its
first receive on, since until then the worker may still take it back.
`Timers` shares nothing with the others but the worker: a worker that is stuck
there serves no connection either.

`ClientLink` composes a client with the server's side of the handshake: it keeps of the
buffers that frames come out in the order they went in (`RecvBuffer` and `SendBuffer` refine
`ByteStream`) and of the slot that it is reset before it is used again (`ServerConn`), and
adds what those leave out, the keys and the peer. `LogPool` is called by every other part
and calls none.

## 2. The modules

**`ServerConn`** One action per stretch of code between two places where the
other thread can change what is read. The worker's program counter `wpc` names
the place in `run`, `onAccpet`, `onRecv`, `onSend` or `shutDown`; the main
thread's `mpc` the place in the loop of `parseCommand()`. A client pointer looked
up in one step is used in the next (`wslot`), when it may belong to someone
else.

- `parseCommand()` reads `closeState` once (`MParseEnter`, program counter `parse`), and only then are
  the slot's frames served (program counter `frames`): a client that the worker shuts down in
  between is still parsed, may still become secure, and is closed in a later pass.
- Windows: `inUse` handles, `posted` operations on the open socket of a handle
  and `orphan` ones posted on a closed earlier one. The kernel may complete any
  operation at any time with any result, so the effect of `shutdown()` and
  `CancelIoEx` is included. `OrphanMax` bounds how many undelivered operations
  a handle value may have when it is reused.
- Data: what a frame does is a choice among the outcomes of `parseCommand(c)`
  (nothing, bad head, rejected, secure, shut down). The clock is the flag
  `late[s]`: the limit of the slot's phase (10 s connecting, `HeartTime`
  secure, 5 s closing) has run out. It does not pass between `getFreeLinker`
  and the first `WSARecv` (a few statements, ten seconds).
- `getFreeLinker` may return any free slot: its scan is not ordered with the
  main thread freeing slots. `Reset` is one step; it writes `state` last.
- `S_Login` and later states are never assigned by the code and are left out.

**`SlotWalk`** What the two threads may do to the client slots: the worker opens free ones
and shuts connections down; the main loop goes from slot to slot and, at the one it is at,
serves (perhaps the frame that makes it secure), shuts down, or frees what was shut down.

**`ByteStream`** What either buffer promises: `Put(n)`, `Get(n)`; the bytes taken
are the next ones of the stream.

**`RecvBuffer`** Each access of the worker (`onRecv`, `onRecv_SaveData`) and of the
main thread (`parseCommand(c)`) to the positions, the flag and the bytes is a
step, in source order (the x86 compiler and processor keep it). The unit of
length is the eight bytes that the loop test asks for; the ten bytes of a frame's
head are its first unit and the beginning of its second, so that a frame has two
units at least. The client is one that frames its stream correctly; a cell of the
buffer holds the number of a unit of the stream, so reading a stale one is visible.
`ReadHead` reads the mark, length and command of the frame from the first unit (`mframe`)
and its handle code from the second (`mcode`), which the loop test has not asked for:
`mcode` may be stale, see section 4. `TornTest` says whether both
stores of the worker's reset may fall between the two loads of the loop test.

**`SendBuffer`** The same for the other direction: the worker's greeting, the main
thread's replies, the sends and their completions. The unit is the ten byte
header. `setSend` copies the bytes into the context (`IOPool.cpp:186-199`), so the
buffer may be reused while a send is outstanding; the model does so too.
`Reply` is the client's next command; it comes only when the client has the
whole greeting, as `TcpClient` behaves (`TcpClient_Funs.cpp:136-155`).

**`Session`** The main thread's bookkeeping: `cmd_security`, `m_SecurityCount`,
`m_Connection`, login, the user table and the pairing pass after each walk. `at` is
the slot the walk is at (or its end), `parsing` that it is inside `parseCommand(c)`,
where the worker may still shut the client down. One main step is one handler.

- `HashArray` takes both tables from `malloc` and runs no constructor, so `clientID`,
  `clientType` and the users' states start with any value; `ZeroedHeap` says that
  the memory happened to be zero (the two violated runs assume it, so that what
  they show does not rest on garbage).
- `keyed` is whether `rCode` is set. `shutDown` clears it when it is given the client,
  and then the next frame's head no longer decodes; by socket it leaves it.
- A handler that changes nothing (a refused handshake of a secure client, a login
  with no free user, commands 111 and heartbeat) is not an action.
- `RepeatMax` bounds how often secure clients repeat the handshake; `repeats` counts it.

**`Timers`** The window thread, the workers and the registration of the container.
There is one timer, so the contexts in `__DataQueue` are counted. `addData` is two
steps, the post and the push; a worker's `getCount` and `popTimer` are two steps.
A worker that calls `onTimerMessage` while no container is registered is `stuck`: the
loop `while (it == end());` (`TcpServer_Funs.cpp:51`) holds the iterator of an empty
vector. If a container is registered meanwhile and the build reads `end()` again, the loop
ends and a null pointer is dereferenced (`Crash`): the process stops, and with it the
model, since `Next` asks that it is `Running`. The post itself is assumed to succeed.

**`SecureLink`** What the handshake promises: the client learns a connection's key, then
the server grants the connection, then the client trusts it, and may leave any time.

**`ClientLink`** A `TcpClient` and the server over the connections it makes one after the
other. Thread T (`TcpClient::run`) has the program counter `tpc`, the client's main thread
`mpc`; between two frames, and inside `disconnectServer` between its test and its work,
the other thread may run. A frame is a record with the key it was XORed with; the n-th
connection's random code is the key n, and a frame read under another key has a bad head.

- The worker's greeting is two steps, the send under the zero key and the store of `rCode`
  (`TcpServer.cpp:328-329`); the one worker completes no receive of that connection between
  them.
- A server slot goes `none`, `Connect`, `Secure`, `Closed`; a slot is used again as the slot of
  a later connection, since `ServerConn` shows that it is reset in between.
- `Break`, `SRefuse`, `STimeout` and `TConnectFails` share the budget `MaxFaults`. A break loses
  what is on its way from some frame on; nothing is reordered or repeated (TCP).
- A shutdown by the server drops what has not left its send buffer: any suffix of `down`.
- Assumed: both ends notice a broken connection (a receive fails, or the heartbeat times
  out); the main thread finishes one frame, or its own disconnect, within the `AutoTime`
  seconds `onAutoConnect` waits (the guard `mpc = "idle"` of `TStart`). Heartbeats over a live
  connection are bounded by `HeartMax`; those of a client without a connection are not, because
  the failing send of one is what makes that client reconnect.

**`Journal`** What the log promises: a thread's messages are handled in order, each once.

**`LogPool`** `popPool`, `pushLog` and the log thread, step by step: the test of the pool and the
pop are two steps, `temp_str` has two cells that are cleared, formatted and copied one by one.
In the server as it is built only the main thread logs; with a `TcpClient` its thread logs
too, from `onDisconnect` (`AppGlobal.cpp:173`), so the model has a set of threads. `disturbed`
collects the messages whose formatting met another thread's. A record that
`writelog` cannot write because its file does not open counts as handled: it is dropped.

**`MCServerConn`, `MCRecvBuffer`, `MCLogPool`** give constants and symmetry for TLC.
**`ServerConn_proofs`, `ServerConnInv_proofs`, `RecvBuffer_proofs`, `SendBuffer_proofs`,
`Session_proofs`, `Timers_proofs`, `ClientLink_proofs`, `LogPool_proofs`** hold the theorems.

Definitions whose comment begins with "Mutant:" are faulty variants of the
definition that follows; they are never part of the specification. They record
which bug each property catches.

## 3. The runs

| run | checks | shows |
|---|---|---|
| `conn_two_slots` | `HandleOwned FindsOwner OneRecv SendGate AcceptsBounded DrainedInv NoCrossTalk` | the safety of the life cycle with two slots and two handles (types, count and posted receive are parts of `DrainedInv`); no completion touches the connection that has the slot next |
| `conn_reuse` | `ConnInv CountMatches NeverDeaf ClosingReclaimed HandshakeDeadline WalkSlots` | what survives when a completion of an old connection reaches a new one with the same handle value; closing and stuck connections are reclaimed even then, and slots change hands as in `SlotWalk` |
| `recv_stream` | `RecvInv HonestKept InOrder ParseCatchesUp` | the receive buffer implements the byte stream |
| `recv_lost` | `EveryFrameParsed`, violated | a frame may wait for the client's next one |
| `recv_torn` | `InOrder`, violated | the reset by the producer can repeat a command |
| `send_stream` | `SendInv ResetIdle InOrder WholeFrames NoSendStall` | the send buffer implements the byte stream |
| `session` | `SessionTypeOK RegistryBound MatchLeavesOne WaitersMatched WalkSlots` | what the registry and the pairing keep; the same walk as `ServerConn` |
| `session_count` | `SecureCount`, violated | the count of secure connections counts handshakes |
| `session_left` | `WaitingConnected`, violated | users wait whose client is gone |
| `timers` | `TimersTypeOK ContextsConserved OneLeftBehind FirstTickHandled` | the post before the push costs one context at most |
| `client_link` | `LinkInv NoBadHead Agrees Reconnects` | client and server agree on keys and security over reconnects; a faultless end makes the link secure |
| `log_pool` | `LogInv OwnText InOrder AllHandled` | the log implements the journal; a text is mixed only by two threads at once |

**Bounds.** Two slots are what a wrong slot needs; with one slot every stale pointer
hits it, the worst case for reuse. Two handle values let a listener and a
connection, or an old and a new connection, exist together; one posted accept
keeps a third socket out. `OrphanMax = 0` in `conn_two_slots` is needed:
`FindsOwner`, `OneRecv` and `SendGate` fail when a handle value returns while an
old operation is undelivered, because a completion carries only the handle. `NoCrossTalk` does
not need it (section 5): it is about the next connection of a slot under another handle, which
two handles reach.
`conn_reuse` shows what holds even then: with a single handle value every new connection
meets what is left of the old one, and since a slot is freed after its handle is
released, two slots let a new connection and the old slot's reset overlap. The receive buffer of 6 units with
receives of up to 3 and frames of 2 and 3 units over a stream of 10 reaches
every case: partial frames, two frames in one receive, the reset, the full
buffer. The send buffer of 5 units, bodies of up to 2, sends of 2 and a stream
of 9 reaches the split frame, the body that does not fit, the header that does
not fit, and the reset during a send. `StreamLen` ends these two models, so
they may stop and deadlock is not checked in their runs. In `session` two slots and
two users reach a repeated handshake, an id inside and one outside the registry,
every initial state of the users and two users waiting at once. `timers` has two
workers, although the program starts one, so that one may take a context from
under the other; five timer messages are more than the miss, the hand-over and the
kill need, and since `TickMax`, or a crash, ends the model deadlock is not checked. `client_link` has two
connections, what a reconnect needs, and one fault, which may be any of the four kinds at any
moment; three frames of room hold a greeting, an answer and a heartbeat, and two heartbeats
fill a direction that the other end has stopped reading. `log_pool` has one record in stock, so
that the pool is empty, taken from under a thread and refilled by the log thread; two messages
of one thread can be overtaken and one of another disturbs either. Both models end when
their connections or messages are used up, so deadlock is not checked. It is checked in
`conn_two_slots` and `conn_reuse`.

**Fairness.** The main loop never stops (`AppManager.cpp:100-108`), a thread that is
in the middle of a handler runs on, and the clock advances: weak fairness of the
main step, of a busy worker, and of `Tick`. Nothing is assumed of the peer or of
the kernel: no accept, receive or send need ever complete. `session` needs only the main loop. `timers` needs that
Windows runs a timer that is set and that the window thread and the workers run on.
`client_link` needs that the client's two threads, the server's worker and its main loop run
on; no fault has to happen, and none is ruled out. `log_pool` needs that the log thread
runs and that a thread that has called `pushLog` returns from it; nobody has to log.

## 4. What the violated runs say

- `EveryFrameParsed` (`TcpServer_Funs.cpp:118`): a lost wake-up. The flag is cleared
  after the test, for data that came in between.
- `InOrder` under `TornTest` (`TcpServer.cpp:409`): `recv_Head` belongs to the consumer,
  yet the producer resets it; the race needs both of its stores inside one
  expression of the main thread.
- `SecureCount` (`TcpServer.h:24`): `m_SecurityCount` is declared as the number of secure
  connections. A secure client that sends `cmd_security` again is counted again and uncounted
  once, when it closes, so the surplus never goes away.
- `WaitingConnected` (`UserData.h:29`): every login ends in `shutDown` 2005, and no
  disconnect gives the user back, so a waiting user is soon one without a client.

Two more things the code does are in the models without a run that claims their absence, since
nothing in the repository does:

- A stale handle code (`TcpServer_Funs.cpp:99`, `RecvBuffer`). Main has passed the loop test with
  the first eight bytes of a frame, reads the code from bytes that are not there yet, the worker
  saves them, and the length test at line 101 finds the frame complete: fourteen steps in
  the model of `recv_stream`, in which `InOrder` holds all the same, because it speaks of the command
  and the payload that the handler gets and not of the code. `OwnCode` says when the code
  is right. The effect is small here: only `cmd_security` looks at the code and returns when it
  is not zero (line 182); a client that is still connecting is parsed again in the next pass,
  since the test at line 108 returns before `recv_Head` moves, and a secure one does not need the command.
- A server that is no longer found (`TcpServer.cpp:648`, `Session`). `closeSocket` clears the entry of
  `m_Connection` under the `clientID` of whichever client it closes: a player with the same id,
  the half-open predecessor of the server, or a slot that never shook hands and still has its last
  owner's `clientID` removes a server client that is secure. `RegistryBound` excludes
  entries that are stale, not entries that are missing.

## 5. The proofs

All theorems hold for every value of the constants that satisfies the module's
named assumption (`ConstantsOK`, `RecvOK`, `SendOK`, `SessionOK`, `TimersOK`).

- `TypeCorrect`: `Spec => []TypeOK` of `ServerConn`.
- `SocketOwned`: with one worker, `Spec => []HandleOwned`. `HandleOwned` alone is not
  inductive: that a slot's handle is nobody else's follows from where handles come
  from. `OwnershipInv` adds that a posted accept is on an open handle no slot names
  (`AcceptPosted`), that an accepted handle is the worker's until it is bound
  (`AcceptHeld`), that the main thread leaves a slot alone while it is filled in
  (`FillingUntouched`), and that a slot being closed stays as it was found
  (`ClosingStable`). One worker is a hypothesis (`OneWorker`): the program starts one
  (`AppManager.cpp:79`).
  It is a real hypothesis: with `Workers = {w1, w2}` in `conn_two_slots.cfg`, and the properties
  taken one at a time, TLC refutes `CountMatches`, `NeverDeaf`, `FindsOwner`, `SendGate`,
  `NoCrossTalk` and `WalkSlots`. In each trace one worker has looked a slot up in `onRecv`,
  `onSend` or `shutDown` and is held up for as long as the main loop needs to time the slot
  out and free it; the second worker accepts a new connection into the slot, and the first
  goes on with it as if it were still the old one. `HandleOwned`, `OneRecv` and `AcceptsBounded` were not refuted in ten
  million states there; they are not claimed for two workers.
- `ConnSafe`, `CountExact`, `AlwaysHeard`, `AcceptsLimited`: with one worker and any reuse of
  handle values, `ConnInv`, and from it `CountMatches`, `NeverDeaf` and `AcceptsBounded`.
  To ownership it adds that `LinkersIndexs` names the slot of every socket in use
  (`Indexed`) and that the slot a worker looked up stays that of its operation
  (`HandShape`). The receive that keeps a connection from being deaf is then followed from
  the port through the worker's hands to the next `WSARecv` or to the shutdown; the
  count changes by one where the set of slots in use, or that of uncounted ones, does.
- `ConnDrained`, `OwnerFound`, `OneReceive`, `SendsGated`: with `OrphanMax = 0` too, `DrainedInv`,
  and from it `FindsOwner`, `OneRecv` and `SendGate`. Nothing is left of a closed socket
  when its handle value is open again (`Drained`), so what is pending on an open handle
  is its slot's. The proof counts `Pending`, the operations of a kind posted on a handle or
  in the worker's hands: a worker's step never raises it but for the first receive, where
  it was zero (`FirstQuiet`), and the main thread's only by `postSend`, where the gate says
  that it was zero (`OneSend`). `OrphanMax = 0` is an assumption about Windows that the
  code relies on and does not enforce.
- `NoStrayCompletion`: with one worker and any reuse of handle values, a worker that changes a
  connection does so for an operation on the handle that connection has (`NoCrossTalk`). A
  completion carries a handle, the slot is looked up from it in one step and used in later
  ones, so the proof needs a part of its own in `ConnInv`: `HandKept` says that a slot a
  worker goes on with still has the handle of its operation, or is free. The
  step that needs care is the main thread freeing and the worker's own accept reusing the
  slot: only the worker could give it to another connection, and it is busy. With
  two workers that argument falls away. The theorem does not say that the completion
  was posted by that connection: when the next one has the same handle value, a late
  completion of the old one is taken for its own and may shut it down. The code makes this possible by
  closing with a receive outstanding (`TcpServer.cpp:397`, `TcpServer_Funs.cpp:223`), although
  `INetBase.h:33` wants a socket closed only when nothing is posted; `conn_reuse` and `ConnSafe` say what
  holds nevertheless.
- `ConnImplementsWalk`, `SessionImplementsWalk`: both modules implement `SlotWalk`. In `ServerConn`, with
  one worker and any reuse of handles, the first receive maps to `Open`, a worker's shutdown to
  `Lose`, the parse steps to `Serve`, `MReset` to `Free`; that the slot is still the shut down
  one when it is reset, three steps after `checkConnect`, is `ClosingStable`, and that the worker
  never sets `closing` on a slot it is filling in is `FillingUntouched`. In `Session`, `Accept`
  maps to `Open`, `Lost` to `Lose`, `Close` to `Free`, a handler to `Serve`, and the pairing
  pass to a step of the walk that changes no slot.
- `RecvInvariant`, `HonestClientKept`, `RecvImplementsStream`: each has the hypothesis `~TornTest`,
  which the code does not enforce and without which `recv_torn` refutes `InOrder`. Under it the
  unread bytes lie between head and tail in stream order, except while an empty
  buffer restarts (`Backlog`); the frame in hand is the next one and complete
  (`FrameInHand`), and its handle code is its own if it had arrived at the loop test
  (`OwnCode`). From these, `SaveCopy` maps to `Put`, `Handle` to `Get`, every
  other step to a stutter.
- `SendInvariant`, `ResetWhenIdle`, `OnlyWholeFrames`, `SendImplementsStream`: the bytes
  between what is sent and `send_Tail` are the unsent ones (`Backlog`, with `Lag` the
  bytes that are sent but that `send_Head` has not passed), the frame being built
  lies behind them (`Draft`), the gate is shut while a send is outstanding (`Gate`),
  and there is one producer (`OneProducer`). `End` maps to `Put`, `PostSend` to `Get`.

- `SessionTypeCorrect`, `SecurityCountExact`, `RegistryNeverStale`, `PairingComplete`: the
  count, with its surplus, and the registry are inductive with the types; the registry's bound rests on
  a first handshake finding the slot not yet secure, so that no older entry names it.
- `TimersTypeCorrect`, `ContextsBalance`, `MissedOnce`: contexts in the queue and on
  their way there equal notices in the port, in the workers' hands and missed. A
  notice is missed only when the queue is empty; with one context on its way at
  most, the balance leaves room for one miss.
- `LinkSafe`, `HeadsMatch`, `LinkImplements`: `LinkInv` says what the threads leave each other. A
  client that tries to connect has empty buffers and no key, whoever disconnected it
  (`ThreadsShare`); before it has read the greeting only that one frame can reach it
  (`Unlearned`), afterwards every frame in either direction has the connection's key
  (`Learned`, `ServerKeys`), and an acceptance among them comes from a server that has granted
  the connection. From these, `MRcode` maps to `Learn`, `SParse` to `Grant`, `MSecurity` to
  `Trust`, a disconnect to `Leave`, every other step to a stutter.
- `LogSafe`, `OwnTextAlways`, `LogImplements`: every record is in one of four places
  (`OnePlace`), the unhandled messages of a thread are in the queue in order, the last
  perhaps in its hands (`Queued`), and a message formatted without company is in `temp_str`,
  then in its record (`Formatted`). `Reset` maps to `Say`, `WriteLog` to `Handle`.

Only model-checked: the liveness properties (`ClosingReclaimed`, `HandshakeDeadline`,
`ParseCatchesUp`, `NoSendStall`, `WaitersMatched`, `FirstTickHandled`, `Reconnects`, `AllHandled`):
liveness under fairness is out of the prover's reach. Every safety property of a passing
run is also a theorem; no theorem is by induction over data, and no module
declares a RECURSIVE operator.

## 6. Not modelled, and why

`stopServer` (nothing calls it), `initSocket` and `initPost` (straight-line start; the
initial state is after them, with any number of accepts posted), the XOR with `rCode`,
the bytes of commands, UDP, rooms (never created), console and files. Second
workers: the engine allows ten, the program starts one. A failed accept is
modelled: its socket leaks and its `AcceptEx` is not replaced. `closeState` is meant to let
a socket be closed only when nothing is posted (`INetBase.h:33`), but both flags can be set
while the next receive is outstanding (`TcpServer_Funs.cpp:223`); this is in `ServerConn`, and
`conn_reuse` and `ConnSafe` are about its effects.

Of `TcpClient`: the bytes of its buffers, a race inside one of their operations or inside
`disconnectServer` (two `closesocket` on one handle), messages without a connection, and the
command handlers, of which the repository has none. `_read` is commented out, so the class
is a design rather than a program; it is the only peer in the repository. Of the log: file
and directory names. Of configuration, console, base64, random strings and MD5: all of
it, pure functions or plain input and output whose results are CONSTANTS here. The pools of
`IOPool.cpp` are concurrent queues whose elements carry no state from one use to the
next. The rest of the tree, most of its lines, is vendored (OpenSSL, fmt, nlohmann json,
tinyxml) or generated by protoc.

## 7. Plan

1. Done: `ServerConn` with all its safety properties proved, `ByteStream`, `RecvBuffer`,
   `SendBuffer`, `Session`, `Timers`, `SecureLink`, `ClientLink`, `Journal`, `LogPool`, and their
   proofs.
2. Done: the composition of `ServerConn` and `Session` by a common specification, `SlotWalk`,
   and `NoCrossTalk`.
3. The client's buffers byte by byte, with `disconnectServer` interleaved inside them.
4. A second worker in `ServerConn`, which the engine allows: whether `HandleOwned`, `OneRecv` and
   `AcceptsBounded` can be proved without `OneWorker`.
