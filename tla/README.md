# scapv2_mediator in TLA+

`scapv2_mediator` stands between a message queue and an online charging system. It takes JSON
charging requests from RabbitMQ, turns each into a Diameter Credit-Control-Request (CCR), sends it
to the main or the reserve OCS, and puts the answer (CCA), as JSON, back on a response queue. It is
a single C++ process of five kinds of threads that share plain members, a few mutexes, and events
and semaphores. It has no tests. Its Diameter library also has a server side, which is compiled with
it and which `main()` never instantiates. This directory holds TLA+ models of the mediator's threads,
of its messages and of the server, the TLC configurations that check them, and TLAPS proofs about
all of them.

Paths below are those of the repository; `Source_/` stands for `src/src/Diameter/Source_/`.

## 1. The system

### Threads

| thread | started by | runs |
|---|---|---|
| main | the process | `main()`: start-up, then `checkConnection` once a second |
| consumer | `RabbitMQAdapter::start` | `RabbitMQAdapter::svc`: one message at a time to `RequestHandler` |
| receive | every `CClientTransport::Start` | `CClientTransport::svc`: connect, `recv`, hand out messages, close |
| send | the constructor of `CClientTransport` | `CSendThread::svc`: empties the send queue |
| timer | the constructor of `CTimerManager` | `CTimerManager::svc`: expires sessions |
| log service | `Logger::init` | `Logger::svc`: writes what the other threads have logged |

The server has a receive thread for all of its connections, a send thread, a timer thread and the
threads of the application that answers.

### Components

| component | state | operations | what makes it correct | model |
|---|---|---|---|---|
| SessionManager, TimerManager | session map, timer multiset, four counters, pending notifications | request, answer, erase one / all of a connection, timer round | sessions and timers stay linked; none lost, none early, none twice; overdue sessions do expire | `SessionManager` |
| DiameterAdapter (connection), CDiameterClient (handshake), receive thread of CClientTransport | adapter state, server, `m_bStarted`, `m_bExit`, `m_Handle`, three events | Connect, Reconnect, failover, CER/CEA, break | one thread owns the socket; no leaked socket; no CCR before the CEA; return to the main server | `Connection` |
| CClientTransport::Send, CSendThread | packet list and its counter, waiter flag, event, connected sockets, overload flag | Send, poll, wait, select, partial write, add / remove socket | bytes in order, none lost or repeated; bounded; no lost wakeup; one overload report | `SendQueue`, `PacketStream` |
| RequestHandler, DiameterAdapter (requests) | request holding map | consume, sendCCR, CCA, timeout, break | a request is settled at most once and does not stay in the map | `Charging` |
| RabbitMQAdapter | state, two channels, consumer thread | start, stop, send, svc | no response is lost once started; what was taken is settled | `Mediator` |
| CDiameterFormer | 64 KB buffer, length of the message being put together | ReceiveData | whole messages, in order, without delay | `DiameterFormer` |
| Logger, ObjectPool, SafeQueue, Semaphore | pool, queue, two semaphores; files and counters per level | LOG macros, service thread, rotation, close | one owner per message; nothing popped from an empty container; order of each thread kept in every file; files not overwritten | `LogPool` |
| OCSRequest, sendCCR, createJsonResponseMessage | the request in the holding map | parse, build the CCR, read the CCA, build the response | parameters reach the OCS as sent; quote and charge are one session; the response is the request's | `RequestMapping` |
| CCR / CCA message classes | members and AVP tree, kept apart | setters, Create, Delete, reading | what is set is what is read | `Messages`, `Objects`, `CreditControl` |
| AVP coder, decoder, raw messages | none | encode, decode, look up | lengths agree with octets; what is encoded can be decoded | `Avp` |
| CDiameterServer, CServerTransport | connections by number and by handle, a list of packets each, overload map | accept, break, receive, Send, DPR | answers go to their client; counters true; no session left half answered | `Server` |
| Settings | a map | read once | | not modelled |
| `Packets.h`, `DiameterConnection.cpp`, `src/Logger` | | | | unused or not compiled |
| `src/3d_party` | | | | vendored |

### How they interact

```
 RabbitMQ --> consumer thread --> RequestHandler --> DiameterAdapter.sendCCR
                                                       | 1 holding map   (mutex)
                                                       | 2 CClientTransport.Send -> queue -> send thread -> socket
                                                       | 3 SessionManager.OnRequestMessage (mutex)
 socket --> receive thread --> CDiameterFormer --> CDiameterClient.OnReceive
                                 | SessionManager.OnAnswerMessage (mutex)
                                 | DiameterAdapter.OnReceiveCCA: holding map -> RequestHandler -> RabbitMQ
 timer thread --> SessionManager (mutex) --> after the unlock: DiameterAdapter.On...Timeout -> holding map
 main thread --> checkConnection --> Stop / Connect --> a new receive thread, via events
 every thread --> LogMessage pool --> log queue --> log service thread
```

Steps 1 to 3 of `sendCCR` are three critical sections, so an answer may be handled before step 3.
The session manager's callbacks come after its mutex has been released. The receive thread and main
meet only through events, of which two are never reset, and flags without a lock.

### What is hard

* Order: an answer before its request is registered; a timeout, a late answer and a broken
  connection for one request; a break between the return of `Start` and the assignment of the state.
* Events that stay signalled: `m_StopEvent` and `connectReadyEvent` let every later wait through.
* Snapshots: the clock read before the lock, the sockets copied before `select`, flags tested twice.
* Partial writes and partial reads; a queue, a batch and a pool at their limit.
* Progress: a batch smaller than what is due, a wakeup missed, failover and return.
* Two books for one thing: the members of a message object and its AVPs, the length of a message and
  its octets, the server's maps by number and by handle, a counter and the lists it counts.
* What is thrown away half way: an answer the server could not queue, a file that could not be opened.

The hazards that matter most are in `PROJECT.json`, each at its line and with the properties aimed at it;
section 3 ends with what else the modelling showed.

## 2. Modules

One module per component; an `MC` module and its `.cfg` files give the constants for TLC; a
`Proofs` module extends the component and holds theorems and what they need. Names are those of the source where
TLA+ allows it. What runs under one lock is one action; what a thread has read under a lock and uses
after it is in a variable. Operators with a name like `Drop_LeavesTimer`, marked `faulty`, are used
by no specification: each is a plausible bug of the operator next to it, and replacing the operator
by it makes the property it is listed with in `PROJECT.json` fail.

| module | models | composition |
|---|---|---|
| `SessionManager` | `Source_/SessionManager.cpp`, `TimerManager.cpp` | |
| `Connection` | `DiameterAdapter.h` 94-210, `DiameterClient.cpp`, `ClientTransport.cpp` | |
| `PacketStream` | what the send queue promises | abstract |
| `SendQueue` | `ClientTransport.cpp`, `SendThread.cpp`, overload in `DiameterClient.cpp` | implements `PacketStream` |
| `Charging` | `RequestHandler.h`, `DiameterAdapter.h` from 212, `CDiameterClient::Send` | `SM == INSTANCE SessionManager`, sharing its variables |
| `Mediator` | `MQAdapter/rabbitmqAdapter.h`, `main.cpp` | extends `Charging` |
| `LogPool` | `Logger/logger.cpp`, `logger.h`, `Utills/utills.h` | |
| `DiameterFormer` | `DiameterFormer.cpp` as `CClientTransport::svc` uses it | |
| `Avp` | `DiameterAVP.cpp`, `DiameterAVPGroup.cpp`, coder, decoder, `GetAVPData` | |
| `CreditControl` | the fields of the classes of `Source_/CCR`, as tables | |
| `Objects` | the classes of `Source_/CCR`, operation by operation, and their reading constructors | extends `Avp`, `CreditControl` |
| `Messages` | a message that is built with these operations, called in any order | extends `Objects` |
| `RequestMapping` | `OCSRequestResponse.h`, the mapping in `sendCCR` and `OnReceiveCCA` | extends `Objects` |
| `Server` | `DiameterServer.cpp`, `ServerTransport.cpp`, `SendThread.cpp` | `SM == INSTANCE SessionManager`, sharing its variables |

### SessionManager

`mapSessions` and `timersMap` are the two containers; a `TimerData` is an address out of `TimerIds`,
so that the two iterators (`m_Timer` of a session and `m_SMData` of a timer) can be wrong. All
operations of the table are atomic (`m_Mutex`). The timer thread is not: `CalculateTimeout` decides
to wait or to go on, `ReadClock` takes the time *before* the lock, `SignalTimers` takes at most
`BatchSize` due timers, in any order the multiset allows for equal times, and `FlushOne` /
`FlushDone` deliver the notifications after the unlock. `lastHeard` is a history variable.

Left out: the disconnect (DPA) map, into which nothing inserts, and `FindClient`, which only reads.
`TimeoutsAssumption` excludes a session timeout without a response timeout: in that combination
`OnAnswerMessage` makes a timer whose `m_SMData` nobody assigns (`Uninit`), and no configuration of
the program selects it.

### Connection

`Connect` is four steps of main (`ConnectTo`, `StartReturns`, `SetState`, `ConnectReturns`), since it
waits for the start event, assigns the state and waits for the ready event. `checkConnection` with
`Stop`, its wait and `Reconnect`'s `sleep(1)` are three more. A receive thread goes through `svc()`
step by step, from `SvcConnect` to `SignalStop`, including every look at `m_bExit`. Several receive
threads may exist at a time; each names its own socket. Servers go up and down, and peers break
connections, and `select` fails (`SelectFails`), at most `MaxFaults` times in all. A `Connect` takes a
receive thread that is not in use.

Two things describe the environment. The constant `PromptStop`: a receive thread, which polls
`m_bExit` twice a second, sees it and leaves during main's `sleep(1)`. The code relies on it. With
`PromptStop = FALSE` TLC finds `SocketsOwned` violated in 31 steps: from the second `Stop` on, the wait
for `m_StopEvent` returns at once, since nothing resets the event, `Start` clears `m_bExit`, and the old
thread lives on beside the new one. And `Answer`: a server answers a CER, but nothing that it cannot make
out.

The send queue and the former belong to the client and outlive a connection, so what one connection
leaves in them meets the handshake of the next. `queue` is `m_lstSendQueue` with the CERs told apart from
the other requests (`SendCCR`, `SendDWR`), which share its limit: `Put` drops what does not fit, as
`CClientTransport::Send` does, and `SendCER` looks at the result no more than the code. `rest` says that an
earlier socket has had a part of the packet at the front; the next socket is sent the rest of it and its
stream is `garbled`. `residue` says that the former holds a part of a message that the end of its
connection has cut off; it takes the next CEA for the continuation (`SwallowCEA`).

The history variable `lost` says that the last connection made has lost its handshake: its CER was
refused, or came behind such a rest, its CEA was swallowed, or it ended before `SetState` had assigned
the state or, the first time, before the ready event. From then on nothing but the end of that connection
helps, and not all of these are noticed: `m_bStarted` stays false and the state `ACTIVE`. `Recovers` has
`lost` as its only exception, and `ConnectTo` clears it. Two such states in which nothing at all is left
to do are named `Hung`: the first `Connect` waits in `connectReadyEvent.wait()`, which has no timeout, or
the state stays `ACTIVE` without a connection. In these, and once `main()` has returned (`Exited`), the
model may stutter; any other stop is a deadlock that TLC reports.

Destructors are left out: they run after `main()`'s loop, and `Task` has no `wait()` for them to
join the threads with.

### SendQueue and PacketStream

A packet is sent in `Size[p]` pieces; the socket takes any positive number of them, an error, or
nothing. `Push`, `Poll`, `RegisterWaiter`, `FillConnectedSet` and `SendFromQueue` are the critical
sections under `m_PacketsMutex` and the send thread's mutex; what lies between them is interleaved.
Producers in `Clients` go on to the overload test of `CDiameterClient::Send`, two tests with an
unlock between. `PacketStream` says only: accepted packets, their pieces on the wire in order, and a
bounded backlog: `Streams(accepted)[k]` is what the first `k` accepted packets have in pieces. The
refinement maps `Capacity` to `MaxQueueSize`; the two history variables `accepted` and `wire` are the
abstract state.

### Charging

The consumer's `sendCCR` is `Consume`, `Hold`, `Send`, `Register` (or `SendError`); the receive
thread's `OnReceiveCCA` follows `OnAnswerMessage` as a step of its own; `OnBreakConnection` is followed
by `EraseSessions`; `OnTimeout` is a callback that `SessionManager`'s `FlushOne` makes. The session
manager's own variables and actions are used as they are, so all of the timer thread's interleavings
are in this model too. A request is a session id and a CC-Request-Type; a JSON message that does not
parse never gets here. `OpenedOnceAssumption` says that only a TERMINATION reuses the id of an
earlier request, `SessionManagerAssumption` that the constants are fit for the session manager, as its
own module requires.

### Mediator

`Charging` with what is around it: `start()` and `stop()` by main (`Started`, `Stop`), the consumer
thread of `RabbitMQAdapter` (`CreateConsumer`, `TestState`, `ConsumeMessage`, `ConsumeFails`), and
`send()` by the receive thread (`SendResponse`), which `OnReceiveCCA` leads to with the request out of
the map already. `state` is a plain field all three look at. The broker may refuse or break the
consumer's channel at any time. The state is looked at only when a message has been handled, so a
consumer that waits in `BasicConsumeMessage` takes one more message after `stop()`, here as in the code.

Left out: the text of messages, acknowledgements (the consumer takes messages without), and a
publication that fails, which `handleOCSResponse` does not look at.

### LogPool

The pool and the queue are sequences, their semaphores numbers. `GetLogMsg` is the test of the
pool's size, `PoolWait` and `PoolPop` the two halves of `get()`, `Fill` the macro's text, `Enqueue`
and `SignalNew` the two halves of `putLogMsg`; `svc` has eight steps. `size()` reads a `std::queue`
without its mutex: while another thread changes the pool the test may go either way.

`SvcWrite` writes a message to the common file and to the file of its level, where the configuration
has them, counts the record, and opens the next file when the count is reached. `fopen` may fail at
any rotation and leave NULL; the record that finds its file full is then lost, and the next one for
that output is written to NULL, which ends the program (`SvcCrash`). A file is its number, and files of
one output are a sequence, so a number may come back. Output `MAX_LOGLVL` is the common file.

Left out: the time stamp in the names (it only helps the files to differ), syslog, the text, and
everything after `close()` returns. `LOG_FOR_LEVEL` tests the address of a reference that may be bound
to a null pointer; the model does what the macro means, which is to skip the record.

### DiameterFormer

A byte is its position in the stream, and a message is right when its positions are consecutive from
where a message starts. `Measured` and `Complete` are the two halves of `TakeMsg`, `Keep` the rest of
`ReceiveData`. `Reconnect` moves on to another connection's stream; under `CleanBreak` the old one
has ended between two messages. Messages are assumed to fit the buffer and to be at least as long as
their own length field. `DiamMessageMarker` is unused and left out.

### Avp, CreditControl, Objects, Messages

An object of the CCR or CCA classes keeps what it holds twice: in members, which its getters read,
and in a node of AVPs, which is what is sent. The other side makes objects of the octets. So
`CreditControl` has two tables: `XWrites`, the AVP code, vendor flag and layout with which each setter
and Create function of class X writes, and `XReads`, the code and layout its reading constructor looks
for. The source states these numbers in both places, for every class, and the tables are taken
from the two places separately. `Objects` has the operations over them: `SetValue`, `Create` with
what each Create does on a second call, the lists with an index (`Service-Identifier`, trigger types),
`SetParameter`, whose layout depends on the number, `ReadObject` and `AnswerTo`. A member starts as its
constructor makes it, which for the ones in `MadeWithout` and `ReadWithout` is `Undefined`, so that no
getter may rely on it; `Messages` calls them,
and `DeleteMSCC`, in any order. `Avp` has the maps of AVPs by
code, groups and sets, the order in which AVPs are sent, `EncodeAVPs` with its two books, the octets
written and the size counted (`Octets` and `CountedSize`), the decoder's `DecodesAVPs` and `GetAVPData`.

A value is a number; what matters of its octets is layout and length. `AnswerTo` is the constructor
of a CCA that answers a CCR. `Loses` names the fields that do not survive, spoiled or forgotten, and is a
list of faults of the classes rather than of the model; see the end of section 3.

### RequestMapping

A JSON message is a function from the members it has to numbers. `parseJsonMessage` makes the
`OCSRequest` (session id, units, and the three maps of service parameters as one), `CCR` makes the
message with the operations of `Objects`, the OCS reads the encoded message, and
`createJsonResponseMessage` makes the response of the request in the holding map. `isIncoming`, which
nobody initialises when `traffic_case` is missing, is either value. Requesters are modelled as the
message types mean them to be used: an opening message or a debit, and after a successful quote one
charge or release with the quote's number as `session_id`, one request outstanding at a time (`Charging`
has a session's requests overlap). `UsedWithinReserved` is about the services of one unit: a quote for a
refund reserves 1 and may be charged with more, and the release of a refund keeps its units.

### Server

The clients are known by a number, never reused; their connections by a handle, which the kernel
gives to the next client once it is closed. `Accept`, `OnConnect`, `OnReceive`, `HandleDefaultMessages`,
`Break`, `EraseSessions`, `EraseOverload`, `DelConnection` and `Close` are the receive thread's critical
sections. The application's threads go through `CDiameterServer::Send` in six (`OnAnswerMessage`,
`Lookup`, `PushAnswer`, `Signal` or `Rollback`, `CheckOverload`, `OnOverload`): the handle is looked up
under one mutex and used under another. `SendThread` is that of the client, over many lists; writes in
parts are the subject of `SendQueue` and left out here. `StopInput`, `Disconnect` and `SendDPR` are the
thread that ends the server; `Disconnect` happens at most once, and only after `StopInput`.

The session manager is `SessionManager` with both timeouts 0, which is what the server has unless told
otherwise: no timers. Left out: `Stop` and `Clear`, which empties the maps without a mutex while other
threads read them, and the closing of connections without traffic, which is a `Break` here.

Every module with a state of its own has a type invariant, `TypeOK` or a name with the module's in
front (`MappingTypeOK`, `FormerTypeOK`, `MediatorTypeOK`). The run `server` checks that of `Server`,
whose conjuncts relate four maps; TLAPS proves all of them.

## 3. Runs

TLC with two workers finishes each in about three minutes or less.

| run | states | shows |
|---|---:|---|
| `session_manager` | 220,332 | `TimersLinked`, `TimersConserved`, `DeadlineFollowsTraffic`, `NoEarlyExpiry`; with a fair timer thread `OverdueExpires` and `NotificationsDelivered` |
| `connection` | 693,360 | `SocketsOwned` and `StartedMeansAnswered` through three faults; no deadlock but the ones named `Hung`; `Recovers`, but for a connection that has lost its handshake |
| `connection_race` | violation | `ActiveIsConnected` fails (finding 1) |
| `send_queue` | 508,284 | `NoLostWakeup`, `OverloadReportedOnce`, refinement of `PacketStream` (`ImplementsStream`), `AllWritten` |
| `charging` | 1,122,629 | `SettledOnce`, `Watched`, `AnswerFindsRequest` for a quote, its charge and a debit |
| `mediator` | 349,012 | `DroppedOnlyAtStart` (no publication throws), `AcceptedIsKept` and `Settles`, while the consumer, the connection and the broker may fail and main may stop |
| `log_pool` | 177,260 | `OneOwner`, `PromisesKept`, `LogInOrder`, `FilesKept`, `NullAfterFailure`, `QueuedIsLogged`, `WaitingIsServed` |
| `log_pool_wait` | violation | `NobodyWaits` fails (finding 2) |
| `diameter_former` | 599 | `HandsOutNext`, `NothingWithheld` |
| `messages` | 40,148 | `ReadsBack`, `Decodable`, `AnswerEchoes`: every class of the library, up to three calls |
| `request_mapping` | 228,313 | `ParametersReachOCS`, `OneSession`, `UsedWithinReserved`, `ResponseFits`: a service of every kind, every kind of message |
| `server` | 2,322,820 | `TypeOK`, `MustNotEnter`, `ToItsClient`, `UnsentCounted`, `KeptAnswered` |

### Bounds, and why they are enough

* `session_manager`: two sessions, as many timers, `BatchSize = 1` so that a second due session waits
  for the next round, timeouts 1 and 2 so that the turns differ, and a clock of three ticks in which a
  session can be opened, refreshed and expire. `MaxCreated = 3` allows a timer to be used again.
  (Sessions of several clients, and sessions without a timer, occur in `server`.)
* `connection`: two receive threads, one of which TLC finds unused at every `Connect`; a queue of two
  packets, which other requests, or an old and a new CER, fill; three faults, which allow the main server to fail, the
  reserve to break and the way back to fail. `connection_race` needs one.
* `send_queue`: a queue of two with three sends, so that it refuses one; a packet of one and one of two
  pieces, so that a partial write occurs with another packet behind it; two successive sockets; two
  producers, which may both find the queue overloaded.
* `charging`: a quote and a charge of the same session and a debit of another, one tick in which
  messages arrive, `BatchSize = 2`. `mediator` has the quote and the charge only.
* `log_pool`: two threads with two records each and two messages. With the service thread holding one
  message and the other queued, a thread waits; `MaxRecords = 2` makes messages be reused. Two levels,
  the lower of which goes to the common file alone; a new file for every second record; four file
  numbers, of which a rotation uses two, so that four records make them come around.
* `diameter_former`: messages of 2 to 6 bytes, the lengths that the buffer of 6 allows, in chunks of 1
  to 9 bytes, so that a chunk may end within the length field or hold three messages.
* `messages`: `Init` picks a chain of Create calls to any class from a CCR or CCA, and up to three
  calls on it follow: a value may be set twice, a list grow and be changed, a set have two members.
  Two values, a text with and one without filler octets.
* `request_mapping`: eleven services, one at least of every kind the code tells apart, the message
  types that open a session or debit, and up to two optional members of eighteen at a time, since
  faults of the mapping are one member displacing another or a default displacing a member.
* `server`: two handles, two clients in succession or together, lists of one packet, so that the second
  answer is refused and a handle is used again; two application threads; two messages received.

`CHECK_DEADLOCK FALSE` stands where the bounded model really ends: `MaxSends`, `MaxTime`, `MaxRecords`,
`MaxCalls`, `MaxRequests` and `StreamEnd` are used up, or the program has ended. `connection` has no such
bound on its way and checks for deadlock.

### Fairness

* `SessionManager`: weak fairness of the timer thread, which sleeps half a second at most and then
  looks at the clock (`TimerManager.cpp`). Nothing is assumed of clients.
* `Connection`: weak fairness of main, of each receive thread and of the send thread; of the peer,
  that it answers a CER on a connection that stays open; and that time passes. `Recovers` asks nothing
  of a server that is down: it starts from `<>[]up["main"]`. Faults are bounded and end. Its exception,
  `lost`, is needed: TLC finds `Recovers` violated when any one of the five ways to lose a handshake is
  taken out of it.
* `SendQueue`: weak fairness of the threads; strong fairness of `SelectReady` and of a write. The
  socket takes data again and again, not always: TCP's flow control closes and opens it, and `select`
  sees it open in the end.
* `Mediator`: weak fairness of the consumer's own steps once it has a message (`HandleMessage`), of the
  receive thread's handling of an answer that has come and of a broken connection, of the timer thread
  and of the clock. The server owes no answer, the broker no message and main no stop.
* `LogPool`: weak fairness of the service thread and of a thread that holds a message; strong fairness
  of the wait and the pop in `get()`, a semaphore and a mutex for which several threads compete, as
  the scheduler does not pass the same thread over for ever.

`Messages`, `RequestMapping`, `DiameterFormer` and `Server` are checked for safety only. A server owes
nothing when nobody sends, and liveness of its send thread is that of `SendQueue`.

### Findings

1. `connection_race`. `Connect` assigns `state = DAS_ACTIVE` (`DiameterAdapter.h:164`) after `Start` has
   returned. If the peer breaks the connection in between, the receive thread's `OnBreakConnection` has
   set `DAS_INACTIVE` already, and is overwritten. `checkConnection` trusts the state, so the mediator
   stays "active" without a connection and never reconnects.
2. `log_pool_wait`. The comment at `logger.cpp:199` says that a record is dropped when the pool is
   empty. The test and `get()` are two steps (`logger.cpp:192`), and a thread that loses the race waits
   for the service thread.

### Other things the modelling showed

These are behaviours of the code that no document of the repository speaks about, so they are not
findings. The models contain them unless it says otherwise.

Requests:

* A CCR that the session manager refuses (wrong turn), or that cannot be sent, leaves its request in
  the holding map without a timer and without a response. A timeout takes the request out of the map,
  does not delete it and answers nothing. A message that `parseJsonMessage` refuses is only logged.
* A second request of a session that still waits overwrites the first in the holding map.
  `OnReceiveCCA` looks at the Session-Id alone (`DiameterAdapter.h:252`), so a late answer settles the
  request that has taken the place of its own.
* A session-timeout notification that waits for delivery while the session's charge is put in the
  holding map takes out the charge.
* The error branch of `sendCCR` reads `request` after it has been handed over, although
  `RequestHandler.h:55` says that this is no longer safe. (The request's lifetime is not modelled.)
* `RabbitMQAdapter::start` starts the consumer before it has a channel and a state, so that a response
  may be dropped (`DroppedOnlyAtStart`); the consumer ends for good at the first exception, of which
  the others hear only when it is a refused access.
* `RT_REFUND` has a branch in `sendCCR` that no message type reaches.

Connections:

* The former outlives a connection. Part of a message received before a break is put in front of the
  next connection's first message, and the framing is lost. With `CleanBreak = FALSE` TLC finds
  `NothingWithheld` violated in four steps.
  `Connection` has what it does to the handshake: the next CEA is swallowed, `m_bStarted` stays false and
  the state `ACTIVE`, and every request is refused for as long as that connection lasts. (Octets that
  complete the old message together with the CEA are assumed not to be taken for a CEA themselves.)
* The send queue outlives a connection too: the rest of a partly written packet is written to the new
  connection, before its CER, and a queue that is full of CCRs and DWRs refuses the CER
  (`ClientTransport.cpp:137`), whose result `SendCER` ignores. The effect is the same.
* `checkConnection` sends DWRs as long as the state is `ACTIVE`, whether a CEA has come or not, and no
  answer to a DWR is waited for: none of these connections is ever given up by the mediator.
* A message that does not fit the former's 64 KB is neither kept nor reported. (Messages are assumed
  to fit.)

The message classes. These are the exceptions that `Loses` makes: the members that the code spoils, of
which one call each makes TLC find `ReadsBack` violated (`Spoils`), and the ones that it forgets
(`Forgotten`):

* `CreateMoney` makes AVP 420, which is CC-Time, and the reader looks for 413 (`UnitsImpl.cpp:122`); the
  value in it is written without the group the reader expects (`MoneyImpl.cpp:127`).
* `SetResultCodeExt` writes AVP 268 and so overwrites the Result-Code; the reader looks for 1067
  (`CCAMessageImpl.cpp:263`).
* `SetTimezone` sends the octets 2 and 0 whatever its argument is (`CCRMessageImpl.cpp:553`);
  `SetSIPMethod` sends nothing (`EventTypeImpl.cpp:64`); `SetBearerService` and
  `SetOriginatorSCCPAddress` append to what was set before; a received
  `PSFurnishChargingInformation` is never looked for (`MSCCImpl.cpp:53`).
* `GetNodeFunctionality` returns -1 whatever was set or received (`IMSInformationImpl.cpp:102`).
* Constructors leave members uninitialised. In an object to be sent: the CCR's timezone, the MSCC's
  result code, `m_RATType` of `PSInformation`, the types of a service parameter, of `ServiceSpecificInfo`
  and of `UserEquipmentInfo`, the nature of an `OtherPartyId` and the SIP response time stamp
  (`MadeWithout`). In a received one: `m_pUsedServiceUnits` of the CCR (`CCRMessageImpl.cpp:40-61`),
  `m_RATType` again, and the types and the nature, with `SubscriptionId` among them (`ReadWithout`). What
  a getter returns for them, when they were neither set nor received, is whatever the memory held
  (`Undefined`); behind the pointer there may be anything (`Unknown`). The mediator reads none of them.
* The text of a service parameter is read up to the filler, and there is none when its length is a
  multiple of four; an address is read as a text too (`ServiceParameterInfoImpl.cpp:28`). The mediator only
  writes service parameters.
* `DeleteMSCC` leaves the AVP in the message, and the next `CreateMSCC` replaces the last one. Nobody
  calls it.

The server:

* The rollback of a refused answer erases the session by its id, which may be a newer one by then.
  `Send` that is told the wrong client gives up after the session has been marked as answered.
* The handle is looked up under one mutex and used under another; when the client has gone and the
  handle has been given to the next one, the answer goes to that one (`late` in `ToItsClient`).
* An overload never ends but with the connection, since `OnEmptyQueue` is commented out
  (`ServerTransport.cpp:334`); an INITIAL request of an overloaded client is registered and dropped.
* CEA and DWA are lost when the list is full. `Disconnect` waits for no DPA: nothing is ever entered in
  the map that `Disconnected()` compares.
* Not modelled: `flagSkipPacket` is read uninitialised without a session manager; `send()` on a
  blocking socket with the packets' mutex held; `Clear` (section 2), which also keeps
  `m_unsentPacketsCount`.

The logger:

* After a failed rotation the next record of that file is written to NULL. `fileCounter` is advanced
  twice at every rotation, so that half of the numbers are never used.
* `close()` does not wait for the service thread, and `release()` frees what it uses; the time stamp
  is formatted into one static buffer by all threads. (Not modelled.)

## 4. Proofs

TLAPS checks 18,831 obligations, with Z3, Zenon and LS4. Every safety property of the
passing runs is a theorem, for any value of the constants that the named assumptions allow.

| theorem | states |
|---|---|
| `SessionManagerProofs`: `TypeCorrect`, `Linked`, `Deadlines`, `ExpiryNeedsSilence`, `Conservation` | types and the four safety properties of `session_manager`, for any number of sessions, clients and timers and any timeouts, batch size and bounds |
| `ConnectionProofs`: `TypeCorrect`, `SocketsOwnedHolds`, `StartedMeansAnsweredHolds` | types, and under `PromptStop` the two safety properties of `connection`, for any number of receive threads, faults and reconnections |
| `SendQueueProofs`: `TypeCorrect`, `WakeupNotLost`, `OverloadOnce`, `ImplementsStreamHolds` | types, the two safety invariants and the refinement of `send_queue`, for any producers, packets, sockets and queue length |
| `ChargingProofs`: `TypeCorrect`, `SettledOnceHolds`, `AnswerFindsRequestHolds`, `WatchedHolds`, `AcceptedKept`, `DrivesSessionManager` | types and the three properties of `charging`, for any requests and sessions (`Watched` when answers have a timeout); every behaviour is one of `SessionManager` |
| `ChargingProofs`: `MediatorTypeCorrect`, `AcceptedIsKeptHolds`, `DroppedOnlyAtStartHolds`, `RunsCharging` | types and the two safety properties of `mediator`; every behaviour is one of `Charging` |
| `LogPoolProofs`: `TypeCorrect`, `OneOwnerHolds`, `PromisesKeptHolds`, `LogInOrderHolds`, `FilesKeptHolds`, `NullAfterFailureHolds` | types and the five safety properties of `log_pool`, for any number of threads, messages, levels and files |
| `ConnectionProofs`: `FormerTypeCorrect`, `NextHandedOut`, `WithholdsNothing` | types and the two properties of `diameter_former`, for any stream, buffer and chunk size, under `CleanBreak` |
| `ServerProofs`: `TypeCorrect`, `MustNotEnterHolds`, `ToItsClientHolds`, `UnsentCountedHolds`, `KeptAnsweredHolds`, `DrivesSessionManager` | the five properties of `server`, for any number of clients, handles, requests and threads; every behaviour is one of `SessionManager` |
| `MessagesProofs`: `MessagesTypeCorrect`, `MessagesDecodable`, `MessagesReadBack`, `MessagesAnswered` | types and the three properties of `messages`, for any values, any number of calls in any order, and so messages of any depth and width |
| `RequestMappingProofs`: `MappingTypeCorrect`, `MappingParametersReachOCS`, `MappingOneSession`, `MappingUsedWithinReserved`, `MappingResponseFits` | types and the four properties of `request_mapping`, for any message types, services and optional members with any values |

The models are tied to each other by proof as well: `Mediator => Charging => SessionManager`,
`Server => SessionManager` and `SendQueue => PacketStream`. So what is proved of the session manager
holds in the mediator and in the server. The theorems of `Mediator` are in `ChargingProofs`, those of
`DiameterFormer` in `ConnectionProofs`, and `RequestMappingProofs` builds on `MessagesProofs`.

**SessionManager.** `IInv` is `TypeOK /\ TimersLinked /\ AwaitingTimed /\ ThreadState /\
DeadlineFollowsTraffic`. `TimersLinked` alone is not inductive with the deadlines: an answer keeps
using the session's timer, so one has to know that a session that awaits an answer has one
(`AwaitingTimed`), and the timer thread compares with a clock it has read earlier, so one has to know
that this reading is not ahead of the present (`ThreadState`). `NoEarlyExpiry` then follows for each
step: a timer in the batch is due by that reading, and its deadline is the last message plus the
timeout. `TimersConserved` is an invariant on top, with the finiteness of the pending notifications
added so that their cardinality is a number; a batch makes as many notifications as it has timers,
because linked timers have different sessions. Assumptions: `TimeoutsAssumption`, `BoundsAssumption`,
`TimerIdsAssumption`.

**Connection.** `IInv` is `TypeOK /\ OneActive /\ Owned /\ StartedMeansAnswered`. There is one receive
thread at most that may still touch the client's members (`OneActive`); to keep that across a
reconnection one has to know that a thread main has told to stop sees `m_bExit`, and that when main
wakes up it has looked: this is `PromptStop`, the theorems' hypothesis. `Owned` says for each point of
`svc()` whose the socket in `m_Handle` is and whether the send thread has it. The types need no
hypothesis. Assumption: `ConnectionAssumption`. Without `PromptStop` `SocketsOwned` is false
(section 2).

**SendQueue.** `IInv` is `TypeOK /\ CountMatches /\ Waiting /\ OverloadReportedOnce`. The polls read
`m_unsentPacketsCount`, not the list, so the two must agree (`CountMatches`). `NoLostWakeup` is not
inductive: a waiter must also be known to have registered with an empty queue (`Waiting`), so that the
push that ends it sees the flag. Assumption: `SendQueueAssumption`.

The refinement of `PacketStream` rests on two invariants. `Lines`: the queue holds the packets accepted
last, in their order, and only its first may have been sent in part. `OnWire`: what has been written is
a beginning of the stream and ends where that packet goes on. So `Backlog` is the length of the queue
(`BacklogIs`), a push is an `Accept`, and a write is a `Write`, whether the packet leaves the queue or
its rest stays. What `Streams` computes is shown by induction over the packets, on sets: a set of
numbers that holds 0 and the successor of each of its elements holds them all (`UpTo`), which follows
from the library's theorem that `<` is well founded (`LeastNumber`).

**Charging.** `IInv` is the session manager's `IInv`, kept since every step is one of its steps or none
(`DrivesStep`), with `Here` (types), `Flow` (a request is consumed once, and its CCR or CCA is in one
place), `Unsettled` (the map holds a request under its own session and no longer than until it is
settled), `Found` and `AllKept`. `SettledOnce` alone is not inductive: that the answer at hand finds an
unsettled request needs that each way to settle one takes it out of the map, and that nothing puts it
back. `Watched` has to be kept when the session manager erases a session, signals its timer or gives
its turn to the next request: here the linked timers of `SM!IInv` are used. It needs `ResponseTimeout >
0`, since without one nothing watches for an answer. Assumptions: `ChargingAssumption`,
`OpenedOnceAssumption`, `SessionManagerAssumption`.

**Mediator.** Every step is a step of `Charging` or leaves its variables alone (`RunsChargingStep`), so
`AcceptedIsKept` is `AllKept` read in the mediator: an accepted request is in the map, settled, or in
`overwritten`, a history variable to which `Hold` adds the request that loses its place in the map to the
one at hand. `DroppedOnlyAtStart` needs `AdapterInv`: the state
that stops responses is left undefined by nothing but `start()`, and set to `CREATION_FAILED` only by a
consumer that has taken no message. Assumptions: those of `Charging`.

**LogPool.** `Owners` and `Holding` say that each message is in the pool, in the queue, with a thread
or with the service thread, and in one place of it. `Counted` is what the semaphores count with the
half-made steps of `get()`, `push()`, `putLogMsg` and `svc` added, which `PromisesKept` leaves out.
For the order of the records one has to follow them from the macro to the file: a message carries one
record when it is queued and none when it is back in the pool (`Texts`), records of one thread are in
order in the queue (`Queued`), what is written is older than what is queued and than what the thread
will log next (`Written`). For the files, each output's counter is the number after its last file's
(`Current`), two files are at least as far apart in the sequence as half the distance of their numbers
(`Spread`), and so the same number comes back after half of all numbers at the earliest (`Recycled`).
Assumption: `LogPoolAssumption`.

**DiameterFormer.** `FormerIInv` is `FormerTypeOK /\ Aligned /\ Drained`: what is buffered is a proper prefix of the
message at `expected`, `m_pNewDataBegin` goes on where it ends, a length that is known is the right
one, and a thread in `recv` has used up what it had received. Assumption: `FormerAssumption`, and
`CleanBreak`, without which the theorems are false (see above).

**Server.** `Net` relates the maps by number and by handle, the lists and the set of sockets;
`Receiving` says how far the receive thread is with the client it is about to enter or to remove, which
is what `MustNotEnter` depends on. `ToItsClient` needs `Lists` (a packet that is not late is in the list
of its client's connection) and `Calls` (the handle that a call of `Send` has looked up is its client's,
or the client's number is gone for ever). `UnsentCounted` counts the places of all lists, a finite set
that grows and shrinks by one with a push and a pop, and by a list's length when a connection is closed.
Assumptions: `ServerAssumption`, `RequestsAssumption`.

**Messages.** The message is `Sound` whatever has been called: `Typed` (every object has the members of
its class, every node files an AVP under its own code, and a pointer leads from a node to a later one)
and `Coherent` (members and AVPs say the same, by every row of the writers' table; a child's member names
an object of the row's class; the trigger types, the only list that lives in a node of its own, are those
of that node, and no two MSCCs share it). None of the three properties is inductive, since they
speak of the octets. `Sound` is: every operation is shown to change one object and its node (`...Changes`),
to keep both of their class (`...Typed`, `...Shaped`) and alike (`...Holds`), and so to keep the message
`Sound` (`...Sound`). After `DeleteMSCC` the row `MSCC` may be out of step, which is what `Loose` allows.

What a sound message is as octets is an induction over its nodes from the last to the first. Since pointers
lead to later nodes only, what a node counts for depends on the nodes behind it alone
(`OneNodeLooksAhead`); on the way both books, the octets written and the size counted, agree and what was
written is decoded. The encoder, the decoder and the readers are recursive functions over
sequences; that each has the value its equation says is shown once, by induction over numbers (`UpTo`).
Of the tables it is proved that no two rows of a class write the same AVP (`RowsAreDifferent`), and that
each reader looks where its writer has written, but for the rows in `Loses`; so what is read is the member
of the sound object. `MessagesAnswered` follows `AnswerTo` in the same way: a CCA is made from a
request as it was read, MSCC by MSCC, and read again. Assumption: `MessagesAssumption`.

**RequestMapping.** `MappingInv` is `SentInv /\ AnswersInv /\ ResponsesInv /\ HoldingInv`. The properties
speak of what has been sent, and a response is made of the map, so one has to know whose request the map
holds (`HoldingInv`), that each CCR was made of the message beside it (`SentInv`) and that a charge is
only sent when its quote was answered (`ResponsesInv`). The rest is a lemma on `sendCCR`: `CCRIsMade`
follows the setters and the children one after the other, each of which keeps the message `Sound`, and
`CCRIsRead` concludes, with the readers of `MessagesProofs`, that the OCS reads what was set. For
`ParametersReachOCS` the three SPI maps are shown to give the members of one service different numbers,
so that the parameters are as many as the members, the defaults and the refund's mark, and each number has
one. Assumption: `GivenAssumption`: message types and services are numbers, an optional member has a
value, and the mandatory members are not among the optional ones.

Only model-checked: the liveness properties (`OverdueExpires`, `NotificationsDelivered`, `Recovers`,
`AllWritten`, `Settles`, `QueuedIsLogged`, `WaitingIsServed`). They rest on fairness, and `ENABLED` is
beyond the prover.

## 5. Plan

1. Modelled and checked: every component of section 1 but `Settings`.
2. Proved: every safety property of the passing runs.
3. Theorems still worth having: that the decoder takes apart every tree of AVPs, not only those
   that the setters build, and that `RequestMapping` with the threads of `Charging` still is one request
   per session.
4. The life of an `OCSRequest` (who may still read it after it was deleted) as state of `Charging`, with
   two requests of one session in flight.
5. `Stop` and `Clear` of the server, with the data races they contain as choices.

### Not modelled, and why

* `Settings`: text in, values out, once and before any thread starts.
* The syntax of JSON and the text of log records, time stamps and syslog: no control depends on them.
* The DPR and DPA classes and the Dump functions: constant messages, and text for a log that nobody
  requests. `SendDPR` of `Server` has what the first are sent for.
* `Packets.h`, `DiameterConnection.cpp` and `src/Logger`: included by nothing, or not compiled.
* `src/3d_party`: the JSON parser, the RabbitMQ client and TinyXML-2, 34,000 of the 50,000 lines in the
  repository. They are vendored; where the code uses one, the models say what it relies on.
* Everything after `close()` of the logger and after `main()`'s loop: threads that nobody joins use what
  has been freed, and any outcome is possible.
