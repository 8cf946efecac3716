# MessageBrokerDemo in TLA+

A verification development for the message broker in `src/IPC` and the Windows
service in `src/BrokerSvc` that hosts it: TLA+ models of the broker core, the
pipe server under any number of threads, the client library, the start and stop
of the servers, and the service with its control programs; TLC runs over small instances; and TLAPS proofs of the main
invariants for every value of the constants.

## The system

Clients connect to one broker over a named pipe. A client registers an id
(1..0xFFFE), subscribes to message types, sends unicasts to an id and broadcasts
of a type. The broker keeps who holds which id and who subscribed to what, and
relays. The host of the broker (a program, or the service) supplies callbacks
that admit or refuse a connection and a registration and that hear of
disconnects.

```
 ClientApp  -- ipc_client_* -->  IPCClient / CNamedPipeClient
                                        |            worker thread, callbacks
                                   named pipe
                                        |
 BrokerSvc -- ipc_broker_* --> IPCServerBroker --> IPCServer --> CNamedPipeServer
   |  SvcMain, control handler       callbacks  <-----------  event loop
   |                                 of the host
  SCM  <-- Util_Svc (start, stop)
```

| component | state | operations | what makes it hard | what makes it correct |
|---|---|---|---|---|
| Broker core `IPCServerBroker` | `mClients` (pipe index → id), `mMessages` (type → pipe indices), `mMutex` | the callbacks OnServerConnect, OnServerMessage, OnServerDisconnect; ClientAdd, ClientUpdate, ClientDelete, MessageRegister, Broadcast, Send, SendKick | entries are keyed by a pipe index that the next connection uses again; callbacks call back into the pipe server, whose failures call the callbacks again on the same stack | one holder and one session per id; an entry and a subscription belong to the connection that made them; unicast, broadcast, KICK and notices go to the right connection; a replaced or refused connection is cut |
| Pipe server `CNamedPipeServer`, `IPCServer` | per pipe: `mCurrentState`, `mPendingIO`, `mBytesRead`, OVERLAPPED, event, buffer; `m_mutexWrite`, `m_hExitEvent` | Run (wait for events, complete, read, write, disconnect and re-arm), SendData, BroadcastData, ForceDisconnect, creation, stop, destruction | a client connects, writes or closes between any two kernel calls of a thread; the host's threads and callbacks write and disconnect beside the server thread, which shares the fields and the OVERLAPPED with them; waits prefer the lowest index; stop comes from another thread | one thread re-arms a pipe, one operation is under way on it, none is forgotten; no callback under the mutex; a connection is met before it is read; the pipe of a client that left is reclaimed; objects outlive the thread that uses them; calls and stop return |
| Broker client `IPCClient`, `CNamedPipeClient` | `m_mutexWrite`, `m_thread`, exit and done events, the object's lifetime | Start, Send, RegisterMessage, Stop, the worker's loop, OnMessage, OnDisconnect | application thread and worker make the same calls; a failed write disconnects, which joins, under the mutex | the object is not freed under the worker; calls return; results tell the truth |
| C API `IPC.cpp` | handles, the raw-server wrapper's thread | `ipc_*` functions, retries | conversions of results; which object is deleted and which thread is joined, in which order | as above |
| Message format `IPCMessage.h` | – | header check, control types | – | malformed messages are answered and dropped |
| Broker service `BrokerSvc.cpp`, `worker.cpp`, `Worker_IPCBroker.cpp` | `gSvcStatus`, `dwCheckPoint`, `ghSvcStopEvent`, the broker | SvcMain, SvcInit, ReportSvcStatus, SvcCtrlHandlerEx, worker_start, worker_stop | two threads report through one unprotected record; a stop may come before the start is over | the SCM is not told "stopped" too early; a stop is not lost; the process ends |
| Service control `Util_Svc.cpp` | local poll state | DoStartSvc, DoStopSvc, DoInstallSvc, DoDeleteSvc, … | polling somebody else's state with timeouts | the programs return |
| Service events, logging, sample applications, tests, JSON sample, vendored libraries | – | – | – | not modelled, see below |

## Modules

| module | what it is |
|---|---|
| `Broker` | broker core + pipe server's event loop + kernel pipe instances + clients |
| `Registry` | what the broker promises about identity, without pipes, calls or locks; `Broker` implements it |
| `Channel` | what the pipe server promises a host that calls it in callbacks only, without events, buffers and stacks; `PipeServer` implements it |
| `PipeServer` | a running raw pipe server: server thread, threads of the host, callbacks of either, kernel call by kernel call |
| `PipeClient` | one client of the broker or of a raw server: application thread, worker thread, object lifetime, C API results |
| `ServerLifecycle` | start and stop of a server, as raw pipe server and as broker: host thread against server thread |
| `Service` | service process (two threads), the SCM's record, the programs that install, start, stop and uninstall |
| `MCBroker`, `MCPipeServer`, `MCPipeClient` | values of the constants for TLC |
| `BrokerProofs`, `BrokerRefinement`, `RegistryProofs`, `PipeServerProofs`, `PipeServerRefinement`, `PipeClientProofs`, `ServerLifecycleProofs`, `ServiceProofs` | theorems |

`ServerLifecycle` and `Service` have one numeric constant each and need no MC
module. `ServerLifecycle` is the environment of `Broker` and `PipeServer`: both
start where all pipes have been created and the thread waits, and do not stop.
`PipeServer` and `Broker` share the pipe server's code. `Broker` has it as the
broker uses it: one thread, on which the callbacks make all the calls, so that a
step can go from one kernel call to the next; what the callbacks do is the
broker's code. In `PipeServer` the callbacks may do anything, other threads call
too, and a step is one kernel call or one access to a shared field. `Service`
sees the broker as one flag, because `worker_start` and `worker_stop` are its
only contact with it. Definitions named `X_Fault` are plausible mistakes in `X`
that no specification uses; putting one in for `X` makes the property named
beside it fail, which shows that the property depends on that piece of code.

### Broker

State and code: `mClients`, `mMessages` and `state` (`mCurrentState`) are the
fields of that name. `link`, `phase`, `inq`, `outq` are the kernel's: who is
attached to which pipe instance and what is queued. `todo` is the call stack of
the server thread, which makes nested callbacks visible: `OnServerMessage` of
one pipe may write to another, whose failure disconnects that pipe and calls
`OnServerDisconnect` inside the first callback. A step runs from one kernel call
whose outcome a client can influence to the next. `up` is FALSE after the
process has been terminated. `session` and `notified` observe: `session[c]`
records what the broker did for the connection itself, apart from the
index-keyed tables, so that properties can compare the two.

Each completion is an action (`AcceptConnect`, `RejectConnect`, `FailedRead`,
`Receive…`, `Register`, `ReplaceRegister`, `RejectRegister`, `Subscribe`,
`ReceiveBroadcast`, `RelayUnicast`, `BounceUnicast`), and so is each call into
the pipe server (`StartRead`, `WriteMessage`, `WriteFails`,
`DisconnectAndReconnect`, `RelockMutex`, `BroadcastNext`, `BroadcastDone`).
Abstractions: ids, types and clients are model values; a message is a record of
its kind and the fields the broker looks at; a client is one end of a
connection, so a process that opens two connections is two clients.

`Registry` has six actions (`Join`, `Leave`, `Take`, `Replace`, `Follow`,
`Fail`). The mapping takes the attached connection of each pipe for the session:
a session is a member while its pipe has an entry. A replacement is one
`Replace` step, in which the former holder goes and the new one gets its id.
`mClients` gives a connection that has not registered the id 0, `NoId` in the
models; a registration under id 0 (`Take` of `NoId`) is possible in the code and
in both models.

### PipeServer

`todo[t]` is the call stack of thread `t`: the calls it has yet to make,
innermost first, so that callbacks that call the server, whose calls fail and
call back again, are behaviours. The server thread's stack starts at `Wakes`
(WaitForMultipleObjects), a host thread's at one of `CallsSend`,
`CallsBroadcast`, `CallsDisconnect`, which callbacks may make as well. `link`,
`closed`, `inq`, `outq`, `listening`, `connecting`, `reading`, `writing` are the
kernel's; `event` and `overlap` are what it puts into the OVERLAPPED of a pipe;
`mCurrentState`, `mPendingIO`, `mBytesRead`, `buffer` and `m_mutexWrite` are the
fields of `CNamedPipeServer`. `DisconnectAndReconnect` is four steps
(`OnDisconnected`, `Forgets`, `Disconnects`, `Connects`) and so is a read
(`BeginsRead`, `ReadFails`/`ReadPends`/`ReadSucceeds`, `NotesSync`/
`NotesPending`); another thread may come in between any two. A thread that ends
has its pending ConnectNamedPipe cancelled by the kernel (`HostExits`). Messages
are told apart by their length only: none, fitting the read buffer, too long.

With threads of the host at work (`Host` not empty) the unprotected fields may
be wrong: a read that is taken away by another thread's disconnect leaves
`mPendingIO` or `mBytesRead` of one connection to the next, so that `OnMessage`
may be called with the wrong length, although `ipc_pipe.md:30` calls the raw API
thread safe. What holds nevertheless, and is proved, is that the kernel serialises the
re-arming: DisconnectNamedPipe fails for all but one thread, and whatever state
the fields are in, no pipe is lost. `FieldsAgree` and `MessagesWhole` are stated
for hosts that call in callbacks only.

`Channel` says what such a host can rely on: a pipe serves one connection at a
time, what its client writes is given to `OnMessage` once each and in the order
written, and a connection ends only after the host has been told. The mapping
(`PeerOf`, `SentOn`, `GivenFrom`) takes a message as sent and not yet given while
it is in the kernel's queue or in the read buffer with `OnMessage` still to be
called, and as given while that `OnMessage` is on the stack. A connection ends
where `DisconnectAndReconnect` resets `mCurrentState`, before the kernel has
disconnected the pipe: from there on nobody looks at the buffer as a message any
more. `told` is the pipes for which that reset is on the stack, below
`OnDisconnected`. `Channel` leaves to the host what the code leaves to it:
`OnDisconnected` may disconnect the pipe itself, so that one connection is told
of twice and the outer call, when it goes on, may end the next one. A message
that is too long for the buffer stays unread until its connection is cut.

### PipeClient

`pc` and `call` say where each thread is in an API call, `loop` where the worker
is; `mutex`, `exit`, `done`, `joinable`, `freed` are `m_mutexWrite`,
`m_hEventExit`, `m_hEventThreadDone`, `m_thread.joinable()` and the object's
lifetime. `SendData` is split where it may wait: for the mutex, for the write,
for the join inside `Disconnect`. `answer` is what the last call returned.
`Starts("start")` is `ipc_client_start`, which registers before it returns;
`Starts("connect")` is `ipc_pipe_client_connect`, which does not; the other calls of
the two APIs are the same below, except that a raw client does not register for
types. Both go through `CNamedPipeClient::Connect`, kernel call by kernel call:
`Opens`, `FindsAllBusy`, `FindsNoServer` are the outcomes of CreateFile,
`FindsOneFree` and `WaitsInVain` those of WaitNamedPipe, `ModeFails` and
`StartsWorker` what comes after. `listener` is what the pipe's name has to offer; it
changes at any time, as brokers start and stop and other clients come and go.
`StartsNoWorker` is the exception of `std::thread` that `ipc_client_start` catches;
`ConnectThrows` is the same exception in `ipc_pipe_client_connect`, which does not:
its `answer` is "exception", the object and its end of the pipe stay, and there is
no handle to them. What the program does after that exception is not followed. The
worker leaves its loop at a broken pipe and at a message that is longer than its
read buffer (`ReadFails`; only a raw server can send one).
Two things the application must see to are
guards of `MayCall` and `CallsStop`: there is one application thread, and a
callback that stops the client has it to itself.

### ServerLifecycle

`PipeServerWrapper` (raw API) creates the server before its thread and joins
before it deletes; `IPCServerBroker` creates it on the thread, and
`IPCServer::Stop` deletes the pipe server before `StopBroker` joins. `owner`
says which of the two was started. `exit` and `signalled` are what
`WaitForMultipleObjects` looks at, the exit event last. Destroying the pipe
server waits, pipe by pipe, until what was written has been read
(FlushFileBuffers). A thread whose object is gone is not followed any further.

### Service

`scm` is the record the SCM shows to others, `status` is `gSvcStatus`, `report`
is a `ReportSvcStatus` under way, split at its writes to `gSvcStatus` and at
`SetServiceStatus`, as the other thread may write in between. Assumptions about
Windows: the SCM takes a report made after SERVICE_STOPPED or ignores it; it
hands out one control at a time; a new process comes only once the old one has
gone; the entry of a deleted service stays until the service has stopped and no
handle to it is open. Only DoStartSvc starts the service, one copy of it at a
time. `stopper[p]` is a copy of BrokerSvc at "stop" or at "uninstall", which goes
on to DoDeleteSvc whatever DoStopSvc has found. `worker_stop` may end
(`StopsWorker`), end the process (`DiesStoppingWorker`) or wait
(`BlocksInStop`): `IPCServerBroker::StopBroker` joins a thread that it has not told
to end if the stop comes between the creation of the `IPCServer` and that of its
pipe server, and deleting the pipe server waits in FlushFileBuffers for clients
to read. Whether such a wait ends (`BlockEnds`) is left open: no fairness is
assumed of it. `ServerLifecycle` has the steps that lead to each (`StopsNothing`,
`StopsTooEarly`). Any wait with a limit may time
out at any poll. What the control programs return is left out, since `_tmain`
discards it.

## Runs

| run | instance | shows |
|---|---|---|
| `BrokerIdentity` | 2 pipes, 3 clients, 2 ids and the id 0; everybody registers under any of them, writes to one and sends malformed and reserved messages; all verdicts | `TypeOK`, `UniqueId`, `OneSessionPerId`, `NoLingeringSession`, `UnicastReachesHolder`, `KickReachesFormerHolder`, `NotifiedMeansGone` |
| `BrokerTraffic` | 2 pipes, 2 clients; both register and subscribe, one broadcasts, the other registers under the id 0 and sends messages too long to be read; fairness | `EntriesBelongToSession`, `BroadcastReachesSubscriber`, `ImplementsRegistry`, `ClosedPipeReclaimed`, `EvictedIsCut` |
| `PipeServer` | 1 pipe, 1 client, server thread and 1 host thread, 2 calls of the host under way at once | `TypeOK`, `OneReconnects`, `OneOperation`, `NoPipeLost`, `NoCallbackUnderMutex` |
| `PipeServerCallbacks` | 2 pipes, 1 client, calls in callbacks only, 1 at once, fairness | `FieldsAgree`, `MessagesWhole`, `ImplementsChannel`, `CallsReturn`, `ClosedPipeReclaimed`, `WrittenIsTaken` |
| `PipeClient` | all calls from both threads, queues of 2, fairness | `TypeOK`, `FreedUnderWorkerOnlyLate`, `LeaksOnlyByException`, `StopReturns`, `StartReturns` |
| `ServerLifecycle` | 3 pipes, both owners, fairness | `TypeOK`, `WrapperOutlivesThread`, `BrokerOutlivesThread`, `WrapperStopReturns` |
| `Service` | 2 polls, 1 copy of stop or uninstall, fairness | `TypeOK`, `StoppedMeansIdle`, `ReportsInOrder`, `StopSignalKept`, `ProgramsReturn`, `StopReachesWorker` |

Five further runs each hold a statement of the documentation or of a comment
against the model, and TLC finds it violated; see the next section.

Bounds. Two pipes are the least at which indices are shared, order matters in
the wait, and one client's message touches another's pipe; three clients on two
pipes make index reuse happen, with the former, the present and the next user of
an index all distinct; two ids let a client change its id into one that another
holds. A client is free to connect again, so two clients suffice in
`BrokerTraffic` for an index that is used again, by the same client or by the
other. One message per queue direction in `Broker` is enough for a write to wait
and for unread data to be lost; a longer queue delays, it adds no decision, as
the broker looks at one message at a time. In `PipeServer` all that threads
race for belongs to one pipe, hence one pipe with two threads, and with
`MaxCalls = 2` a call of each, or one within another's callback; two pipes come
back where callbacks meet the order of the wait. `PipeClient` has queues of two,
so that the worker may find more to read after the exit event is set. `Retries`
is 2 (5 in the code): the loop only counts. Nothing else is bounded: clients
reconnect without limit, and servers and services are started and stopped again
without limit. No run uses symmetry with a liveness property.

Deadlock is checked except where the system may really stop: in `BrokerTraffic`
the process may terminate (below); a `PipeClient` that has been freed under its
worker is not followed, and calls may block each other (below); a
`ServerLifecycle` thread may run on a deleted object (below), and the process
may be terminated.

Fairness. Weak fairness of each thread: the operating system schedules a thread
that can run. `PipeClient`, `PipeServer` and `ServerLifecycle` add strong
fairness of a callback's (a handler's) return: a callback makes finitely many
calls. In `PipeServer` it is stated per depth of nesting, as the callback that
is called within a callback is another one, and `Locks` is strongly fair: a
thread that asks for `m_mutexWrite` is not passed over for ever. Clients read
what is written to them where a property needs it, as the worker thread of
`CNamedPipeClient` does. Five premises are part of the properties. In
`ClosedPipeReclaimed` and `WrittenIsTaken` the pipes of lower index become
quiet, because `WaitForMultipleObjects` serves the lowest index first and a busy
low pipe does starve the others; in `WrapperStopReturns` the clients fall silent
and read what is left for them, because the exit event comes after all of them
and the destructor flushes. `StopReturns` assumes that the broker does not leave
the pipe full for ever: `SendData` waits for a write without limit. `StartReturns`
assumes the same, as the registration is such a write, and that instances of the
pipe do not become free and busy again for ever, because the wait for one is a
round of a loop without limit. `StopReachesWorker` says without a premise that a
stop brings the service's main thread to `worker_stop`; that it gets through it
has the premise that `ipc_broker_stop` does not wait for ever, because
`IPCServerBroker.cpp:442-450` may join a thread that nobody tells to end when the
stop comes as the worker starts, and `CNamedPipeServer.h:61` flushes to clients that
may not read.

## Where the code and its documentation differ

Each item has a run of its own.

* `BrokerRelock` (`NoSelfDeadlock`): `Broadcast` writes with `mMutex` held. If a
  subscriber has closed its end, `WritePipe` disconnects it, and
  `OnServerDisconnect` locks `mMutex` again on the same thread.
* `BrokerUnmet` (`OnConnectBeforeRead`): after a callback has disconnected a
  pipe, `GetPendingOperationResult` goes on to read from it. The next client
  of that pipe may have connected by then, and is served without `OnConnect`.
* `PipeClientDeadlock` (`EveryCallReturns`): `SendData`, on the application
  thread, joins the worker with `m_mutexWrite` held, while the worker's
  callback waits for that mutex to send.
* `ServiceReturned` (`ReturnedServiceEnds`): the handler's second report writes
  `gSvcStatus` between the main thread's write and its `SetServiceStatus`, so
  that SERVICE_STOPPED is never sent and the process stays.
* `ServerLifecycleBroker` (`ReleasedAfterThread`): `ipc_broker_stop` deletes the
  `CNamedPipeServer` before the thread inside it has been joined.

Seen while reading, without a run: `HowTo.md:348` has a client wait at most 20
seconds for an instance of the pipe, which is one round of `Connect`'s loop (see
the premise of `StartReturns`); `ipc_pipe_client_connect` does not catch what
`ipc_client_start` catches, so that a `std::thread` that cannot be created leaves
the client object and its pipe instance behind (`ConnectThrows`), where
`ipc_pipe.md:31` claims that no handles leak; a service that is stopped
just as its worker starts may hang in `worker_stop` (`BlocksInStop`); `ipc_client_register_msg` takes every result
`>= 0` for success, and Win32 error codes are positive, so that it never tries
again; `code_review.md:46` has `OnMessage` given the `mBytesRead` of an earlier
read when a read completes at once, which the code and line 180 of the same document
contradict, as ReadFile writes `mBytesRead` (`CNamedPipeServer.cpp:265-269`, and
`NotesSync` in `PipeServer`); line 180 in turn has such a read of no bytes pass
without a disconnect, where the code disconnects
(`CNamedPipeServer.cpp:288`); with threads of the host calling a raw server, `OnMessage` may be given a
wrong length (see `PipeServer` above); the OVERLAPPED of a write has no event of
its own, so that its wait is on a handle shared with the reads; when `OnAuth` refuses
a registration of a client that already holds an id, `ClientUpdate` deletes its
entry before it disconnects it, and `OnServerDisconnect`, which takes the id from
the entry, does not call the host's `OnDisconnect` (a client that is replaced goes
without that callback too, but there its id has a new holder); the KICK message
has type 2 in the code and 6 in `HowTo.md:84`; the "too large" branch of
`OnServerMessage` cannot be taken, because the read buffer has exactly that
size; a unicast whose write fails is not reported to its sender; `DoStartSvc`,
waiting for a stop, gives up at the first poll that shows no progress, as the
wait hint is 0, even if the service has just stopped; `DoStopSvc` returns 0 when
its wait for somebody else's stop has timed out; DoDeleteSvc follows DoStopSvc
whatever that has found, so that the entry of a service that is just starting is
marked as deleted and the service runs on.


## Proofs

Assumptions. `Broker`: `PipesAssumption`, `NamesAssumption`, `SendsAssumption`,
`VerdictsAssumption`, `CapsAssumption`; `PipeServer`: `PipesAssumption`,
`NamesAssumption`, `SendsAssumption`, `BoundsAssumption`; `PipeClient`:
`CallsAssumption`, `CapsAssumption`; `ServerLifecycle`: `PipesAssumption`;
`Service`: `RetriesAssumption`. They say that sizes are naturals, that the
values standing for "nobody" and "no id" are not clients, threads or ids, and that
clients send messages. Everything below holds for every value of the constants
that meets them; no fairness is used.

* `BrokerProofs`: `TypeCorrect`, `UniqueIdHolds`, `EntriesBelongToSessionHolds`,
  `NoLingeringSessionHolds`, `OneSessionPerIdHolds`. `NoLingeringSession` speaks
  about the moments at which the server thread waits; the invariant has to speak
  about the stack: a connection that has been met and has no entry is still to be
  disconnected by a call on `todo`. An entry belongs to its session, so two
  sessions with one id would be two entries with one id, which `UniqueId` excludes.
  The action properties, `UnicastReachesHolderHolds`,
  `BroadcastReachesSubscriberHolds`, `KickReachesFormerHolderHolds`,
  `NotifiedMeansGoneHolds`: the code decides by id, type or entry and writes by
  pipe index; `StackAddressed` says that the index still means the same
  connection when the write comes. For a broadcast this rests on
  `BrokerRelock`: a disconnect within one is the end of the thread.
* `BrokerRefinement`: `ImplementsRegistryHolds`, every step of `Broker` is a step
  of `Registry` or a stutter, with the invariant of `BrokerProofs`.
  `RegistryProofs`: `TypeCorrect` and `ConsistentHolds` of `Registry` itself,
  which the broker has by implementing it.
* `PipeServerProofs`: `TypeCorrect`, `OneReconnectsHolds`, `OneOperationHolds`,
  `NoPipeLostHolds`, `NoCallbackUnderMutexHolds`. The invariant: nothing is on
  top of a ConnectNamedPipe in a stack (`ConnectOnTop`); only the server thread
  reads, at the bottom of its stack (`ReadsLast`); a read under way has a client
  and an unsignalled event, and the server thread is not on that pipe
  (`ReadingQuiet`). No part is about the unprotected fields, which is why it
  holds although they may be wrong. `FieldsAgreeHolds` and `MessagesWholeHolds`
  are for `Host = {}`, where they are right: a pipe's fields agree with the kernel
  unless a call that changes them is left on the server thread's stack
  (`Settled`). That takes the order of the calls on the stack (`Paired`) and what
  each of them relies on when it is reached (`TopAgrees`): a callback may
  disconnect the very pipe the call below it is about to read.
* `PipeServerRefinement`: `ImplementsChannelHolds`, for `Host = {}`: every step of
  `PipeServer` is a step of `Channel` or a stutter. The invariants above do not
  say enough about the stack; `ChannelInv` adds what the mapping needs.
  `OnMessage` is at the bottom of the stack, above nothing but the read that
  follows it (`MessagesLast`), so that one message is given at a time and `buffer`
  does not change under it; a read that is under way or about to start finds the
  buffer empty (`ReadsFresh`); a message in the buffer that nobody was given belongs to
  the connection that is there now (`UnseenAttached`), or the next client would be
  given it; and nothing is queued from a client that is on no pipe (`ApartEmpty`).
* `PipeClientProofs`: `TypeCorrect`, `FreedUnderWorkerOnlyLateHolds`,
  `LeaksOnlyByExceptionHolds`, from who holds the mutex, what the done event tells,
  which calls the worker is in, and that an object without a handle belongs to a start
  under way or to one that has ended in an exception (`Abandoned`).
* `ServerLifecycleProofs`: `TypeCorrect`, `WrapperOutlivesThreadHolds`,
  `BrokerOutlivesThreadHolds`. An idle host has no running thread; the wrapper is
  created before its thread and joined before it is deleted; the broker may
  delete its pipe server under the thread, but not its `IPCServer`.
* `ServiceProofs`: `StoppedMeansIdleHolds`, `TypeCorrect`, `ReportsInOrderHolds`,
  `StopSignalKeptHolds`. The first needs that
  SERVICE_STOPPED is neither reported nor left in `gSvcStatus` before the worker
  has stopped, and that the handler comes after SERVICE_RUNNING. The second bounds
  `dwCheckPoint`, which nobody resets, by the reports a process makes, for any
  number of programs that stop it: the main thread's first, the handler's first,
  and the handler's second where it is a pending state. The handler is called
  once, as SERVICE_RUNNING is not sent again. The other two add `Seen`: what
  the SCM shows follows the two threads, and from the handler's first report on
  neither the SCM's record nor `gSvcStatus` is anything but SERVICE_STOP_PENDING or
  SERVICE_STOPPED, so that it does not matter whose state a report carries. The
  last is the safety core of `StopReachesWorker`: nothing takes the signal back.
  None of them depends on whether `worker_stop` comes back.

Only model-checked: liveness, which is out of this prover's reach.

## Not modelled

* Several application threads in one client, and `ipc_client_stop` in a callback
  while another thread is in a call: no document says what is allowed.
* `DoUpdateSvcDacl` and `RegisterSvcStatusChange*`, which nothing calls, and
  `StopDependentServices`: the service is installed without dependents. The start
  of the installed service with the system (SERVICE_AUTO_START).
* Power, session and device events: the control handler logs them.
* Logging, byte layout and time stamps of messages, the sample applications, the
  JSON sample, the test program.
* The vendored nlohmann/json and spdlog. They are most of the lines under `src/`;
  the broker, the client and the service use spdlog for logging only and JSON not
  at all, so that their text decides nothing about the system. The lines that
  remain are almost all modelled, apart from the items above.
* What a program does after `ipc_pipe_client_connect` has ended in an exception.
* A write's wait that is over too early because of the shared handle: what it
  yields is not documented.

## Plan

Done: the core of every component above, with its runs; the abstract registry
and the abstract channel with the proofs that the broker and the pipe server
implement them; all state invariants, all action properties and both refinements
of the passing runs proved.

Left: the broker stopped at any moment, `Broker` composed with the stop of
`ServerLifecycle`, to see what the host hears of the connections open then.
