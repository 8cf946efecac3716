--------------------------- MODULE ServerLifecycle ---------------------------
(***************************************************************************)
(* Starting and stopping a CNamedPipeServer: the two objects that own one, *)
(* the host's thread that starts and stops them, and the thread that runs  *)
(* the server.                                                             *)
(*                                                                         *)
(* PipeServerWrapper, behind ipc_pipe_server_start and _stop, creates the  *)
(* server on the host's thread.  IPCServerBroker, behind ipc_broker_start  *)
(* and _stop, creates an IPCServer, and that the CNamedPipeServer, on the  *)
(* server's own thread.  The host may stop at any time after the start     *)
(* has returned, and start again after the stop has.                       *)
(***************************************************************************)
EXTENDS Naturals

CONSTANT NPipes        \* nMaxPipes

ASSUME PipesAssumption == NPipes \in Nat \ {0}

Pipe == 0 .. NPipes - 1
Owner == {"wrapper", "broker"}

VARIABLES
    owner,      \* what the host started last
    host,       \* the host's thread: no handle, holding one, or in a stop
    thread,     \* where the server's thread is
    server,     \* the broker's member server points to an IPCServer
    pServer,    \* the CNamedPipeServer exists
    exit,       \* its m_hExitEvent
    created,    \* pipe instances created so far
    signalled,  \* pipes whose event is set
    unread,     \* pipes with messages the client has not read
    target,     \* the pipe the handler writes to
    up          \* the process has not been terminated

pipeVars == <<created, signalled, unread, target>>
vars == <<owner, host, thread, server, pServer, exit, pipeVars, up>>

TypeOK ==
    /\ owner \in Owner
    /\ host \in {"idle", "running", "deleting", "closing", "joining"}
    /\ thread \in {"none", "new", "assigned", "ready", "creating", "waiting",
                   "handling", "writing", "ended"}
    /\ server \in BOOLEAN /\ pServer \in BOOLEAN /\ exit \in BOOLEAN
    /\ created \in 0 .. NPipes
    /\ signalled \subseteq Pipe /\ unread \subseteq Pipe /\ target \in Pipe
    /\ up \in BOOLEAN

Init ==
    /\ owner \in Owner
    /\ host = "idle"
    /\ thread = "none"
    /\ server = FALSE /\ pServer = FALSE /\ exit = FALSE
    /\ created = 0
    /\ signalled = {} /\ unread = {} /\ target = 0
    /\ up = TRUE

\* The server's thread is within CNamedPipeServer::Run.
Inside == thread \in {"creating", "waiting", "handling", "writing"}

-----------------------------------------------------------------------------
(***************************************************************************)
(* The server's thread.  Once its object is gone it would run on freed     *)
(* memory: such a behaviour is not followed any further.                   *)
(*                                                                         *)
(* A definition X_Fault, here and below, is X with a plausible mistake in  *)
(* it.  Nothing uses it: it stands in for X to show that a check of the    *)
(* property named with it would notice the mistake.                        *)
(***************************************************************************)

Moves(from, to) ==
    /\ up /\ thread = from /\ thread' = to
    /\ Inside => pServer
    /\ UNCHANGED <<owner, host, up>>

\* RunBroker: server = new IPCServer(), then Listen creates the pipe server.
AssignsServer ==
    /\ Moves("new", "assigned")
    /\ server' = TRUE
    /\ UNCHANGED <<pServer, exit, pipeVars>>

Listens ==
    /\ Moves("assigned", "ready")
    /\ pServer' = TRUE /\ exit' = FALSE
    /\ UNCHANGED <<server, pipeVars>>

\* IPCServer::Start runs the pipe server if there is one: the pointer is
\* cleared only after ~CNamedPipeServer has returned.
EntersRun ==
    /\ \/ pServer /\ Moves("ready", "creating")
       \/ ~pServer /\ host # "closing" /\ Moves("ready", "ended")
    /\ UNCHANGED <<server, pServer, exit, pipeVars>>

\* CreatePipeAndEvents, one instance at a time; clients may come in between.
MoreToCreate_OffByOne == created <= NPipes                      \* TypeOK
MoreToCreate == created < NPipes

CreatesPipe ==
    /\ MoreToCreate
    /\ Moves("creating", "creating")
    /\ created' = created + 1
    /\ UNCHANGED <<server, pServer, exit, signalled, unread, target>>

CreatesNoMore ==
    /\ ~MoreToCreate
    /\ Moves("creating", "waiting")
    /\ UNCHANGED <<server, pServer, exit, pipeVars>>

\* The instance cannot be created, or its first client has come and gone
\* before ConnectNamedPipe: Run returns, and nobody looks at its result.
CreateFails ==
    /\ MoreToCreate
    /\ Moves("creating", "ended")
    /\ UNCHANGED <<server, pServer, exit, pipeVars>>

LowestSignalled(p) == p \in signalled /\ \A q \in signalled : p <= q

Wakes(p) ==
    /\ LowestSignalled(p)
    /\ Moves("waiting", "handling")
    /\ signalled' = signalled \ {p}
    /\ UNCHANGED <<server, pServer, exit, created, unread, target>>

\* The exit event is the last one WaitForMultipleObjects looks at.
WakesForExit ==
    /\ exit /\ signalled = {}
    /\ Moves("waiting", "ended")
    /\ UNCHANGED <<server, pServer, exit, pipeVars>>

\* A handler writes, at once or when the client has read what is in the pipe.
HandlerWrites(p) ==
    /\ p < created
    /\ Moves("handling", "writing")
    /\ target' = p
    /\ UNCHANGED <<server, pServer, exit, created, signalled, unread>>

WriteEnds ==
    /\ target \notin unread
    /\ Moves("writing", "handling")
    /\ unread' = unread \cup {target}
    /\ UNCHANGED <<server, pServer, exit, created, signalled, target>>

HandlerReturns ==
    /\ Moves("handling", "waiting")
    /\ UNCHANGED <<server, pServer, exit, pipeVars>>

\* A client reads what has been written to it, or closes its end.
ClientTakes(p) ==
    /\ up /\ p \in unread
    /\ unread' = unread \ {p}
    /\ UNCHANGED <<owner, host, thread, server, pServer, exit, created, signalled, target, up>>

\* A client connects to a pipe that exists, writes, or closes.
ClientActs(p) ==
    /\ up /\ pServer /\ Inside /\ p < created /\ p \notin signalled
    /\ signalled' = signalled \cup {p}
    /\ UNCHANGED <<owner, host, thread, server, pServer, exit, created, unread, target, up>>

-----------------------------------------------------------------------------
(***************************************************************************)
(* The host's thread                                                       *)
(***************************************************************************)

\* ipc_pipe_server_start and ipc_broker_start return with the thread started.
Starts(o) ==
    /\ up /\ host = "idle"
    /\ owner' = o
    /\ host' = "running"
    /\ thread' = IF o = "wrapper" THEN "ready" ELSE "new"
    /\ pServer' = (o = "wrapper")
    /\ exit' = FALSE
    /\ created' = 0 /\ signalled' = {} /\ unread' = {} /\ target' = 0
    /\ UNCHANGED <<server, up>>

SetsExit_Not == exit                                            \* WrapperStopReturns
SetsExit == TRUE

\* ~PipeServerWrapper and IPCServer::Stop set the exit event; IPCServer::Stop
\* deletes the pipe server next, the wrapper joins the thread first.
AfterSignal_DeleteFirst(o) == "deleting"                        \* WrapperOutlivesThread
AfterSignal(o) == IF o = "wrapper" THEN "joining" ELSE "deleting"

Stops ==
    /\ up /\ host = "running" /\ pServer
    /\ owner = "broker" => server
    /\ exit' = SetsExit
    /\ host' = AfterSignal(owner)
    /\ UNCHANGED <<owner, thread, server, pServer, pipeVars, up>>

\* StopBroker between the creation of the IPCServer and Listen: nothing to
\* stop, but a thread to join.
StopsNothing ==
    /\ up /\ host = "running" /\ owner = "broker" /\ server /\ ~pServer
    /\ host' = "joining"
    /\ UNCHANGED <<owner, thread, server, pServer, exit, pipeVars, up>>

\* StopBroker before that returns at once; the destructor of the broker then
\* destroys a std::thread that is joinable, which terminates the process.
StopsTooEarly ==
    /\ up /\ host = "running" /\ owner = "broker" /\ ~server
    /\ up' = FALSE
    /\ UNCHANGED <<owner, host, thread, server, pServer, exit, pipeVars>>

\* ~CNamedPipeServer closes the events, then the pipes, the last one first.
DeletesPipeServer ==
    /\ up /\ host = "deleting"
    /\ pServer' = FALSE
    /\ host' = "closing"
    /\ UNCHANGED <<owner, thread, server, exit, pipeVars, up>>

\* PipeInstanceDeleter: FlushFileBuffers returns when the client has read all.
ClosesPipe ==
    /\ up /\ host = "closing" /\ created > 0
    /\ created - 1 \notin unread
    /\ created' = created - 1
    /\ UNCHANGED <<owner, host, thread, server, pServer, exit, signalled, unread, target, up>>

\* IPCServer::Stop returns to StopBroker, which joins; the other destructors
\* return to where the thread has been joined.
ClosesNoMore ==
    /\ up /\ host = "closing" /\ created = 0
    /\ host' = IF server THEN "joining" ELSE "idle"
    /\ UNCHANGED <<owner, thread, server, pServer, exit, pipeVars, up>>

\* After the join the owner deletes what is left.
Joinable_Always == TRUE                                         \* BrokerOutlivesThread
Joinable == thread = "ended"

Joins ==
    /\ up /\ host = "joining" /\ Joinable
    /\ host' = IF pServer THEN "deleting" ELSE "idle"
    /\ server' = FALSE
    /\ UNCHANGED <<owner, thread, pServer, exit, pipeVars, up>>

-----------------------------------------------------------------------------
ThreadNext ==
    \/ AssignsServer
    \/ Listens
    \/ EntersRun
    \/ CreatesPipe
    \/ CreatesNoMore
    \/ CreateFails
    \/ \E p \in Pipe : Wakes(p)
    \/ WakesForExit
    \/ WriteEnds
    \/ HandlerReturns

HostStopNext == DeletesPipeServer \/ ClosesPipe \/ ClosesNoMore \/ Joins

Next ==
    \/ ThreadNext
    \/ \E p \in Pipe : HandlerWrites(p) \/ ClientTakes(p) \/ ClientActs(p)
    \/ \E o \in Owner : Starts(o)
    \/ Stops
    \/ StopsNothing
    \/ StopsTooEarly
    \/ HostStopNext

Spec == Init /\ [][Next]_vars

-----------------------------------------------------------------------------
(***************************************************************************)
(* Safety                                                                  *)
(***************************************************************************)

\* The wrapper's pipe server exists for as long as its thread is in it.
WrapperOutlivesThread == owner = "wrapper" /\ Inside => pServer

\* The broker's IPCServer, which the thread goes through to its pipe server,
\* is deleted only after the thread has ended.
BrokerOutlivesThread ==
    owner = "broker" /\ thread \notin {"none", "new", "ended"} => server

(***************************************************************************)
(* Liveness                                                                *)
(***************************************************************************)

\* Both threads run whenever they can, a handler makes finitely many writes,
\* and clients read what is written to them.
Fairness ==
    /\ WF_vars(ThreadNext)
    /\ WF_vars(HostStopNext)
    /\ \A p \in Pipe : WF_vars(ClientTakes(p))
    /\ SF_vars(HandlerReturns)

FairSpec == Spec /\ Fairness

\* ipc_pipe_server_stop returns, if the clients fall silent and read what is
\* left for them: the exit event comes after every pipe's, and each pipe is
\* flushed before it is closed.
WrapperStopReturns ==
    <>[](signalled = {}) =>
        (owner = "wrapper" /\ host = "joining" ~> host = "idle")

(***************************************************************************)
(* Statements of the documentation the code does not keep                  *)
(***************************************************************************)

\* HowTo.md:76: ipc_broker_stop stops the service, waits for the background
\* thread to end and releases the resources.  They are not released while the
\* thread is in them.
ReleasedAfterThread == owner = "broker" /\ Inside => pServer
=============================================================================
