----------------------------- MODULE PipeClient -----------------------------
(***************************************************************************)
(* One client: the ipc_client_* calls on top of IPCClient, or the raw      *)
(* ipc_pipe_client_* calls, on top of CNamedPipeClient, between the two    *)
(* threads that run them.                                                  *)
(*                                                                         *)
(* The application thread starts the client, sends, registers for message  *)
(* types and stops it.  The worker thread reads the pipe and calls the     *)
(* application's OnMessage and OnDisconnect, and those callbacks may make  *)
(* the same calls.  The two meet at m_mutexWrite, at the std::thread       *)
(* object, at two events and at the lifetime of the client object.         *)
(*                                                                         *)
(* A step of a thread runs up to the next point where it may have to wait. *)
(* What the messages say does not matter here: the pipe's two directions   *)
(* are counters, and the broker at the other end is its pipe server only,  *)
(* which may start, stop and be busy with other clients at any time.       *)
(***************************************************************************)
EXTENDS Naturals

CONSTANTS
    Calls,     \* Calls[t]: what the application calls on thread t, out of
               \*   ipc_client_send, _register_msg and _stop
    InCap,     \* bound: messages queued from the broker
    OutCap     \* messages the pipe holds for the broker before a write waits

Thread == {"app", "worker"}
ApiCall == {"send", "register", "stop"}
\* ipc_client_start and ipc_pipe_client_connect: the application's thread only.
StartCall == {"start", "connect"}

ASSUME CallsAssumption == Calls \in [Thread -> SUBSET ApiCall]
ASSUME CapsAssumption == InCap \in Nat \ {0} /\ OutCap \in Nat \ {0}

VARIABLES
    \* the two threads
    pc,         \* pc[t]: where t is in an API call; "rest" outside of one
    call,       \* call[t]: the API call t is in, or "none"
    loop,       \* the worker: not started, reading, waiting, in OnMessage, in
                \*   OnDisconnect, or ended
    \* CNamedPipeClient
    mutex,      \* holder of m_mutexWrite, or "free"
    exit,       \* m_hEventExit
    done,       \* m_hEventThreadDone
    joinable,   \* m_thread refers to the worker
    freed,      \* the object has been deleted
    timedOut,   \* the destructor gave up waiting for the worker
    \* the application and the pipe
    handle,     \* what the application has: a client of the broker, a raw
                \*   one, or "none"
    answer,     \* what the last call told the application
    listener,   \* the pipe's name: no server, all its instances taken, or one
                \*   of them free
    peer,       \* "up", or "gone": the broker has cut or closed its end
    inbox,      \* messages for the worker to read
    outbox      \* messages the broker has yet to read

objectVars == <<mutex, exit, done, joinable, freed, timedOut>>
linkVars == <<peer, inbox, outbox>>
pipeVars == <<listener, linkVars>>
vars == <<pc, call, loop, objectVars, handle, answer, pipeVars>>

\* ERROR_SUCCESS and any Win32 error: error codes are positive.
NoError == 0
Win32Error == 1

Place == {"rest", "open", "await", "mode", "lock", "write", "join", "destroy"}
Result == {"IPC_OK", "IPC_ERR", "exception"}
Answer == [call : ApiCall \cup StartCall \cup {"none"}, result : Result]

TypeOK ==
    /\ pc \in [Thread -> Place]
    /\ call \in [Thread -> ApiCall \cup StartCall \cup {"none"}]
    /\ loop \in {"off", "read", "wait", "message", "disconnect", "ended"}
    /\ mutex \in Thread \cup {"free"}
    /\ exit \in BOOLEAN /\ done \in BOOLEAN /\ joinable \in BOOLEAN
    /\ freed \in BOOLEAN /\ timedOut \in BOOLEAN
    /\ handle \in {"none", "broker", "raw"}
    /\ answer \in Answer
    /\ listener \in {"none", "busy", "free"}
    /\ peer \in {"up", "gone"}
    /\ inbox \in 0 .. InCap
    /\ outbox \in 0 .. OutCap

Init ==
    /\ pc = [t \in Thread |-> "rest"]
    /\ call = [t \in Thread |-> "none"]
    /\ loop = "off"
    /\ mutex = "free"
    /\ exit = FALSE
    /\ done = TRUE
    /\ joinable = FALSE
    /\ freed = TRUE
    /\ timedOut = FALSE
    /\ handle = "none"
    /\ answer = [call |-> "none", result |-> "IPC_OK"]
    /\ listener \in {"none", "busy", "free"}
    /\ peer = "gone"
    /\ inbox = 0
    /\ outbox = 0

-----------------------------------------------------------------------------
(***************************************************************************)
(* The broker's end of the pipe                                            *)
(***************************************************************************)

PeerSends ==
    /\ peer = "up" /\ inbox < InCap
    /\ inbox' = inbox + 1
    /\ UNCHANGED <<pc, call, loop, objectVars, handle, answer, listener, peer, outbox>>

PeerReads ==
    /\ peer = "up" /\ outbox > 0
    /\ outbox' = outbox - 1
    /\ UNCHANGED <<pc, call, loop, objectVars, handle, answer, listener, peer, inbox>>

\* DisconnectNamedPipe throws away what the client has not read; a broker that
\* ends without it leaves that to be read.
PeerGoes ==
    /\ peer = "up"
    /\ peer' = "gone"
    /\ inbox' \in {0, inbox}
    /\ outbox' = 0
    /\ UNCHANGED <<pc, call, loop, objectVars, handle, answer, listener>>

\* A server starts or stops; other clients take instances and leave them.
ListenerChanges ==
    /\ listener' \in {"none", "busy", "free"} \ {listener}
    /\ UNCHANGED <<pc, call, loop, objectVars, handle, answer, linkVars>>

Broken == peer = "gone" /\ inbox = 0

-----------------------------------------------------------------------------
(***************************************************************************)
(* The worker thread's loop.  After the object is gone it would run on     *)
(* freed memory: such a behaviour is not followed any further.             *)
(*                                                                         *)
(* A definition X_Fault, here and below, is X with a plausible mistake in  *)
(* it.  Nothing uses it: it stands in for X to show that a check of the    *)
(* property named with it would notice the mistake.                        *)
(***************************************************************************)

WorkerMoves(from, to) ==
    /\ ~freed
    /\ loop = from /\ loop' = to
    /\ UNCHANGED <<pc, call, objectVars, handle, answer, listener, peer, outbox>>

StartRead == ~Broken /\ WorkerMoves("read", "wait") /\ UNCHANGED inbox

\* ReadFile fails on a broken pipe, and with ERROR_MORE_DATA when a message is
\* there that is longer than the read buffer: the broker sends none, a raw
\* server may.
ReadFails ==
    /\ Broken \/ (handle = "raw" /\ inbox > 0)
    /\ WorkerMoves("read", "disconnect")
    /\ UNCHANGED inbox

\* WaitForMultipleObjects names the exit event first.
Exits == exit /\ WorkerMoves("wait", "disconnect") /\ UNCHANGED inbox

Delivers ==
    /\ ~exit /\ inbox > 0
    /\ WorkerMoves("wait", "message")
    /\ inbox' = inbox - 1

PipeBreaks == ~exit /\ Broken /\ WorkerMoves("wait", "disconnect") /\ UNCHANGED inbox

InCallback == loop \in {"message", "disconnect"} /\ pc["worker"] = "rest"

OnMessageReturns ==
    InCallback /\ WorkerMoves("message", "read") /\ UNCHANGED inbox

\* SetEvent(m_hEventThreadDone) is the worker's last access to the object.
OnDisconnectReturns ==
    /\ ~freed /\ InCallback /\ loop = "disconnect"
    /\ loop' = "ended"
    /\ done' = TRUE
    /\ UNCHANGED <<pc, call, mutex, exit, joinable, freed, timedOut, handle, answer, pipeVars>>

-----------------------------------------------------------------------------
(***************************************************************************)
(* The API: what a call tells the application                              *)
(***************************************************************************)

SendResult_PassedOn(err) ==                                        \* TypeOK
    IF err = NoError THEN "IPC_OK" ELSE "Win32 error"
SendResult(err) == IF err = NoError THEN "IPC_OK" ELSE "IPC_ERR"

\* ipc_client_register_msg retries only on a negative result, which SendData
\* gives for no message and IPCClient for no pipe client: a registration that
\* could not be written is answered with IPC_OK.
RegisterResult(err) == IF err >= 0 THEN "IPC_OK" ELSE "IPC_ERR"

\* ipc_client_start does not look at the outcome of RegisterClient: it hands
\* out the handle all the same.
ResultOf(c, err) ==
    CASE c = "send"     -> SendResult(err)
      [] c = "register" -> RegisterResult(err)
      [] OTHER          -> "IPC_OK"

Leaves(t, result) ==
    /\ pc' = [pc EXCEPT ![t] = "rest"]
    /\ call' = [call EXCEPT ![t] = "none"]
    /\ answer' = [call |-> call[t], result |-> result]

Returns(t, err) ==
    /\ Leaves(t, ResultOf(call[t], err))
    /\ handle' = CASE call[t] = "start"   -> "broker"
                   [] call[t] = "connect" -> "raw"
                   [] call[t] = "stop"    -> "none"
                   [] OTHER               -> handle

Goes(t, to) ==
    /\ pc' = [pc EXCEPT ![t] = to]
    /\ UNCHANGED <<call, answer, handle>>

(***************************************************************************)
(* ipc_client_start, ipc_pipe_client_connect: CNamedPipeClient::Connect    *)
(***************************************************************************)

\* A new object: m_hEventThreadDone is set, as no worker runs.
Starts(c) ==
    /\ handle = "none" /\ pc["app"] = "rest" /\ loop \in {"off", "ended"} /\ freed
    /\ pc' = [pc EXCEPT !["app"] = "open"]
    /\ call' = [call EXCEPT !["app"] = c]
    /\ loop' = "off"
    /\ exit' = FALSE /\ done' = TRUE /\ joinable' = FALSE /\ freed' = FALSE
    /\ timedOut' = FALSE
    /\ UNCHANGED <<mutex, handle, answer, pipeVars>>

\* CreateFile.
Opens ==
    /\ pc["app"] = "open" /\ listener = "free"
    /\ Goes("app", "mode")
    /\ listener' \in {"busy", "free"}
    /\ peer' = "up" /\ inbox' = 0 /\ outbox' = 0
    /\ UNCHANGED <<loop, objectVars>>

FindsAllBusy ==
    /\ pc["app"] = "open" /\ listener = "busy"
    /\ Goes("app", "await")
    /\ UNCHANGED <<loop, objectVars, pipeVars>>

\* A Connect that fails leaves nothing behind: the object is deleted, whose
\* done event is set, and its end of the pipe is closed.
Deletes_Leaks == UNCHANGED freed                                   \* LeaksOnlyByException
Deletes == freed' = TRUE

FailsToConnect ==
    /\ Deletes
    /\ Leaves("app", "IPC_ERR")
    /\ peer' = "gone" /\ inbox' = 0 /\ outbox' = 0
    /\ UNCHANGED <<loop, mutex, exit, done, joinable, timedOut, handle, listener>>

FindsNoServer ==
    /\ pc["app"] = "open" /\ listener = "none"
    /\ FailsToConnect

\* WaitNamedPipe: an instance is free, which others may take before CreateFile
\* does; or the 20 seconds are over, or the server is gone.
FindsOneFree ==
    /\ pc["app"] = "await" /\ listener = "free"
    /\ Goes("app", "open")
    /\ UNCHANGED <<loop, objectVars, pipeVars>>

WaitsInVain_TriesAgain ==                                          \* StartReturns
    /\ pc["app"] = "await" /\ listener # "free"
    /\ Goes("app", "open")
    /\ UNCHANGED <<loop, objectVars, pipeVars>>
WaitsInVain ==
    /\ pc["app"] = "await" /\ listener # "free"
    /\ FailsToConnect

\* SetNamedPipeHandleState: the server may have cut the connection by now.
ModeFails ==
    /\ pc["app"] = "mode" /\ peer = "gone"
    /\ FailsToConnect

DoneAtStart_Signalled == TRUE                                      \* FreedUnderWorkerOnlyLate
DoneAtStart == FALSE

\* OnConnect is called and the worker started.  A client of the broker is
\* registered next: RegisterClient writes.
StartsWorker ==
    /\ pc["app"] = "mode"
    /\ loop' = "read"
    /\ done' = DoneAtStart /\ joinable' = TRUE
    /\ \/ call["app"] = "start" /\ Goes("app", "lock")
       \/ call["app"] = "connect" /\ Returns("app", NoError)
    /\ UNCHANGED <<mutex, exit, freed, timedOut, pipeVars>>

\* std::thread throws: ipc_client_start catches it and deletes the client,
\* whose done event has been reset for a worker that does not exist.
StartsNoWorker ==
    /\ pc["app"] = "mode" /\ call["app"] = "start"
    /\ done' = DoneAtStart
    /\ exit' = TRUE
    /\ Goes("app", "destroy")
    /\ UNCHANGED <<loop, mutex, joinable, freed, timedOut, pipeVars>>

\* ipc_pipe_client_connect does not catch it: the call ends with the exception
\* in the application, which is left without a handle to the object and to the
\* pipe it has open.  A client nobody can refer to is not followed any further.
ConnectThrows ==
    /\ pc["app"] = "mode" /\ call["app"] = "connect"
    /\ done' = DoneAtStart
    /\ Leaves("app", "exception")
    /\ UNCHANGED <<loop, mutex, exit, joinable, freed, timedOut, handle, pipeVars>>

(***************************************************************************)
(* CNamedPipeClient::Disconnect                                            *)
(***************************************************************************)

SetExit_Forgotten == exit                                          \* StopReturns
SetExit == TRUE

\* Sets the exit event; the application thread then joins the worker, the
\* worker itself lets go of the thread object.
MustJoin(t) == joinable /\ t = "app"

SignalsAndLetsGo == exit' = SetExit /\ joinable' = FALSE
SignalsToJoin == exit' = SetExit /\ UNCHANGED joinable

(***************************************************************************)
(* ipc_client_send, ipc_client_register_msg, ipc_pipe_client_send: SendData*)
(***************************************************************************)

\* The application thread may stop the client while the worker is in a
\* callback, and the callback may go on using it meanwhile.  A callback that
\* stops the client has it to itself: the application must see to that.
MayCall(t) ==
    /\ handle # "none" /\ ~freed /\ pc[t] = "rest"
    /\ t = "worker" => InCallback
    /\ t = "app" => call["worker"] # "stop"

CallsSend(t, c) ==
    /\ MayCall(t) /\ c \in Calls[t] \ {"stop"}
    /\ c = "register" => handle = "broker"
    /\ pc' = [pc EXCEPT ![t] = "lock"]
    /\ call' = [call EXCEPT ![t] = c]
    /\ UNCHANGED <<loop, objectVars, handle, answer, pipeVars>>

Locks(t) ==
    /\ pc[t] = "lock" /\ mutex = "free"
    /\ mutex' = t
    /\ Goes(t, "write")
    /\ UNCHANGED <<loop, exit, done, joinable, freed, timedOut, pipeVars>>

\* WriteFile, or GetOverlappedResult with bWait once the pipe has room.
Writes(t) ==
    /\ pc[t] = "write" /\ peer = "up" /\ outbox < OutCap
    /\ outbox' = outbox + 1
    /\ mutex' = "free"
    /\ Returns(t, NoError)
    /\ UNCHANGED <<loop, exit, done, joinable, freed, timedOut, listener, peer, inbox>>

\* The write fails and SendData calls Disconnect with m_mutexWrite held.
WriteFailsAndReturns(t) ==
    /\ pc[t] = "write" /\ peer = "gone" /\ ~MustJoin(t)
    /\ SignalsAndLetsGo
    /\ mutex' = "free"
    /\ Returns(t, Win32Error)
    /\ UNCHANGED <<loop, done, freed, timedOut, pipeVars>>

WriteFailsAndJoins(t) ==
    /\ pc[t] = "write" /\ peer = "gone" /\ MustJoin(t)
    /\ SignalsToJoin
    /\ Goes(t, "join")
    /\ UNCHANGED <<loop, mutex, done, freed, timedOut, pipeVars>>

\* join returns when the worker has ended.  When the worker lets go of the
\* same std::thread meanwhile, join may fail at once: the exception is caught.
JoinOver(t) == pc[t] = "join" /\ (loop = "ended" \/ ~joinable)

SendJoined(t) ==
    /\ JoinOver(t) /\ call[t] # "stop"
    /\ joinable' = FALSE
    /\ mutex' = "free"
    /\ Returns(t, Win32Error)
    /\ UNCHANGED <<loop, exit, done, freed, timedOut, pipeVars>>

(***************************************************************************)
(* ipc_client_stop, ipc_pipe_client_disconnect: Disconnect, then the       *)
(* destructor                                                              *)
(***************************************************************************)

CallsStop(t) ==
    /\ MayCall(t) /\ "stop" \in Calls[t]
    /\ t = "worker" => pc["app"] = "rest"
    /\ call' = [call EXCEPT ![t] = "stop"]
    /\ IF MustJoin(t)
       THEN SignalsToJoin /\ pc' = [pc EXCEPT ![t] = "join"]
       ELSE SignalsAndLetsGo /\ pc' = [pc EXCEPT ![t] = "destroy"]
    /\ UNCHANGED <<loop, mutex, done, freed, timedOut, handle, answer, pipeVars>>

StopJoined(t) ==
    /\ JoinOver(t) /\ call[t] = "stop"
    /\ joinable' = FALSE
    /\ Goes(t, "destroy")
    /\ UNCHANGED <<loop, mutex, exit, done, freed, timedOut, pipeVars>>

\* ~CNamedPipeClient: wait for m_hEventThreadDone, close everything.  A start
\* that gets here has failed.
Destroys(t) ==
    /\ pc[t] = "destroy"
    /\ freed' = TRUE
    /\ peer' = "gone" /\ inbox' = 0 /\ outbox' = 0
    /\ \/ call[t] = "stop" /\ Returns(t, NoError)
       \/ call[t] = "start" /\ Leaves(t, "IPC_ERR") /\ UNCHANGED handle
    /\ UNCHANGED <<loop, mutex, exit, done, joinable, listener>>

DestroysAfterWorker(t) == done /\ Destroys(t) /\ UNCHANGED timedOut
DestroysAfterTimeout(t) == ~done /\ Destroys(t) /\ timedOut' = TRUE

-----------------------------------------------------------------------------
LoopNext ==
    \/ StartRead
    \/ ReadFails
    \/ Exits
    \/ Delivers
    \/ PipeBreaks
    \/ OnMessageReturns
    \/ OnDisconnectReturns

StartNext ==
    \/ Opens
    \/ FindsAllBusy
    \/ FindsNoServer
    \/ FindsOneFree
    \/ WaitsInVain
    \/ ModeFails
    \/ StartsWorker
    \/ StartsNoWorker
    \/ ConnectThrows

InCall(t) ==
    /\ ~freed
    /\ \/ t = "app" /\ StartNext
       \/ Locks(t)
       \/ Writes(t)
       \/ WriteFailsAndReturns(t)
       \/ WriteFailsAndJoins(t)
       \/ SendJoined(t)
       \/ StopJoined(t)
       \/ DestroysAfterWorker(t)
       \/ DestroysAfterTimeout(t)

Next ==
    \/ PeerSends \/ PeerReads \/ PeerGoes \/ ListenerChanges
    \/ LoopNext
    \/ \E c \in StartCall : Starts(c)
    \/ \E t \in Thread :
        \/ \E c \in ApiCall : CallsSend(t, c)
        \/ CallsStop(t)
        \/ InCall(t)

Spec == Init /\ [][Next]_vars

-----------------------------------------------------------------------------
(***************************************************************************)
(* Safety                                                                  *)
(***************************************************************************)

\* The client is deleted while its worker thread still runs, or while a thread
\* holds its mutex, only if the destructor has waited its five seconds in
\* vain: neither the join nor, once the worker has let go of the thread
\* object, the event is skipped.
FreedUnderWorkerOnlyLate ==
    freed /\ ~timedOut => loop \in {"off", "ended"} /\ mutex = "free"

\* Between two calls the application has a handle if and only if there is an
\* object, and without one the pipe is closed: an ipc_client_start that fails
\* at whichever call, and an ipc_pipe_client_connect that returns, keep neither
\* the object nor an instance of the broker's pipe, and a stop on either thread
\* takes the handle with the object.  What is left behind without a handle is
\* the client of an ipc_pipe_client_connect that ended in an exception.
LeaksOnlyByException ==
    /\ (\A t \in Thread : pc[t] = "rest") =>
           (handle = "none" <=> freed \/ answer = [call |-> "connect", result |-> "exception"])
    /\ freed => peer = "gone"

(***************************************************************************)
(* Liveness                                                                *)
(***************************************************************************)

\* Both threads run whenever they can, and a callback makes finitely many
\* calls before it returns.
Fairness ==
    /\ \A t \in Thread : WF_vars(InCall(t))
    /\ WF_vars(LoopNext)
    /\ SF_vars(OnMessageReturns) /\ SF_vars(OnDisconnectReturns)

FairSpec == Spec /\ Fairness

BrokerKeepsReading == []<>(outbox < OutCap \/ peer = "gone")

\* ipc_client_stop returns, whatever the worker is doing when it is called, if
\* the broker does not leave the pipe full for ever.
StopReturns ==
    BrokerKeepsReading => \A t \in Thread : call[t] = "stop" ~> call[t] # "stop"

\* ipc_client_start and ipc_pipe_client_connect return, unless instances of
\* the pipe become free and are taken by others again and again: the wait of
\* 20 seconds is one round of a loop without limit.
StartReturns ==
    /\ <>[](listener # "free") \/ <>[](listener # "busy")
    /\ BrokerKeepsReading
    => (call["app"] \in StartCall ~> call["app"] \notin StartCall)

(***************************************************************************)
(* Statements of the documentation the code does not keep                  *)
(***************************************************************************)

\* ipc_pipe.md:30 says thread safe, with the writes under a mutex and the
\* reads in a thread of their own: calls made on both threads all return, as
\* long as there is a client.
EveryCallReturns ==
    BrokerKeepsReading =>
        \A t \in Thread : call[t] \in ApiCall ~> (call[t] = "none" \/ freed)
=============================================================================
