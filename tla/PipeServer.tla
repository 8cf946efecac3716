----------------------------- MODULE PipeServer -----------------------------
(***************************************************************************)
(* A running raw pipe server: CNamedPipeServer behind ipc_pipe_server_*,   *)
(* with the server thread in its event loop, threads of the host that      *)
(* send, broadcast and disconnect meanwhile, and callbacks that do the     *)
(* same from either kind of thread.                                        *)
(*                                                                         *)
(* The threads meet at m_mutexWrite and, with nothing to protect it, at    *)
(* each pipe's mCurrentState, mPendingIO, mBytesRead, read buffer and      *)
(* OVERLAPPED with its event.  todo[t] is what thread t has yet to do,     *)
(* innermost call first; a step makes one kernel call or touches one of    *)
(* the shared fields, as another thread may come in before the next.  Only *)
(* what GetPendingOperationResult looks at is looked at in one step: which *)
(* callback it makes is all that depends on it.                            *)
(*                                                                         *)
(* Creating the pipes, the exit event and the end of the server are in     *)
(* ServerLifecycle: here all pipes exist and the server is not stopped.    *)
(***************************************************************************)
EXTENDS Naturals, Sequences, FiniteSetsExt

CONSTANTS
    NPipes,      \* nMaxPipes
    Client,      \* ends of connections; a recycled one may connect again
    NoClient,    \* nobody is attached to a pipe instance
    Server,      \* the thread in CNamedPipeServer::Run
    Host,        \* threads of the host that may call the server
    Sends,       \* lengths of the messages clients write
    OutCap,      \* bound: messages queued from the server to a client
    MaxCalls     \* bound: calls of the host to the server under way at once

Pipe == 0 .. NPipes - 1
Thread == Host \cup {Server}

\* A message of no bytes, one that fits the read buffer, one that does not.
Length == {"empty", "fits", "long"}

ASSUME PipesAssumption == NPipes \in Nat \ {0}
ASSUME NamesAssumption ==
    /\ NoClient \notin Client
    /\ Server \notin Host
    /\ "free" \notin Thread /\ "nobody" \notin Thread
ASSUME SendsAssumption == Sends \subseteq Length
ASSUME BoundsAssumption == OutCap \in Nat \ {0} /\ MaxCalls \in Nat

VARIABLES
    \* the kernel's pipe instances
    link,        \* link[p]: the client attached to p, NoClient if none
    closed,      \* attached clients that have closed their end
    inq,         \* inq[c]: written by c, not yet read
    outq,        \* outq[c]: number of messages c has yet to read
    listening,   \* pipes a client may connect to
    connecting,  \* connecting[p]: the thread whose ConnectNamedPipe is under
                 \*   way on p, or "nobody"
    reading,     \* pipes with a ReadFile under way
    writing,     \* pipes with a WriteFile under way
    \* CNamedPipeServer
    event,       \* event[p]: the event in the OVERLAPPED of p is set
    overlap,     \* overlap[p]: what the OVERLAPPED says of the operation; of a
                 \*   read that has succeeded, the length
    mCurrentState,
    mPendingIO,
    buffer,      \* buffer[p]: the message in mPipeReadBuffer, if any
    mBytesRead,
    m_mutexWrite,\* the thread that holds it, or "free"
    \* the threads
    todo         \* todo[t]: the calls t has yet to make

kernelVars == <<link, closed, inq, outq, listening, connecting, reading, writing>>
ioVars == <<event, overlap>>
fieldVars == <<mCurrentState, mPendingIO, buffer, mBytesRead>>
vars == <<kernelVars, ioVars, fieldVars, m_mutexWrite, todo>>

\* The calls on a thread's stack.
At(step, p) == [step |-> step, pipe |-> p]
Callback(e, p, whole) == [step |-> "callback", event |-> e, pipe |-> p, whole |-> whole]

Call ==
    [step : {"result", "read", "ReadFile", "forget", "DisconnectNamedPipe",
             "ConnectNamedPipe", "sync", "pend", "lock", "WriteFile", "wait"},
     pipe : Pipe]
        \cup [step : {"broadcast"}, pipe : 0 .. NPipes]
        \cup [step : {"callback"}, event : {"connect", "message", "disconnect"},
              pipe : Pipe, whole : BOOLEAN]

TypeOK ==
    /\ link \in [Pipe -> Client \cup {NoClient}]
    /\ closed \subseteq Client
    /\ inq \in [Client -> Seq(Length)]
    /\ outq \in [Client -> 0 .. OutCap]
    /\ connecting \in [Pipe -> Thread \cup {"nobody"}]
    /\ listening \subseteq Pipe /\ reading \subseteq Pipe /\ writing \subseteq Pipe
    /\ event \in [Pipe -> BOOLEAN]
    /\ overlap \in [Pipe -> {"pending", "connected", "failed"} \cup Length]
    /\ mCurrentState \in [Pipe -> {"CONNECTING", "READING"}]
    /\ mPendingIO \in [Pipe -> BOOLEAN]
    /\ buffer \in [Pipe -> Length \cup {"none"}]
    /\ mBytesRead \in [Pipe -> Length]
    /\ m_mutexWrite \in Thread \cup {"free"}
    /\ todo \in [Thread -> Seq(Call)]

\* After CreatePipeAndEvents, with every instance waiting for its client.
Init ==
    /\ link = [p \in Pipe |-> NoClient]
    /\ closed = {}
    /\ inq = [c \in Client |-> <<>>]
    /\ outq = [c \in Client |-> 0]
    /\ listening = Pipe /\ reading = {} /\ writing = {}
    /\ connecting = [p \in Pipe |-> Server]
    /\ event = [p \in Pipe |-> FALSE]
    /\ overlap = [p \in Pipe |-> "pending"]
    /\ mCurrentState = [p \in Pipe |-> "CONNECTING"]
    /\ mPendingIO = [p \in Pipe |-> TRUE]
    /\ buffer = [p \in Pipe |-> "none"]
    /\ mBytesRead = [p \in Pipe |-> "empty"]
    /\ m_mutexWrite = "free"
    /\ todo = [t \in Thread |-> <<>>]

-----------------------------------------------------------------------------
(***************************************************************************)
(* The kernel                                                              *)
(***************************************************************************)

Open(p) == link[p] # NoClient /\ link[p] \notin closed

\* DisconnectNamedPipe has been called and ConnectNamedPipe has not.
Down(p) == link[p] = NoClient /\ p \notin listening

\* An operation on p with the OVERLAPPED of p ends.
Completes(p, status) ==
    /\ overlap' = [overlap EXCEPT ![p] = status]
    /\ event' = [event EXCEPT ![p] = TRUE]

ClientConnect(c, p) ==
    /\ p \in listening /\ \A q \in Pipe : link[q] # c
    /\ link' = [link EXCEPT ![p] = c]
    /\ listening' = listening \ {p}
    /\ connecting' = [connecting EXCEPT ![p] = "nobody"]
    /\ IF connecting[p] # "nobody"
       THEN Completes(p, "connected")
       ELSE UNCHANGED ioVars
    /\ UNCHANGED <<closed, inq, outq, reading, writing, fieldVars, m_mutexWrite, todo>>

\* A message goes to the read that waits for it, or into the pipe.
ClientWrite(p, m) ==
    /\ Open(p) /\ inq[link[p]] = <<>>
    /\ IF p \in reading
       THEN /\ Completes(p, IF m = "long" THEN "failed" ELSE m)
            /\ buffer' = [buffer EXCEPT ![p] = m]
            /\ reading' = reading \ {p}
            /\ UNCHANGED inq
       ELSE /\ inq' = [inq EXCEPT ![link[p]] = <<m>>]
            /\ UNCHANGED <<ioVars, buffer, reading>>
    /\ UNCHANGED <<link, closed, outq, listening, connecting, writing, mCurrentState,
                   mPendingIO, mBytesRead, m_mutexWrite, todo>>

ClientRead(c) ==
    /\ outq[c] > 0
    /\ outq' = [outq EXCEPT ![c] = @ - 1]
    /\ UNCHANGED <<link, closed, inq, listening, connecting, reading, writing,
                   ioVars, fieldVars, m_mutexWrite, todo>>

\* CloseHandle: a read or a write under way on the pipe fails.
ClientClose(p) ==
    /\ Open(p)
    /\ closed' = closed \cup {link[p]}
    /\ outq' = [outq EXCEPT ![link[p]] = 0]
    /\ reading' = reading \ {p} /\ writing' = writing \ {p}
    /\ IF p \in reading THEN Completes(p, "failed") ELSE UNCHANGED ioVars
    /\ UNCHANGED <<link, inq, listening, connecting, fieldVars, m_mutexWrite, todo>>

\* When a thread exits, what it has under way is cancelled.
HostExits(h) ==
    LET cancelled == {p \in Pipe : connecting[p] = h} IN
    /\ todo[h] = <<>> /\ cancelled # {}
    /\ connecting' = [p \in Pipe |-> IF p \in cancelled THEN "nobody" ELSE connecting[p]]
    /\ overlap' = [p \in Pipe |-> IF p \in cancelled THEN "failed" ELSE overlap[p]]
    /\ event' = [p \in Pipe |-> event[p] \/ p \in cancelled]
    /\ UNCHANGED <<link, closed, inq, outq, listening, reading, writing, fieldVars,
                   m_mutexWrite, todo>>

-----------------------------------------------------------------------------
(***************************************************************************)
(* The stacks                                                              *)
(*                                                                         *)
(* A definition X_Fault, here and below, is X with a plausible mistake in  *)
(* it.  Nothing uses it: it stands in for X to show that a check of the    *)
(* property named with it would notice the mistake.                        *)
(***************************************************************************)

Busy(t) == todo[t] # <<>>
Is(t, step) == Busy(t) /\ Head(todo[t]).step = step
On(t) == Head(todo[t]).pipe

\* The call at the top of t's stack goes on with these.
Goes(t, calls) == todo' = [todo EXCEPT ![t] = calls \o Tail(@)]
Returns(t) == Goes(t, <<>>)

DisconnectAndReconnect_KeepsClient(p) ==                        \* OneOperation
    <<Callback("disconnect", p, TRUE), At("forget", p), At("ConnectNamedPipe", p)>>

\* DisconnectAndReconnect begins with OnDisconnected.
DisconnectAndReconnect(p) ==
    <<Callback("disconnect", p, TRUE), At("forget", p), At("DisconnectNamedPipe", p)>>

-----------------------------------------------------------------------------
(***************************************************************************)
(* Run and GetPendingOperationResult                                       *)
(***************************************************************************)

\* WaitForMultipleObjects returns the lowest index; the events stay set.
QuietBelow(p) == \A q \in Pipe : q < p => ~event[q]

Wakes(p) ==
    /\ ~Busy(Server) /\ event[p] /\ QuietBelow(p)
    /\ todo' = [todo EXCEPT ![Server] = <<At("result", p)>>]
    /\ UNCHANGED <<kernelVars, ioVars, fieldVars, m_mutexWrite>>

\* Without mPendingIO nothing is asked; an operation still under way, or one
\* that has failed, is taken for the end of the connection.
Succeeded(p) == mPendingIO[p] => overlap[p] \in {"connected"} \cup Length
Transferred(p) == IF overlap[p] = "connected" THEN "empty" ELSE overlap[p]

FindsFailure(t) ==
    /\ Is(t, "result") /\ ~Succeeded(On(t))
    /\ Goes(t, DisconnectAndReconnect(On(t)))
    /\ UNCHANGED <<kernelVars, ioVars, fieldVars, m_mutexWrite>>

FindsClient(t) ==
    LET p == On(t) IN
    /\ Is(t, "result") /\ Succeeded(p) /\ mCurrentState[p] = "CONNECTING"
    /\ Goes(t, <<Callback("connect", p, TRUE), At("read", p)>>)
    /\ UNCHANGED <<kernelVars, ioVars, fieldVars, m_mutexWrite>>

AfterMessage_Idle(p) == <<>>                                    \* WrittenIsTaken
AfterMessage(p) == <<At("read", p)>>

\* OnMessage is given the read buffer and mBytesRead.
FindsMessage(t) ==
    LET p == On(t) IN
    /\ Is(t, "result") /\ Succeeded(p) /\ mCurrentState[p] = "READING"
    /\ mBytesRead' = IF mPendingIO[p]
                     THEN [mBytesRead EXCEPT ![p] = Transferred(p)]
                     ELSE mBytesRead
    /\ Goes(t, <<Callback("message", p, mBytesRead'[p] = buffer[p])>> \o AfterMessage(p))
    /\ UNCHANGED <<kernelVars, ioVars, mCurrentState, mPendingIO, buffer, m_mutexWrite>>

-----------------------------------------------------------------------------
(***************************************************************************)
(* ReadPipe                                                                *)
(***************************************************************************)

BeginsRead(t) ==
    LET p == On(t) IN
    /\ Is(t, "read")
    /\ mCurrentState' = [mCurrentState EXCEPT ![p] = "READING"]
    /\ buffer' = [buffer EXCEPT ![p] = "none"]
    /\ Goes(t, <<At("ReadFile", p)>>)
    /\ UNCHANGED <<kernelVars, ioVars, mPendingIO, mBytesRead, m_mutexWrite>>

Incoming(p) == IF link[p] = NoClient THEN <<>> ELSE inq[link[p]]

AfterReadError_Leave(p) == <<>>                                 \* ClosedPipeReclaimed
AfterReadError(p) == DisconnectAndReconnect(p)

\* ReadFile clears the event first.  Nobody there, or nobody any more.
ReadFails(t) ==
    LET p == On(t) IN
    /\ Is(t, "ReadFile") /\ Incoming(p) = <<>> /\ ~Open(p)
    /\ event' = [event EXCEPT ![p] = FALSE]
    /\ overlap' = [overlap EXCEPT ![p] = "pending"]
    /\ mBytesRead' = [mBytesRead EXCEPT ![p] = "empty"]
    /\ Goes(t, AfterReadError(p))
    /\ UNCHANGED <<kernelVars, mCurrentState, mPendingIO, buffer, m_mutexWrite>>

ReadPends(t) ==
    LET p == On(t) IN
    /\ Is(t, "ReadFile") /\ Incoming(p) = <<>> /\ Open(p)
    /\ event' = [event EXCEPT ![p] = FALSE]
    /\ overlap' = [overlap EXCEPT ![p] = "pending"]
    /\ reading' = reading \cup {p}
    /\ mBytesRead' = [mBytesRead EXCEPT ![p] = "empty"]
    /\ Goes(t, <<At("pend", p)>>)
    /\ UNCHANGED <<link, closed, inq, outq, listening, connecting, writing,
                   mCurrentState, mPendingIO, buffer, m_mutexWrite>>

BytesReadAtOnce_Stale(p, m) == mBytesRead[p]                    \* MessagesWhole
BytesReadAtOnce_Early(p, m) == buffer[p]                        \* TypeOK
BytesReadAtOnce(p, m) == m

\* A message is there.  One that is too long sets mPendingIO, so that the
\* error is found by GetOverlappedResult; an empty one counts as an error.
ReadSucceeds(t) ==
    LET p == On(t)
        m == Head(Incoming(p)) IN
    /\ Is(t, "ReadFile") /\ Incoming(p) # <<>>
    /\ Completes(p, IF m = "long" THEN "failed" ELSE m)
    /\ inq' = [inq EXCEPT ![link[p]] = Tail(@)]
    /\ buffer' = [buffer EXCEPT ![p] = m]
    /\ mBytesRead' = [mBytesRead EXCEPT ![p] = BytesReadAtOnce(p, m)]
    /\ Goes(t, CASE m = "fits"  -> <<At("sync", p)>>
                 [] m = "long"  -> <<At("pend", p)>>
                 [] m = "empty" -> AfterReadError(p))
    /\ UNCHANGED <<link, closed, outq, listening, connecting, reading, writing,
                   mCurrentState, mPendingIO, m_mutexWrite>>

\* mPendingIO = FALSE, mPendingIO = TRUE
NotesSync(t) ==
    /\ Is(t, "sync")
    /\ mPendingIO' = [mPendingIO EXCEPT ![On(t)] = FALSE]
    /\ Returns(t)
    /\ UNCHANGED <<kernelVars, ioVars, mCurrentState, buffer, mBytesRead, m_mutexWrite>>

NotesPending(t) ==
    /\ Is(t, "pend")
    /\ mPendingIO' = [mPendingIO EXCEPT ![On(t)] = TRUE]
    /\ Returns(t)
    /\ UNCHANGED <<kernelVars, ioVars, mCurrentState, buffer, mBytesRead, m_mutexWrite>>

-----------------------------------------------------------------------------
(***************************************************************************)
(* DisconnectAndReconnect, after OnDisconnected                            *)
(***************************************************************************)

StateAfterDisconnect_Kept(p) == mCurrentState[p]     \* FieldsAgree, ImplementsChannel
StateAfterDisconnect(p) == "CONNECTING"

Forgets(t) ==
    /\ Is(t, "forget")
    /\ mCurrentState' = [mCurrentState EXCEPT ![On(t)] = StateAfterDisconnect(On(t))]
    /\ Returns(t)
    /\ UNCHANGED <<kernelVars, ioVars, mPendingIO, buffer, mBytesRead, m_mutexWrite>>

AfterDisconnect_Leave(p) == <<>>                                \* NoPipeLost
AfterDisconnect(p) == <<At("ConnectNamedPipe", p)>>

\* What is under way on the pipe fails, what is in it is thrown away.
Disconnects(t) ==
    LET p == On(t) IN
    /\ Is(t, "DisconnectNamedPipe") /\ ~Down(p)
    /\ link' = [link EXCEPT ![p] = NoClient]
    /\ IF link[p] = NoClient
       THEN UNCHANGED <<closed, inq, outq>>
       ELSE /\ closed' = closed \ {link[p]}
            /\ inq' = [inq EXCEPT ![link[p]] = <<>>]
            /\ outq' = [outq EXCEPT ![link[p]] = 0]
    /\ listening' = listening \ {p}
    /\ connecting' = [connecting EXCEPT ![p] = "nobody"]
    /\ reading' = reading \ {p} /\ writing' = writing \ {p}
    /\ IF p \in reading \/ connecting[p] # "nobody"
       THEN Completes(p, "failed")
       ELSE UNCHANGED ioVars
    /\ Goes(t, AfterDisconnect(p))
    /\ UNCHANGED <<fieldVars, m_mutexWrite>>

AfterFailedDisconnect_Ignore(p) == <<At("ConnectNamedPipe", p)>>    \* OneReconnects
AfterFailedDisconnect(p) == <<>>

\* Another thread has disconnected the pipe and not yet connected it again.
DisconnectFails(t) ==
    /\ Is(t, "DisconnectNamedPipe") /\ Down(On(t))
    /\ Goes(t, AfterFailedDisconnect(On(t)))
    /\ UNCHANGED <<kernelVars, ioVars, fieldVars, m_mutexWrite>>

\* ConnectToNewClient: the pipe has just been disconnected by this thread, so
\* the call clears the event and pends (OneReconnects).  mPendingIO is set to
\* FALSE before the outcome is looked at.
Connects(t) ==
    LET p == On(t) IN
    /\ Is(t, "ConnectNamedPipe")
    /\ listening' = listening \cup {p}
    /\ connecting' = [connecting EXCEPT ![p] = t]
    /\ event' = [event EXCEPT ![p] = FALSE]
    /\ overlap' = [overlap EXCEPT ![p] = "pending"]
    /\ Goes(t, <<At("sync", p), At("pend", p)>>)
    /\ UNCHANGED <<link, closed, inq, outq, reading, writing, fieldVars, m_mutexWrite>>

-----------------------------------------------------------------------------
(***************************************************************************)
(* WritePipe                                                               *)
(***************************************************************************)

Locks(t) ==
    /\ Is(t, "lock") /\ m_mutexWrite = "free"
    /\ m_mutexWrite' = t
    /\ Goes(t, <<At("WriteFile", On(t))>>)
    /\ UNCHANGED <<kernelVars, ioVars, fieldVars>>

HasRoom(p) == outq[link[p]] < OutCap

WritePends(t) ==
    LET p == On(t) IN
    /\ Is(t, "WriteFile") /\ Open(p) /\ ~HasRoom(p)
    /\ writing' = writing \cup {p}
    /\ Goes(t, <<At("wait", p)>>)
    /\ UNCHANGED <<link, closed, inq, outq, listening, connecting, reading, ioVars,
                   fieldVars, m_mutexWrite>>

\* At once, or once the client has read; the mutex is held all the while.
WriteSucceeds(t) ==
    LET p == On(t) IN
    /\ \/ Is(t, "WriteFile") /\ Open(p)
       \/ Is(t, "wait") /\ p \in writing
    /\ HasRoom(p)
    /\ outq' = [outq EXCEPT ![link[p]] = @ + 1]
    /\ writing' = writing \ {p}
    /\ m_mutexWrite' = "free"
    /\ Returns(t)
    /\ UNCHANGED <<link, closed, inq, listening, connecting, reading, ioVars, fieldVars>>

MutexAfterFailure_Held(t) == t                      \* NoCallbackUnderMutex, CallsReturn
MutexAfterFailure(t) == "free"

\* The lock is released before DisconnectAndReconnect.
WriteFails(t) ==
    LET p == On(t) IN
    /\ \/ Is(t, "WriteFile") /\ ~Open(p)
       \/ Is(t, "wait") /\ p \notin writing
    /\ m_mutexWrite' = MutexAfterFailure(t)
    /\ Goes(t, DisconnectAndReconnect(p))
    /\ UNCHANGED <<kernelVars, ioVars, fieldVars>>

\* BroadcastData's loop: a pipe that is connecting is passed over.
BroadcastsNext(t) ==
    LET p == On(t) IN
    /\ Is(t, "broadcast") /\ p < NPipes
    /\ Goes(t, IF mCurrentState[p] # "CONNECTING"
               THEN <<At("lock", p), At("broadcast", p + 1)>>
               ELSE <<At("broadcast", p + 1)>>)
    /\ UNCHANGED <<kernelVars, ioVars, fieldVars, m_mutexWrite>>

BroadcastEnds(t) ==
    /\ Is(t, "broadcast") /\ On(t) = NPipes
    /\ Returns(t)
    /\ UNCHANGED <<kernelVars, ioVars, fieldVars, m_mutexWrite>>

-----------------------------------------------------------------------------
(***************************************************************************)
(* The host                                                                *)
(***************************************************************************)

\* The calls t has under way: one below each callback, and that of a thread
\* of the host itself.
UnderWay(t) ==
    IF ~Busy(t) THEN 0
    ELSE Len(SelectSeq(Tail(todo[t]), LAMBDA f : f.step = "callback"))
             + (IF t = Server THEN 0 ELSE 1)

\* A thread of the host between two calls, or the code of a callback.
MayCall(t) ==
    /\ Is(t, "callback") \/ (t \in Host /\ ~Busy(t))
    /\ MapThenSumSet(UnderWay, Thread) < MaxCalls

Calls(t, calls) ==
    /\ MayCall(t)
    /\ todo' = [todo EXCEPT ![t] = calls \o @]
    /\ UNCHANGED <<kernelVars, ioVars, fieldVars, m_mutexWrite>>

CallsSend(t, p) == Calls(t, <<At("lock", p)>>)
CallsBroadcast(t) == Calls(t, <<At("broadcast", 0)>>)
CallsDisconnect(t, p) == Calls(t, DisconnectAndReconnect(p))

CallbackReturns(t) ==
    /\ Is(t, "callback")
    /\ Returns(t)
    /\ UNCHANGED <<kernelVars, ioVars, fieldVars, m_mutexWrite>>

-----------------------------------------------------------------------------
ClientNext ==
    \/ \E c \in Client, p \in Pipe : ClientConnect(c, p)
    \/ \E p \in Pipe, m \in Sends : ClientWrite(p, m)
    \/ \E c \in Client : ClientRead(c)
    \/ \E p \in Pipe : ClientClose(p)

HostNext ==
    \/ \E h \in Host : HostExits(h)
    \/ \E t \in Thread :
        \/ \E p \in Pipe : CallsSend(t, p) \/ CallsDisconnect(t, p)
        \/ CallsBroadcast(t)

\* What a thread does inside of the server.
Continues(t) ==
    \/ FindsFailure(t) \/ FindsClient(t) \/ FindsMessage(t)
    \/ BeginsRead(t) \/ ReadFails(t) \/ ReadPends(t) \/ ReadSucceeds(t)
    \/ NotesSync(t) \/ NotesPending(t)
    \/ Forgets(t) \/ Disconnects(t) \/ DisconnectFails(t) \/ Connects(t)
    \/ Locks(t) \/ WritePends(t) \/ WriteSucceeds(t) \/ WriteFails(t)
    \/ BroadcastsNext(t) \/ BroadcastEnds(t)

Next ==
    \/ ClientNext
    \/ HostNext
    \/ \E p \in Pipe : Wakes(p)
    \/ \E t \in Thread : Continues(t) \/ CallbackReturns(t)

Spec == Init /\ [][Next]_vars

-----------------------------------------------------------------------------
(***************************************************************************)
(* Safety                                                                  *)
(***************************************************************************)

\* A pipe instance that has been disconnected is one that exactly one thread
\* is about to connect again, and no thread connects any other: whoever else
\* disconnects the pipe in between is turned away by DisconnectNamedPipe.
OneReconnects ==
    \A p \in Pipe :
        /\ Down(p) => \E t \in Thread : Is(t, "ConnectNamedPipe") /\ On(t) = p
        /\ \A t \in Thread : Is(t, "ConnectNamedPipe") /\ On(t) = p =>
               /\ Down(p)
               /\ \A u \in Thread : Is(u, "ConnectNamedPipe") /\ On(u) = p => u = t

\* Each pipe has one OVERLAPPED for ConnectNamedPipe and ReadFile: at most one
\* of them is under way, and no ReadFile is about to start over another.
OneOperation ==
    \A p \in reading :
        /\ connecting[p] = "nobody"
        /\ \A t \in Thread : ~(Is(t, "ReadFile") /\ On(t) = p)

\* Some thread is within ReadPipe or DisconnectAndReconnect for p.
AtWork(p) ==
    \E t \in Thread : \E k \in DOMAIN todo[t] :
        /\ todo[t][k].step \in {"read", "ReadFile", "DisconnectNamedPipe", "ConnectNamedPipe"}
        /\ todo[t][k].pipe = p

\* No wakeup is lost: a pipe no thread is at work on has an operation under
\* way, or its event is set and the server thread will look at it.
NoPipeLost ==
    \A p \in Pipe :
        \/ connecting[p] # "nobody" \/ p \in reading
        \/ event[p] \/ (Is(Server, "result") /\ On(Server) = p)
        \/ AtWork(p)

\* CNamedPipeServer.cpp:351 "Release lock before disconnect to avoid deadlock
\* in callbacks": m_mutexWrite is held only by a thread that is within
\* WriteFile, so that a callback on any thread may send.
NoCallbackUnderMutex ==
    \A t \in Thread :
        m_mutexWrite = t => Is(t, "WriteFile") \/ Is(t, "wait")

\* If the host makes its calls in callbacks only (Host = {}), mCurrentState and
\* mPendingIO tell the waiting server thread what is under way on each pipe.
FieldsAgree ==
    ~Busy(Server) => \A p \in Pipe :
        /\ mCurrentState[p] = "CONNECTING" =>
               mPendingIO[p] /\ IF link[p] = NoClient
                                THEN connecting[p] = Server
                                ELSE overlap[p] = "connected"
        /\ mCurrentState[p] = "READING" =>
               IF mPendingIO[p]
               THEN p \in reading \/ overlap[p] \in {"failed"} \cup Length
               ELSE overlap[p] = "fits" /\ buffer[p] = "fits"

\* If the host makes its calls in callbacks only (Host = {}), OnMessage is given
\* the length of the message in the buffer, be the read completed at once or
\* later.  A thread of the host that disconnects the pipe meanwhile can have it
\* given another.
MessagesWhole ==
    \A t \in Thread : \A k \in DOMAIN todo[t] :
        todo[t][k].step = "callback" => todo[t][k].whole

(***************************************************************************)
(* What the server promises a host that calls it in callbacks only         *)
(***************************************************************************)

\* The server thread has this call to make for p, or under way.
Has(step, p) ==
    \E k \in DOMAIN todo[Server] :
        todo[Server][k].step = step /\ todo[Server][k].pipe = p

InOnMessage(p) ==
    \E k \in DOMAIN todo[Server] :
        todo[Server][k].step = "callback" /\ todo[Server][k].event = "message"
            /\ todo[Server][k].pipe = p

\* A connection ends for the host when DisconnectAndReconnect resets the state.
Connected(p) ==
    link[p] # NoClient /\ ~(Is(Server, "DisconnectNamedPipe") /\ On(Server) = p)

\* The read buffer has a message OnMessage has not been called for.
Unseen(p) == mCurrentState[p] = "READING" /\ buffer[p] # "none" /\ ~Has("read", p)

PeerOf(p) == IF Connected(p) THEN link[p] ELSE NoClient
SentOn(p) ==
    IF Connected(p)
    THEN (IF Unseen(p) THEN <<buffer[p]>> ELSE <<>>) \o Incoming(p)
    ELSE <<>>
GivenFrom(p) == IF InOnMessage(p) THEN buffer[p] ELSE "none"

Ch == INSTANCE Channel WITH
          Message <- Length,
          NoMessage <- "none",
          peer <- [p \in Pipe |-> PeerOf(p)],
          sent <- [p \in Pipe |-> SentOn(p)],
          given <- [p \in Pipe |-> GivenFrom(p)],
          told <- {p \in Pipe : Has("forget", p)}

\* If the host makes its calls in callbacks only (Host = {}), every step of the
\* server is a step of Channel or changes nothing there.
ImplementsChannel == Ch!Spec

(***************************************************************************)
(* Liveness                                                                *)
(***************************************************************************)

\* Threads run whenever they can, one that asks for m_mutexWrite is not passed
\* over forever, a callback that is called within n calls of the host makes
\* finitely many more, and clients read what is written to them.
ReturnsWithin(t, n) == UnderWay(t) = n /\ CallbackReturns(t)

Fairness ==
    /\ WF_vars(\E p \in Pipe : Wakes(p))
    /\ \A t \in Thread :
        /\ WF_vars(Continues(t)) /\ SF_vars(Locks(t))
        /\ \A n \in 0 .. MaxCalls : SF_vars(ReturnsWithin(t, n))
    /\ \A c \in Client : WF_vars(ClientRead(c))

FairSpec == Spec /\ Fairness

\* Every call into the server returns, and the server thread gets back to its
\* wait, although callbacks call the server themselves.
CallsReturn == \A t \in Thread : Busy(t) ~> ~Busy(t)

\* The pipe of a client that has closed its end is eventually free for the
\* next one, if the pipes of lower index stay quiet in the end.
ClosedPipeReclaimed ==
    \A p \in Pipe : <>[]QuietBelow(p) =>
        (link[p] # NoClient /\ link[p] \in closed ~> link[p] = NoClient)

\* A message a client has written is read, or thrown away with its connection.
WrittenIsTaken ==
    \A p \in Pipe : <>[]QuietBelow(p) => (Incoming(p) # <<>> ~> Incoming(p) = <<>>)
=============================================================================
