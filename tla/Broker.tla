------------------------------- MODULE Broker -------------------------------
(***************************************************************************)
(* The message broker: IPCServerBroker on top of IPCServer and            *)
(* CNamedPipeServer, the kernel's named pipe instances and the clients     *)
(* attached to them.                                                       *)
(*                                                                         *)
(* One server thread runs everything the broker does: it waits for a pipe  *)
(* event, completes the operation, calls the broker's callback, and the    *)
(* callback calls back into the pipe server to write or to disconnect.     *)
(* The variable todo is what that thread still has to do before it waits   *)
(* again, innermost call first.  A step of the thread runs up to the next  *)
(* call whose outcome depends on the kernel, because that is where a       *)
(* client can act in between.                                              *)
(*                                                                         *)
(* A client here is one end of a connection, not a process: a process that *)
(* reconnects is another client, or the same one after it was recycled.    *)
(***************************************************************************)
EXTENDS Naturals, Sequences

CONSTANTS
    NPipes,            \* nMaxPipes, the number of pipe instances
    Client,            \* ends of connections
    NoClient,          \* nobody is attached to a pipe instance
    Id,                \* client ids 1..0xFFFE
    NoId,              \* client id 0: connected, not registered
    Absent,            \* the pipe has no entry in mClients
    Type,              \* user message types, >= IPC_MSG_USER_MIN
    Sends,             \* Sends[c]: the messages client c may write
    ConnectVerdicts,   \* answers m_pOnConnect may give ({TRUE} if not set)
    AuthVerdicts,      \* answers m_pOnAuth may give ({TRUE} if not set)
    InCap,             \* bound: messages queued from a client to the broker
    OutCap             \* bound: messages queued from the broker to a client

Pipe == 0 .. NPipes - 1

\* What a client may write.  Register carries the id the client claims (0 is
\* NoId), Reserved is a control message of type 1..9, Invalid one shorter than
\* a header or with a bad header, Empty a message of no bytes, Oversize one
\* that does not fit the pipe server's buffer.
ClientMessage ==
    [kind : {"Register"}, id : Id \cup {NoId}]
        \cup [kind : {"Subscribe", "Broadcast"}, type : Type]
        \cup [kind : {"Unicast"}, id : Id]
        \cup [kind : {"Reserved", "Invalid", "Empty", "Oversize"}]

\* What the broker writes of its own accord.
Kick(id)    == [kind |-> "KICK", id |-> id]
DstNotFound == [kind |-> "DST_NOT_FOUND"]
InvalidMsg  == [kind |-> "INVALID"]

Message ==
    ClientMessage
        \cup [kind : {"KICK"}, id : Id \cup {NoId}]
        \cup {DstNotFound, InvalidMsg}

ASSUME PipesAssumption == NPipes \in Nat \ {0}
ASSUME NamesAssumption ==
    /\ NoClient \notin Client
    /\ NoId \notin Id
    /\ Absent \notin Id \cup {NoId}
ASSUME SendsAssumption == Sends \in [Client -> SUBSET ClientMessage]
ASSUME VerdictsAssumption ==
    /\ ConnectVerdicts \subseteq BOOLEAN
    /\ AuthVerdicts \subseteq BOOLEAN
ASSUME CapsAssumption == InCap \in Nat \ {0} /\ OutCap \in Nat \ {0}

VARIABLES
    \* the kernel and the clients
    link,       \* link[p]: the client attached to pipe instance p; NoClient
                \*   while the instance listens
    phase,      \* phase[c]: "new", "open", "closed" by the client, "cut" by
                \*   the server
    inq,        \* inq[c]: written by c, not yet read by the server
    outq,       \* outq[c]: written by the server, not yet read by c
    \* CNamedPipeServer
    state,      \* state[p]: mCurrentState, the operation armed on p
    todo,       \* the calls the server thread has yet to make
    up,         \* the host process has not been terminated
    \* IPCServerBroker
    mClients,   \* mClients[p]: ClientId of the entry with ClientIndex p
    mMessages,  \* mMessages[t]: the pipe indices subscribed to type t
    \* observation
    notified,   \* id the last server step passed to m_pOnClientDisconnect
    session     \* session[c]: what the broker did for the connection of c:
                \*   id it recorded, types it subscribed, OnServerConnect run

kernelVars == <<link, phase, inq, outq>>
brokerVars == <<mClients, mMessages>>
vars == <<kernelVars, state, todo, up, brokerVars, notified, session>>

Session == [id : Id \cup {NoId}, types : SUBSET Type, met : BOOLEAN]
FreshSession == [id |-> NoId, types |-> {}, met |-> FALSE]

\* The calls a step of the server thread can leave behind.
ReadPipe(p)     == [call |-> "ReadPipe", pipe |-> p]
Disconnect(p)   == [call |-> "DisconnectAndReconnect", pipe |-> p]
Write(p, m)     == [call |-> "WritePipe", pipe |-> p, msg |-> m]
Deliver(ps, m)  == [call |-> "Broadcast", to |-> ps, msg |-> m]

Call ==
    [call : {"ReadPipe", "DisconnectAndReconnect"}, pipe : Pipe]
        \cup [call : {"WritePipe"}, pipe : Pipe, msg : Message]
        \cup [call : {"Broadcast"}, to : SUBSET Pipe, msg : Message]

TypeOK ==
    /\ link \in [Pipe -> Client \cup {NoClient}]
    /\ phase \in [Client -> {"new", "open", "closed", "cut"}]
    /\ inq \in [Client -> Seq(ClientMessage)]
    /\ outq \in [Client -> Seq(Message)]
    /\ state \in [Pipe -> {"CONNECTING", "READING"}]
    /\ todo \in Seq(Call)
    /\ up \in BOOLEAN
    /\ mClients \in [Pipe -> Id \cup {NoId, Absent}]
    /\ mMessages \in [Type -> SUBSET Pipe]
    /\ notified \in Id \cup {NoId}
    /\ session \in [Client -> Session]

\* RunBroker after CreatePipeAndEvents: every instance is created and listens.
Init ==
    /\ link = [p \in Pipe |-> NoClient]
    /\ phase = [c \in Client |-> "new"]
    /\ inq = [c \in Client |-> <<>>]
    /\ outq = [c \in Client |-> <<>>]
    /\ state = [p \in Pipe |-> "CONNECTING"]
    /\ todo = <<>>
    /\ up = TRUE
    /\ mClients = [p \in Pipe |-> Absent]
    /\ mMessages = [t \in Type |-> {}]
    /\ notified = NoId
    /\ session = [c \in Client |-> FreshSession]
-----------------------------------------------------------------------------
(***************************************************************************)
(* Clients and the kernel                                                  *)
(***************************************************************************)

Attached(c) == \E p \in Pipe : link[p] = c

\* CreateFile on the pipe name attaches to any instance that listens; it
\* completes the ConnectNamedPipe armed there.
ClientConnect(c, p) ==
    /\ up
    /\ phase[c] = "new" /\ link[p] = NoClient
    /\ link' = [link EXCEPT ![p] = c]
    /\ phase' = [phase EXCEPT ![c] = "open"]
    /\ UNCHANGED <<inq, outq, state, todo, up, brokerVars, notified, session>>

ClientWrite(c, m) ==
    /\ phase[c] = "open" /\ Len(inq[c]) < InCap
    /\ inq' = [inq EXCEPT ![c] = Append(@, m)]
    /\ UNCHANGED <<link, phase, outq, state, todo, up, brokerVars, notified, session>>

ClientRead(c) ==
    /\ phase[c] = "open" /\ outq[c] # <<>>
    /\ outq' = [outq EXCEPT ![c] = Tail(@)]
    /\ UNCHANGED <<link, phase, inq, state, todo, up, brokerVars, notified, session>>

\* CloseHandle.  What the client wrote stays readable for the server, what it
\* has not read is gone.
ClientClose(c) ==
    /\ phase[c] = "open"
    /\ phase' = [phase EXCEPT ![c] = "closed"]
    /\ outq' = [outq EXCEPT ![c] = <<>>]
    /\ UNCHANGED <<link, inq, state, todo, up, brokerVars, notified, session>>

\* CloseHandle of an end the server has cut; the client may then reconnect.
ClientForget(c) ==
    /\ phase[c] = "cut"
    /\ phase' = [phase EXCEPT ![c] = "new"]
    /\ UNCHANGED <<link, inq, outq, state, todo, up, brokerVars, notified, session>>

\* What is left of a client the server end has been taken from.
PhaseAfterCut(c) == IF phase[c] = "open" THEN "cut" ELSE "new"

-----------------------------------------------------------------------------
(***************************************************************************)
(* mClients and mMessages.  Every function of the broker that touches them *)
(* holds mMutex for the whole of it; Broadcast alone keeps mMutex while it *)
(* calls the pipe server.                                                  *)
(*                                                                         *)
(* A definition X_Fault, here and below, is X with a plausible mistake in  *)
(* it.  Nothing uses it: it stands in for X to show that a check of the    *)
(* property named with it would notice the mistake.                        *)
(***************************************************************************)

BroadcastHoldsMutex == \E k \in DOMAIN todo : todo[k].call = "Broadcast"

Registered(p) == mClients[p] # Absent

ClientAdd(p) == IF Registered(p) THEN mClients ELSE [mClients EXCEPT ![p] = NoId]

WithoutClient_Kept(p) == mClients                            \* UnicastReachesHolder
WithoutClient_Dropped(p) == [q \in Pipe \ {p} |-> mClients[q]]   \* TypeOK
WithoutClient(p) == [mClients EXCEPT ![p] = Absent]

WithoutSubscriber_Kept(p) == mMessages      \* EntriesBelongToSession, BroadcastReachesSubscriber
WithoutSubscriber(p) == [t \in Type |-> mMessages[t] \ {p}]

ClientDelete(p) ==
    /\ mClients' = WithoutClient(p)
    /\ mMessages' = WithoutSubscriber(p)

\* Other entries with the id a client registers under.
Duplicates_None(p, id) == {}                       \* UniqueId, NotifiedMeansGone
Duplicates(p, id) == {q \in Pipe \ {p} : mClients[q] = id}

\* The id of p's own entry is set if there is one.
WithId_Added(clients, p, id) == [clients EXCEPT ![p] = id]    \* ImplementsRegistry
WithId(clients, p, id) ==
    IF clients[p] = Absent THEN clients ELSE [clients EXCEPT ![p] = id]

-----------------------------------------------------------------------------
(***************************************************************************)
(* The wait of the server thread                                           *)
(***************************************************************************)

Idle == up /\ todo = <<>>

\* The operation armed on p has completed, or will at once: a client is there
\* to be connected, or there is data, or a broken pipe, to be read.
Signalled(p) ==
    /\ link[p] # NoClient
    /\ \/ state[p] = "CONNECTING"
       \/ inq[link[p]] # <<>>
       \/ phase[link[p]] = "closed"

QuietBelow(p) == \A q \in Pipe : q < p => ~Signalled(q)

\* WaitForMultipleObjects returns the lowest index that is signalled.
Wake(p) == Idle /\ Signalled(p) /\ QuietBelow(p)

HasMessage(p) == link[p] # NoClient /\ inq[link[p]] # <<>>
NextMessage(p) == Head(inq[link[p]])

-----------------------------------------------------------------------------
(***************************************************************************)
(* GetPendingOperationResult on a connect: OnServerConnect                 *)
(***************************************************************************)

Meet(p) == session' = [session EXCEPT ![link[p]].met = TRUE]

\* A callback that refuses a client disconnects it; GetPendingOperationResult
\* then reads from the pipe all the same.
CallsAfterRefusal_NoDisconnect(p) == <<ReadPipe(p)>>          \* NoLingeringSession
CallsAfterRefusal(p) == <<Disconnect(p), ReadPipe(p)>>

AcceptConnect(p) ==
    /\ Wake(p) /\ state[p] = "CONNECTING"
    /\ TRUE \in ConnectVerdicts
    /\ mClients' = ClientAdd(p)
    /\ todo' = <<ReadPipe(p)>>
    /\ Meet(p)
    /\ notified' = NoId
    /\ UNCHANGED <<kernelVars, state, up, mMessages>>

\* m_pOnConnect refuses: the entry just added is deleted again.
RejectConnect(p) ==
    /\ Wake(p) /\ state[p] = "CONNECTING"
    /\ FALSE \in ConnectVerdicts
    /\ ClientDelete(p)
    /\ todo' = CallsAfterRefusal(p)
    /\ Meet(p)
    /\ notified' = NoId
    /\ UNCHANGED <<kernelVars, state, up>>

-----------------------------------------------------------------------------
(***************************************************************************)
(* GetPendingOperationResult on a read: OnServerMessage                    *)
(***************************************************************************)

CallsAfterReadError_Return(p) == <<>>                         \* ClosedPipeReclaimed
CallsAfterReadError(p) == <<Disconnect(p)>>

\* The read completed with an error: a broken pipe, or ERROR_MORE_DATA for a
\* message longer than the buffer.
FailedRead(p) ==
    /\ Wake(p) /\ state[p] = "READING"
    /\ HasMessage(p) => NextMessage(p).kind = "Oversize"
    /\ todo' = CallsAfterReadError(p)
    /\ notified' = NoId
    /\ UNCHANGED <<kernelVars, state, up, brokerVars, session>>

Receive(p, kinds) ==
    /\ Wake(p) /\ state[p] = "READING"
    /\ HasMessage(p) /\ NextMessage(p).kind \in kinds
    /\ inq' = [inq EXCEPT ![link[p]] = Tail(@)]
    /\ notified' = NoId
    /\ UNCHANGED <<link, phase, outq, state, up>>

ReceiveInvalid(p) ==
    /\ Receive(p, {"Invalid", "Empty"})
    /\ todo' = <<Write(p, InvalidMsg), ReadPipe(p)>>
    /\ UNCHANGED <<brokerVars, session>>

ReceiveReserved(p) ==
    /\ Receive(p, {"Reserved"})
    /\ todo' = <<ReadPipe(p)>>
    /\ UNCHANGED <<brokerVars, session>>

\* ClientUpdate, m_pOnAuth refuses.
RejectRegister(p) ==
    /\ Receive(p, {"Register"})
    /\ FALSE \in AuthVerdicts
    /\ ClientDelete(p)
    /\ todo' = CallsAfterRefusal(p)
    /\ UNCHANGED session

\* The broker records the id of p, if p has an entry to record it in.
RecordId(p, id) ==
    session' = IF Registered(p)
               THEN [session EXCEPT ![link[p]].id = id]
               ELSE session

\* ClientUpdate when nobody else has the id.
Register(p) ==
    LET id == NextMessage(p).id IN
    /\ Receive(p, {"Register"})
    /\ TRUE \in AuthVerdicts
    /\ Duplicates(p, id) = {}
    /\ mClients' = WithId(mClients, p, id)
    /\ RecordId(p, id)
    /\ todo' = <<ReadPipe(p)>>
    /\ UNCHANGED mMessages

CallsAfterReplace_NoDisconnect(p, old, id) ==                 \* OneSessionPerId, EvictedIsCut
    <<Write(old, Kick(id)), ReadPipe(p)>>
CallsAfterReplace_WrongPipe(p, old, id) ==                    \* KickReachesFormerHolder
    <<Write(p, Kick(id)), Disconnect(old), ReadPipe(p)>>
CallsAfterReplace(p, old, id) ==
    <<Write(old, Kick(id)), Disconnect(old), ReadPipe(p)>>

\* ClientUpdate when another entry has the id: that entry and its
\* subscriptions go under the lock, KICK and the disconnect follow after it.
ReplaceRegister(p, old) ==
    LET id == NextMessage(p).id IN
    /\ Receive(p, {"Register"})
    /\ TRUE \in AuthVerdicts
    /\ old \in Duplicates(p, id)
    /\ mClients' = WithId(WithoutClient(old), p, id)
    /\ mMessages' = WithoutSubscriber(old)
    /\ RecordId(p, id)
    /\ todo' = CallsAfterReplace(p, old, id)

\* MessageRegister: only for a pipe that has an entry.
Subscribe(p) ==
    LET t == NextMessage(p).type IN
    /\ Receive(p, {"Subscribe"})
    /\ IF Registered(p)
       THEN /\ mMessages' = [mMessages EXCEPT ![t] = @ \cup {p}]
            /\ session' = [session EXCEPT ![link[p]].types = @ \cup {t}]
       ELSE UNCHANGED <<mMessages, session>>
    /\ todo' = <<ReadPipe(p)>>
    /\ UNCHANGED mClients

ReceiveBroadcast(p) ==
    LET m == NextMessage(p) IN
    /\ Receive(p, {"Broadcast"})
    /\ todo' = <<Deliver(mMessages[m.type], m), ReadPipe(p)>>
    /\ UNCHANGED <<brokerVars, session>>

Holders(id) == {q \in Pipe : mClients[q] = id}

RelayUnicast(p) ==
    LET m == NextMessage(p) IN
    /\ Receive(p, {"Unicast"})
    /\ \E dst \in Holders(m.id) : todo' = <<Write(dst, m), ReadPipe(p)>>
    /\ UNCHANGED <<brokerVars, session>>

BounceUnicast(p) ==
    /\ Receive(p, {"Unicast"})
    /\ Holders(NextMessage(p).id) = {}
    /\ todo' = <<Write(p, DstNotFound), ReadPipe(p)>>
    /\ UNCHANGED <<brokerVars, session>>

-----------------------------------------------------------------------------
(***************************************************************************)
(* The calls into the pipe server                                          *)
(***************************************************************************)

Running(call) == up /\ todo # <<>> /\ Head(todo).call = call
Current == Head(todo)

\* The kernel end of DisconnectAndReconnect on p: DisconnectNamedPipe throws
\* away what either side has not read, ConnectNamedPipe listens again.
Relisten(p) ==
    /\ link' = [link EXCEPT ![p] = NoClient]
    /\ IF link[p] = NoClient
       THEN UNCHANGED <<phase, inq, outq, session>>
       ELSE LET c == link[p] IN
            /\ phase' = [phase EXCEPT ![c] = PhaseAfterCut(c)]
            /\ inq' = [inq EXCEPT ![c] = <<>>]
            /\ outq' = [outq EXCEPT ![c] = <<>>]
            /\ session' = [session EXCEPT ![c] = FreshSession]

\* OnServerDisconnect, then the pipe is armed for the next client.
DisconnectAndReconnect ==
    /\ Running("DisconnectAndReconnect") /\ ~BroadcastHoldsMutex
    /\ LET p == Current.pipe IN
       /\ notified' = IF mClients[p] \in Id THEN mClients[p] ELSE NoId
       /\ ClientDelete(p)
       /\ state' = [state EXCEPT ![p] = "CONNECTING"]
       /\ Relisten(p)
    /\ todo' = Tail(todo)
    /\ UNCHANGED up

\* OnServerDisconnect locks mMutex, which Broadcast further up the same stack
\* holds.  std::mutex throws out of the server thread and the process ends.
RelockMutex ==
    /\ Running("DisconnectAndReconnect") /\ BroadcastHoldsMutex
    /\ up' = FALSE
    /\ link' = [p \in Pipe |-> NoClient]
    /\ phase' = [c \in Client |-> IF Attached(c) THEN PhaseAfterCut(c) ELSE phase[c]]
    /\ inq' = [c \in Client |-> <<>>]
    /\ outq' = [c \in Client |-> <<>>]
    /\ notified' = NoId
    /\ UNCHANGED <<state, todo, brokerVars, session>>

\* ReadFile fails at once: nobody is attached, the pipe is broken and drained,
\* or it returns a message of no bytes.
ReadFails(p) ==
    \/ link[p] = NoClient
    \/ ~HasMessage(p) /\ phase[link[p]] = "closed"
    \/ HasMessage(p) /\ NextMessage(p).kind = "Empty"

StartRead ==
    /\ Running("ReadPipe")
    /\ LET p == Current.pipe IN
       /\ state' = [state EXCEPT ![p] = "READING"]
       /\ todo' = IF ReadFails(p)
                  THEN <<Disconnect(p)>> \o Tail(todo)
                  ELSE Tail(todo)
    /\ notified' = NoId
    /\ UNCHANGED <<kernelVars, up, brokerVars, session>>

\* WriteFile completes when the client's queue has room.  Until then the
\* thread sits in GetOverlappedResult: no action is enabled for it.
WriteMessage ==
    /\ Running("WritePipe")
    /\ LET c == link[Current.pipe] IN
       /\ c # NoClient /\ phase[c] = "open" /\ Len(outq[c]) < OutCap
       /\ outq' = [outq EXCEPT ![c] = Append(@, Current.msg)]
    /\ todo' = Tail(todo)
    /\ notified' = NoId
    /\ UNCHANGED <<link, phase, inq, state, up, brokerVars, session>>

WriteFails ==
    /\ Running("WritePipe")
    /\ LET c == link[Current.pipe] IN c # NoClient => phase[c] = "closed"
    /\ todo' = <<Disconnect(Current.pipe)>> \o Tail(todo)
    /\ notified' = NoId
    /\ UNCHANGED <<kernelVars, state, up, brokerVars, session>>

\* Broadcast's loop over the subscribers of the type, and its unlock.
BroadcastNext(p) ==
    /\ Running("Broadcast") /\ p \in Current.to
    /\ todo' = <<Write(p, Current.msg), Deliver(Current.to \ {p}, Current.msg)>>
                   \o Tail(todo)
    /\ notified' = NoId
    /\ UNCHANGED <<kernelVars, state, up, brokerVars, session>>

BroadcastDone ==
    /\ Running("Broadcast") /\ Current.to = {}
    /\ todo' = Tail(todo)
    /\ notified' = NoId
    /\ UNCHANGED <<kernelVars, state, up, brokerVars, session>>

-----------------------------------------------------------------------------
ClientNext ==
    \E c \in Client :
        \/ \E p \in Pipe : ClientConnect(c, p)
        \/ \E m \in Sends[c] : ClientWrite(c, m)
        \/ ClientRead(c)
        \/ ClientClose(c)
        \/ ClientForget(c)

Complete(p) ==
    \/ AcceptConnect(p)
    \/ RejectConnect(p)
    \/ FailedRead(p)
    \/ ReceiveInvalid(p)
    \/ ReceiveReserved(p)
    \/ RejectRegister(p)
    \/ Register(p)
    \/ \E old \in Pipe : ReplaceRegister(p, old)
    \/ Subscribe(p)
    \/ ReceiveBroadcast(p)
    \/ RelayUnicast(p)
    \/ BounceUnicast(p)

ServerNext ==
    \/ \E p \in Pipe : Complete(p)
    \/ DisconnectAndReconnect
    \/ RelockMutex
    \/ StartRead
    \/ WriteMessage
    \/ WriteFails
    \/ \E p \in Pipe : BroadcastNext(p)
    \/ BroadcastDone

Next == ClientNext \/ ServerNext

Spec == Init /\ [][Next]_vars

-----------------------------------------------------------------------------
(***************************************************************************)
(* Safety                                                                  *)
(***************************************************************************)

\* Two entries of mClients never carry the same registered id: ClientUpdate
\* removes the entry of the former holder before it sets the new one.
UniqueId ==
    \A p, q \in Pipe : p # q /\ mClients[p] = mClients[q] => mClients[p] \notin Id

\* An entry of mClients, and every subscription in mMessages, is that of the
\* connection attached to the pipe now: nobody inherits the id or the
\* subscriptions of the connection that used the same pipe index before.
EntriesBelongToSession ==
    up => \A p \in Pipe :
        /\ Registered(p) =>
               /\ link[p] # NoClient
               /\ session[link[p]].met
               /\ session[link[p]].id = mClients[p]
        /\ \A t \in Type : p \in mMessages[t] =>
               Registered(p) /\ t \in session[link[p]].types

\* While the server thread waits, no two attached connections that have
\* registered believe to hold the same id: the former holder has been cut.
OneSessionPerId ==
    Idle => \A c, d \in Client :
        c # d /\ Attached(c) /\ Attached(d) /\ session[c].id = session[d].id
            => session[c].id = NoId

\* While the server thread waits, a connection OnServerConnect has seen is
\* either in mClients or gone: a refused or replaced one does not linger.
NoLingeringSession ==
    Idle => \A p \in Pipe :
        link[p] # NoClient /\ session[link[p]].met => Registered(p)

\* What a step adds to the messages c is to read.
Sent(c, kind) ==
    /\ Len(outq'[c]) > Len(outq[c])
    /\ outq'[c][Len(outq'[c])].kind = kind
SentMessage(c) == outq'[c][Len(outq'[c])]

\* A unicast is written only to the connection that registered its
\* destination id, although the broker addresses it by pipe index.
UnicastReachesHolder ==
    [][\A c \in Client : Sent(c, "Unicast") =>
           session[c].met /\ session[c].id = SentMessage(c).id]_vars

\* A broadcast is written only to connections that subscribed to its type.
BroadcastReachesSubscriber ==
    [][\A c \in Client : Sent(c, "Broadcast") =>
           SentMessage(c).type \in session[c].types]_vars

\* KICK is written only to a connection that held the id and has lost it.
KickReachesFormerHolder ==
    [][\A c \in Client : Sent(c, "KICK") =>
           /\ session[c].id = SentMessage(c).id
           /\ \A p \in Pipe : link[p] = c => ~Registered(p)]_vars

\* When the host hears through m_pOnClientDisconnect that an id has gone, no
\* entry with that id is left, so nobody else has taken it over meanwhile.
NotifiedMeansGone ==
    [][notified' # NoId => \A p \in Pipe : mClients'[p] # notified']_vars

(***************************************************************************)
(* What the broker promises, in terms of connections                       *)
(***************************************************************************)

Serving(p, c) == up /\ link[p] = c /\ Registered(p)

R == INSTANCE Registry WITH
         member <- {c \in Client : \E p \in Pipe : Serving(p, c)},
         idOf <- [c \in Client |->
                     IF \E p \in Pipe : Serving(p, c)
                     THEN mClients[CHOOSE p \in Pipe : Serving(p, c)]
                     ELSE NoId],
         subscribed <- [t \in Type |->
                     {c \in Client : \E p \in mMessages[t] : up /\ link[p] = c}]

\* Every step of the broker is a step of Registry or changes nothing there.
ImplementsRegistry == R!Spec

(***************************************************************************)
(* Statements of the documentation and of comments the code does not keep  *)
(***************************************************************************)

\* CNamedPipeServer.cpp:351 "Release lock before disconnect to avoid deadlock
\* in callbacks": a failed write never makes a callback wait for a lock its
\* own thread holds.
NoSelfDeadlock == up

\* HowTo.md:67: OnConnect is called when a pipe connection is established.
\* The broker reads only from connections it was called for.
OnConnectBeforeRead ==
    Idle => \A p \in Pipe :
        state[p] = "READING" /\ link[p] # NoClient => session[link[p]].met

(***************************************************************************)
(* Liveness                                                                *)
(***************************************************************************)

\* The server thread is a thread of a running process.  A client's worker
\* thread reads in a loop.
Fairness ==
    /\ WF_vars(ServerNext)
    /\ \A c \in Client : WF_vars(ClientRead(c))

FairSpec == Spec /\ Fairness

\* The pipe of a client that closed its end is eventually free for the next
\* client, if the pipes of lower index eventually stay quiet.
ClosedPipeReclaimed ==
    \A p \in Pipe : <>[]QuietBelow(p) =>
        ((link[p] # NoClient /\ phase[link[p]] = "closed")
             ~> (link[p] = NoClient \/ ~up))

\* A connection that was refused, or replaced by one with the same id, is
\* eventually cut.
EvictedIsCut ==
    \A p \in Pipe, c \in Client :
        (link[p] = c /\ session[c].met /\ ~Registered(p)) ~> (link[p] # c \/ ~up)
=============================================================================
