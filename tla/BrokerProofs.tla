---------------------------- MODULE BrokerProofs ----------------------------
(***************************************************************************)
(* Theorems about Broker, for any number of pipes, clients, ids and types, *)
(* whatever the clients send and the host's callbacks answer.              *)
(***************************************************************************)
EXTENDS Broker, TLAPS

-----------------------------------------------------------------------------
(***************************************************************************)
(* The calls and messages of a step are calls and messages                 *)
(***************************************************************************)

\* The calls the handlers leave behind are well formed.
LEMMA CallsAreCalls ==
    ASSUME NEW p \in Pipe, NEW m \in Message, NEW ps \in SUBSET Pipe
    PROVE  /\ ReadPipe(p) \in Call
           /\ Disconnect(p) \in Call
           /\ Write(p, m) \in Call
           /\ Deliver(ps, m) \in Call
BY DEF ReadPipe, Disconnect, Write, Deliver, Call

\* What clients write and what the broker answers are messages.
LEMMA MessagesAreMessages ==
    /\ ClientMessage \subseteq Message
    /\ DstNotFound \in Message
    /\ InvalidMsg \in Message
    /\ \A id \in Id \cup {NoId} : Kick(id) \in Message
BY DEF Message, DstNotFound, InvalidMsg, Kick

\* The arguments of the call at the top of the server thread's stack.
LEMMA CurrentCall ==
    ASSUME TypeOK
    PROVE  /\ Running("DisconnectAndReconnect") => Current.pipe \in Pipe
           /\ Running("ReadPipe") => Current.pipe \in Pipe
           /\ Running("WritePipe") => Current.pipe \in Pipe /\ Current.msg \in Message
           /\ Running("Broadcast") => Current.to \subseteq Pipe /\ Current.msg \in Message
<1>1. todo # <<>> => Head(todo) \in Call
  BY DEF TypeOK
<1>2. QED
  BY <1>1 DEF Running, Current, Call

\* A client is attached to a pipe that has a message.
LEMMA NextMessageType ==
    ASSUME TypeOK, NEW p \in Pipe, HasMessage(p)
    PROVE  link[p] \in Client /\ NextMessage(p) \in ClientMessage
<1>1. link[p] \in Client
  BY DEF TypeOK, HasMessage
<1>2. inq[link[p]] \in Seq(ClientMessage) /\ inq[link[p]] # <<>>
  BY <1>1 DEF TypeOK, HasMessage
<1>3. QED
  BY <1>1, <1>2 DEF NextMessage

\* The ids and types that messages carry.
LEMMA ClientMessageFields ==
    ASSUME NEW m \in ClientMessage
    PROVE  /\ m.kind = "Register" => m.id \in Id \cup {NoId}
           /\ m.kind = "Unicast" => m.id \in Id
           /\ m.kind \in {"Subscribe", "Broadcast"} => m.type \in Type
BY DEF ClientMessage

-----------------------------------------------------------------------------
(***************************************************************************)
(* Type correctness                                                        *)
(***************************************************************************)

\* The broker starts in a state of the right type.
LEMMA InitType == Init => TypeOK
BY DEF Init, TypeOK, FreshSession, Session

\* The registry keeps its type through the updates the handlers make of it.
LEMMA RegistryUpdates ==
    ASSUME TypeOK, NEW p \in Pipe, NEW q \in Pipe, NEW id \in Id \cup {NoId}
    PROVE  /\ ClientAdd(p) \in [Pipe -> Id \cup {NoId, Absent}]
           /\ WithoutClient(p) \in [Pipe -> Id \cup {NoId, Absent}]
           /\ WithoutSubscriber(p) \in [Type -> SUBSET Pipe]
           /\ WithId(mClients, p, id) \in [Pipe -> Id \cup {NoId, Absent}]
           /\ WithId(WithoutClient(q), p, id) \in [Pipe -> Id \cup {NoId, Absent}]
<1>1. mClients \in [Pipe -> Id \cup {NoId, Absent}] /\ mMessages \in [Type -> SUBSET Pipe]
  BY DEF TypeOK
<1>2. WithoutClient(q) \in [Pipe -> Id \cup {NoId, Absent}]
  BY <1>1 DEF WithoutClient
<1>3. ASSUME NEW clients \in [Pipe -> Id \cup {NoId, Absent}]
      PROVE  WithId(clients, p, id) \in [Pipe -> Id \cup {NoId, Absent}]
  BY DEF WithId
<1>4. QED
  BY <1>1, <1>2, <1>3 DEF ClientAdd, WithoutClient, WithoutSubscriber

\* What the observation of a connection becomes is an observation.
LEMMA SessionUpdates ==
    ASSUME TypeOK, NEW c \in Client
    PROVE  /\ [session EXCEPT ![c].met = TRUE] \in [Client -> Session]
           /\ \A id \in Id \cup {NoId} : [session EXCEPT ![c].id = id] \in [Client -> Session]
           /\ \A t \in Type : [session EXCEPT ![c].types = @ \cup {t}] \in [Client -> Session]
           /\ [session EXCEPT ![c] = FreshSession] \in [Client -> Session]
<1>1. session \in [Client -> Session] /\ session[c] \in Session
  BY DEF TypeOK
<1>2. /\ [session[c] EXCEPT !.met = TRUE] \in Session
      /\ \A id \in Id \cup {NoId} : [session[c] EXCEPT !.id = id] \in Session
      /\ \A t \in Type : [session[c] EXCEPT !.types = @ \cup {t}] \in Session
      /\ FreshSession \in Session
  BY <1>1 DEF Session, FreshSession
<1>3. ASSUME NEW s \in Session PROVE [session EXCEPT ![c] = s] \in [Client -> Session]
  BY <1>1
<1>4. QED
  BY <1>2, <1>3

\* A step of a client or of the kernel keeps the type.
LEMMA ClientType == TypeOK /\ ClientNext => TypeOK'
<1> SUFFICES ASSUME TypeOK, NEW c \in Client,
                    \/ \E p \in Pipe : ClientConnect(c, p)
                    \/ \E m \in Sends[c] : ClientWrite(c, m)
                    \/ ClientRead(c)
                    \/ ClientClose(c)
                    \/ ClientForget(c)
             PROVE  TypeOK'
  BY DEF ClientNext
<1>1. CASE \E p \in Pipe : ClientConnect(c, p)
  BY <1>1 DEF TypeOK, ClientConnect, brokerVars
<1>2. ASSUME NEW m \in Sends[c], ClientWrite(c, m) PROVE TypeOK'
  <2>1. m \in ClientMessage
    BY SendsAssumption
  <2>2. inq' \in [Client -> Seq(ClientMessage)]
    BY <1>2, <2>1 DEF TypeOK, ClientWrite
  <2>3. QED
    BY <1>2, <2>2 DEF TypeOK, ClientWrite, brokerVars
<1>3. CASE ClientRead(c)
  <2>1. outq' \in [Client -> Seq(Message)]
    BY <1>3 DEF TypeOK, ClientRead
  <2>2. QED
    BY <1>3, <2>1 DEF TypeOK, ClientRead, brokerVars
<1>4. CASE ClientClose(c)
  <2>1. outq' \in [Client -> Seq(Message)]
    BY <1>4 DEF TypeOK, ClientClose
  <2>2. QED
    BY <1>4, <2>1 DEF TypeOK, ClientClose, brokerVars
<1>5. CASE ClientForget(c)
  BY <1>5 DEF TypeOK, ClientForget, brokerVars
<1>6. QED
  BY <1>1, <1>2, <1>3, <1>4, <1>5

\* The server thread starts a handler with a message it has read.
LEMMA ReceiveType ==
    ASSUME TypeOK, NEW p \in Pipe, NEW kinds, Receive(p, kinds)
    PROVE  /\ link[p] \in Client
           /\ NextMessage(p) \in ClientMessage
           /\ NextMessage(p).kind \in kinds
           /\ inq' \in [Client -> Seq(ClientMessage)]
           /\ notified' = NoId
           /\ UNCHANGED <<link, phase, outq, state, up>>
<1>1. link[p] \in Client /\ NextMessage(p) \in ClientMessage
  BY NextMessageType DEF Receive
<1>2. inq[link[p]] \in Seq(ClientMessage) /\ inq[link[p]] # <<>>
  BY <1>1 DEF TypeOK, Receive, HasMessage
<1>3. inq' \in [Client -> Seq(ClientMessage)]
  BY <1>1, <1>2 DEF TypeOK, Receive
<1>4. QED
  BY <1>1, <1>3 DEF Receive

\* Completing an operation keeps the type.
LEMMA CompleteType ==
    ASSUME TypeOK, NEW p \in Pipe, Complete(p)
    PROVE  TypeOK'
<1> USE DEF brokerVars, kernelVars
<1>0. /\ CallsAfterRefusal(p) \in Seq(Call)
      /\ <<ReadPipe(p)>> \in Seq(Call)
      /\ <<Disconnect(p)>> \in Seq(Call)
  BY DEF CallsAfterRefusal, ReadPipe, Disconnect, Call
<1>1. CASE AcceptConnect(p) \/ RejectConnect(p)
  <2>1. link[p] \in Client
    BY <1>1 DEF AcceptConnect, RejectConnect, Wake, Signalled, TypeOK
  <2>2. session' \in [Client -> Session]
    <3>1. session' = [session EXCEPT ![link[p]].met = TRUE]
      BY <1>1 DEF AcceptConnect, RejectConnect, Meet
    <3>2. QED
      BY <3>1, <2>1, SessionUpdates
  <2>3. CASE AcceptConnect(p)
    BY <2>3, <2>2, <1>0, RegistryUpdates DEF AcceptConnect, TypeOK
  <2>4. CASE RejectConnect(p)
    BY <2>4, <2>2, <1>0, RegistryUpdates DEF RejectConnect, ClientDelete, TypeOK
  <2>5. QED
    BY <1>1, <2>3, <2>4
<1>2. CASE FailedRead(p)
  BY <1>2, <1>0 DEF FailedRead, CallsAfterReadError, TypeOK
<1>3. CASE ReceiveInvalid(p)
  <2>1. <<Write(p, InvalidMsg), ReadPipe(p)>> \in Seq(Call)
    BY CallsAreCalls, MessagesAreMessages
  <2>2. QED
    BY <1>3, <2>1, ReceiveType DEF ReceiveInvalid, TypeOK
<1>4. CASE ReceiveReserved(p)
  BY <1>4, <1>0, ReceiveType DEF ReceiveReserved, TypeOK
<1>5. CASE RejectRegister(p)
  BY <1>5, <1>0, ReceiveType, RegistryUpdates DEF RejectRegister, ClientDelete, TypeOK
<1>6. ASSUME Receive(p, {"Register"}), RecordId(p, NextMessage(p).id)
      PROVE  /\ NextMessage(p).id \in Id \cup {NoId}
             /\ session' \in [Client -> Session]
  <2>1. link[p] \in Client /\ NextMessage(p).id \in Id \cup {NoId}
    BY <1>6, ReceiveType, ClientMessageFields
  <2>2. QED
    BY <1>6, <2>1, SessionUpdates DEF RecordId, TypeOK
<1>7. CASE Register(p)
  <2>1. /\ Receive(p, {"Register"})
        /\ RecordId(p, NextMessage(p).id)
        /\ mClients' = WithId(mClients, p, NextMessage(p).id)
        /\ todo' = <<ReadPipe(p)>>
        /\ UNCHANGED mMessages
    BY <1>7 DEF Register
  <2>2. mClients' \in [Pipe -> Id \cup {NoId, Absent}]
    BY <2>1, <1>6, RegistryUpdates
  <2>3. QED
    BY <2>1, <2>2, <1>0, <1>6, ReceiveType DEF TypeOK
<1>8. ASSUME NEW old \in Pipe, ReplaceRegister(p, old) PROVE TypeOK'
  <2> DEFINE id == NextMessage(p).id
  <2>1. /\ Receive(p, {"Register"})
        /\ RecordId(p, id)
        /\ mClients' = WithId(WithoutClient(old), p, id)
        /\ mMessages' = WithoutSubscriber(old)
        /\ todo' = CallsAfterReplace(p, old, id)
    BY <1>8 DEF ReplaceRegister
  <2>2. id \in Id \cup {NoId}
    BY <2>1, <1>6
  <2>3. mClients' \in [Pipe -> Id \cup {NoId, Absent}] /\ mMessages' \in [Type -> SUBSET Pipe]
    BY <2>1, <2>2, RegistryUpdates
  <2>4. todo' \in Seq(Call)
    <3>1. /\ Kick(id) \in Message
          /\ Write(old, Kick(id)) \in Call
          /\ Disconnect(old) \in Call
          /\ ReadPipe(p) \in Call
      BY <2>2, CallsAreCalls, MessagesAreMessages
    <3>2. QED
      BY <2>1, <3>1 DEF CallsAfterReplace
  <2>5. QED
    BY <2>1, <2>3, <2>4, <1>6, ReceiveType DEF TypeOK
<1>9. CASE Subscribe(p)
  <2> DEFINE t == NextMessage(p).type
  <2>1. Receive(p, {"Subscribe"}) /\ UNCHANGED mClients /\ todo' = <<ReadPipe(p)>>
    BY <1>9 DEF Subscribe
  <2>2. t \in Type /\ link[p] \in Client
    BY <2>1, ReceiveType, ClientMessageFields
  <2>3. /\ mMessages' = [mMessages EXCEPT ![t] = @ \cup {p}] \/ mMessages' = mMessages
        /\ session' = [session EXCEPT ![link[p]].types = @ \cup {t}] \/ session' = session
    BY <1>9, Zenon DEF Subscribe
  <2>4. mMessages' \in [Type -> SUBSET Pipe]
    <3>1. mMessages \in [Type -> SUBSET Pipe] /\ mMessages[t] \cup {p} \in SUBSET Pipe
      BY <2>2 DEF TypeOK
    <3>2. QED
      BY <2>3, <3>1
  <2>5. session' \in [Client -> Session]
    <3>1. session \in [Client -> Session]
      BY DEF TypeOK
    <3>2. [session EXCEPT ![link[p]].types = @ \cup {t}] \in [Client -> Session]
      BY <2>2, SessionUpdates
    <3>3. QED
      BY <2>3, <3>1, <3>2
  <2>6. QED
    BY <2>1, <2>4, <2>5, <1>0, ReceiveType DEF TypeOK
<1>10. CASE ReceiveBroadcast(p)
  <2> DEFINE m == NextMessage(p)
  <2>1. /\ Receive(p, {"Broadcast"}) /\ UNCHANGED <<brokerVars, session>>
        /\ todo' = <<Deliver(mMessages[m.type], m), ReadPipe(p)>>
    BY <1>10 DEF ReceiveBroadcast
  <2>2. m \in Message /\ m.type \in Type
    BY <2>1, ReceiveType, ClientMessageFields, MessagesAreMessages
  <2>3. mMessages[m.type] \in SUBSET Pipe
    BY <2>2 DEF TypeOK
  <2>4. todo' \in Seq(Call)
    BY <2>1, <2>2, <2>3, CallsAreCalls
  <2>5. QED
    BY <2>1, <2>4, ReceiveType DEF TypeOK
<1>11. CASE RelayUnicast(p)
  <2> DEFINE m == NextMessage(p)
  <2>1. PICK dst \in Holders(m.id) :
              /\ Receive(p, {"Unicast"}) /\ UNCHANGED <<brokerVars, session>>
              /\ todo' = <<Write(dst, m), ReadPipe(p)>>
    BY <1>11 DEF RelayUnicast
  <2>2. m \in Message /\ dst \in Pipe
    BY <2>1, ReceiveType, MessagesAreMessages DEF Holders
  <2>3. todo' \in Seq(Call)
    BY <2>1, <2>2, CallsAreCalls
  <2>4. QED
    BY <2>1, <2>3, ReceiveType DEF TypeOK
<1>12. CASE BounceUnicast(p)
  <2>1. <<Write(p, DstNotFound), ReadPipe(p)>> \in Seq(Call)
    BY CallsAreCalls, MessagesAreMessages
  <2>2. QED
    BY <1>12, <2>1, ReceiveType DEF BounceUnicast, TypeOK
<1>13. QED
  BY <1>1, <1>2, <1>3, <1>4, <1>5, <1>7, <1>8, <1>9, <1>10, <1>11, <1>12 DEF Complete

\* A step of the server thread keeps the type.
LEMMA ServerType == TypeOK /\ ServerNext => TypeOK'
<1> SUFFICES ASSUME TypeOK, ServerNext PROVE TypeOK'
  OBVIOUS
<1> USE DEF brokerVars, kernelVars
<1>0. todo # <<>> => Tail(todo) \in Seq(Call)
  BY DEF TypeOK
<1>1. ASSUME NEW p \in Pipe, Complete(p) PROVE TypeOK'
  BY <1>1, CompleteType
<1>2. CASE DisconnectAndReconnect
  <2> DEFINE p == Current.pipe
  <2>1. p \in Pipe /\ todo # <<>>
    BY <1>2, CurrentCall DEF DisconnectAndReconnect, Running
  <2>2. mClients' \in [Pipe -> Id \cup {NoId, Absent}] /\ mMessages' \in [Type -> SUBSET Pipe]
    BY <1>2, <2>1, RegistryUpdates DEF DisconnectAndReconnect, ClientDelete
  <2>3. /\ link' \in [Pipe -> Client \cup {NoClient}]
        /\ phase' \in [Client -> {"new", "open", "closed", "cut"}]
        /\ inq' \in [Client -> Seq(ClientMessage)]
        /\ outq' \in [Client -> Seq(Message)]
        /\ session' \in [Client -> Session]
    <3>1. Relisten(p)
      BY <1>2 DEF DisconnectAndReconnect
    <3>2. CASE link[p] = NoClient
      BY <2>1, <3>1, <3>2 DEF Relisten, TypeOK
    <3>3. CASE link[p] # NoClient
      <4>1. link[p] \in Client
        BY <2>1, <3>3 DEF TypeOK
      <4>2. session' = [session EXCEPT ![link[p]] = FreshSession]
        BY <3>1, <3>3 DEF Relisten
      <4>3. session' \in [Client -> Session]
        BY <4>1, <4>2, SessionUpdates
      <4>4. phase' \in [Client -> {"new", "open", "closed", "cut"}]
        <5>1. phase' = [phase EXCEPT ![link[p]] = PhaseAfterCut(link[p])]
          BY <3>1, <3>3 DEF Relisten
        <5>2. PhaseAfterCut(link[p]) \in {"cut", "new"}
          BY DEF PhaseAfterCut
        <5>3. QED
          BY <5>1, <5>2 DEF TypeOK
      <4>5. inq' \in [Client -> Seq(ClientMessage)] /\ outq' \in [Client -> Seq(Message)]
        <5>1. <<>> \in Seq(ClientMessage) /\ <<>> \in Seq(Message)
          OBVIOUS
        <5>2. inq' = [inq EXCEPT ![link[p]] = <<>>] /\ outq' = [outq EXCEPT ![link[p]] = <<>>]
          BY <3>1, <3>3 DEF Relisten
        <5>3. QED
          BY <5>1, <5>2 DEF TypeOK
      <4>6. link' \in [Pipe -> Client \cup {NoClient}]
        BY <2>1, <3>1 DEF Relisten, TypeOK
      <4>7. QED
        BY <4>3, <4>4, <4>5, <4>6
    <3>4. QED
      BY <3>2, <3>3
  <2>4. /\ state' \in [Pipe -> {"CONNECTING", "READING"}]
        /\ notified' \in Id \cup {NoId}
    BY <1>2, <2>1 DEF DisconnectAndReconnect, TypeOK
  <2>5. QED
    BY <1>2, <1>0, <2>1, <2>2, <2>3, <2>4 DEF DisconnectAndReconnect, TypeOK
<1>3. CASE RelockMutex
  <2>1. phase' \in [Client -> {"new", "open", "closed", "cut"}]
    BY <1>3 DEF RelockMutex, PhaseAfterCut, TypeOK
  <2>2. inq' \in [Client -> Seq(ClientMessage)] /\ outq' \in [Client -> Seq(Message)]
    <3>1. <<>> \in Seq(ClientMessage) /\ <<>> \in Seq(Message)
      OBVIOUS
    <3>2. QED
      BY <1>3, <3>1 DEF RelockMutex
  <2>3. QED
    BY <1>3, <2>1, <2>2 DEF RelockMutex, TypeOK
<1>4. CASE StartRead
  <2>1. Current.pipe \in Pipe /\ todo # <<>>
    BY <1>4, CurrentCall DEF StartRead, Running
  <2>2. <<Disconnect(Current.pipe)>> \o Tail(todo) \in Seq(Call)
    BY <2>1, <1>0 DEF Disconnect, Call
  <2>3. QED
    BY <1>4, <1>0, <2>1, <2>2 DEF StartRead, TypeOK
<1>5. CASE WriteMessage
  <2> DEFINE c == link[Current.pipe]
  <2>1. /\ Current.pipe \in Pipe /\ Current.msg \in Message /\ todo # <<>>
        /\ c # NoClient
    BY <1>5, CurrentCall DEF WriteMessage, Running
  <2>2. c \in Client
    BY <2>1 DEF TypeOK
  <2>3. outq' \in [Client -> Seq(Message)]
    BY <1>5, <2>1, <2>2 DEF WriteMessage, TypeOK
  <2>4. QED
    BY <1>5, <1>0, <2>1, <2>3 DEF WriteMessage, TypeOK
<1>6. CASE WriteFails
  <2>1. Current.pipe \in Pipe /\ todo # <<>>
    BY <1>6, CurrentCall DEF WriteFails, Running
  <2>2. <<Disconnect(Current.pipe)>> \o Tail(todo) \in Seq(Call)
    BY <2>1, <1>0 DEF Disconnect, Call
  <2>3. QED
    BY <1>6, <2>2 DEF WriteFails, TypeOK
<1>7. ASSUME NEW p \in Pipe, BroadcastNext(p) PROVE TypeOK'
  <2>1. Current.to \subseteq Pipe /\ Current.msg \in Message /\ todo # <<>>
    BY <1>7, CurrentCall DEF BroadcastNext, Running
  <2>2. Write(p, Current.msg) \in Call /\ Deliver(Current.to \ {p}, Current.msg) \in Call
    BY <2>1, CallsAreCalls
  <2>3. todo' \in Seq(Call)
    BY <1>7, <1>0, <2>1, <2>2 DEF BroadcastNext
  <2>4. QED
    BY <1>7, <2>3 DEF BroadcastNext, TypeOK
<1>8. CASE BroadcastDone
  BY <1>8, <1>0 DEF BroadcastDone, Running, TypeOK
<1>9. QED
  BY <1>1, <1>2, <1>3, <1>4, <1>5, <1>6, <1>7, <1>8 DEF ServerNext

\* Every reachable state of the broker, its pipes and its clients is of the
\* declared type.
THEOREM TypeCorrect == Spec => []TypeOK
<1>1. TypeOK /\ [Next]_vars => TypeOK'
  <2>1. TypeOK /\ UNCHANGED vars => TypeOK'
    BY DEF TypeOK, vars, kernelVars, brokerVars
  <2>2. QED
    BY <2>1, ClientType, ServerType DEF Next
<1>2. QED
  BY <1>1, InitType, PTL DEF Spec

-----------------------------------------------------------------------------
(***************************************************************************)
(* The registry follows the connections                                    *)
(*                                                                         *)
(* EntriesBelongToSession is not inductive: that a new entry is right      *)
(* needs the connection it is made for to be unregistered, and that the    *)
(* other entries stay right needs connections not to share a pipe.         *)
(* Attachment says that much.  OneSessionPerId speaks of the waiting       *)
(* thread; EvictedAreDoomed says what holds while it is busy.              *)
(***************************************************************************)

OnePipeEach == \A p, q \in Pipe : p # q /\ link[p] = link[q] => link[p] = NoClient
AttachedIsOpen == \A p \in Pipe : link[p] # NoClient => phase[link[p]] \in {"open", "closed"}
DetachedIsFresh == \A c \in Client : ~Attached(c) => session[c] = FreshSession
ConnectingHasNoId ==
    \A p \in Pipe : state[p] = "CONNECTING" /\ link[p] # NoClient => session[link[p]].id = NoId
IdMeansMet == \A c \in Client : session[c].id # NoId => session[c].met

Attachment ==
    up => /\ OnePipeEach
          /\ AttachedIsOpen
          /\ DetachedIsFresh
          /\ ConnectingHasNoId
          /\ IdMeansMet

Doomed(calls, p) == \E k \in 1 .. Len(calls) : calls[k] = Disconnect(p)

\* A connection the broker has met and no longer lists is about to be cut.
EvictedAreDoomed ==
    up => \A p \in Pipe :
        link[p] # NoClient /\ session[link[p]].met /\ ~Registered(p) => Doomed(todo, p)

RegistryInv == UniqueId /\ EntriesBelongToSession /\ Attachment /\ EvictedAreDoomed

IInv == TypeOK /\ RegistryInv

\* Nobody is connected, registered or subscribed at first.
LEMMA InitRegistry == Init => RegistryInv
BY NamesAssumption
   DEF Init, RegistryInv, UniqueId, EntriesBelongToSession, Attachment, OnePipeEach,
       AttachedIsOpen, DetachedIsFresh, ConnectingHasNoId, IdMeansMet, EvictedAreDoomed,
       Registered, FreshSession

\* A client that connects takes a pipe nobody is listed for; what clients do
\* otherwise does not reach the registry.
LEMMA ClientRegistry == IInv /\ ClientNext => RegistryInv'
<1> SUFFICES ASSUME IInv, NEW c \in Client,
                    \/ \E p \in Pipe : ClientConnect(c, p)
                    \/ \E m \in Sends[c] : ClientWrite(c, m)
                    \/ ClientRead(c)
                    \/ ClientClose(c)
                    \/ ClientForget(c)
             PROVE  RegistryInv'
  BY DEF ClientNext
<1> USE DEF IInv, RegistryInv
<1>1. ASSUME NEW p \in Pipe, ClientConnect(c, p) PROVE RegistryInv'
  <2>1. /\ up /\ up' /\ phase[c] = "new" /\ link[p] = NoClient
        /\ UNCHANGED <<mClients, mMessages, state, todo, session>>
        /\ link' \in [Pipe -> Client \cup {NoClient}]
        /\ \A q \in Pipe : link'[q] = IF q = p THEN c ELSE link[q]
        /\ \A d \in Client : phase'[d] = IF d = c THEN "open" ELSE phase[d]
    BY <1>1 DEF ClientConnect, TypeOK, brokerVars
  <2>2. \A q \in Pipe : link[q] # c
    BY <2>1, NamesAssumption DEF Attachment, AttachedIsOpen
  <2>3. session[c] = FreshSession
    BY <2>1, <2>2 DEF Attachment, DetachedIsFresh, Attached
  <2>4. ~Registered(p) /\ \A t \in Type : p \notin mMessages[t]
    BY <2>1 DEF EntriesBelongToSession
  <2>5. UniqueId'
    BY <2>1 DEF UniqueId
  <2>6. EntriesBelongToSession'
    BY <2>1, <2>4 DEF EntriesBelongToSession, Registered
  <2>7. OnePipeEach' /\ AttachedIsOpen'
    BY <2>1, <2>2 DEF Attachment, OnePipeEach, AttachedIsOpen
  <2>8. DetachedIsFresh'
    <3> SUFFICES ASSUME NEW d \in Client, \A q \in Pipe : link'[q] # d
                 PROVE  session[d] = FreshSession
      BY <2>1 DEF DetachedIsFresh, Attached
    <3>1. \A q \in Pipe : link[q] # d
      BY <2>1, NamesAssumption
    <3>2. QED
      BY <2>1, <3>1 DEF Attachment, DetachedIsFresh, Attached
  <2>9. ConnectingHasNoId' /\ IdMeansMet'
    BY <2>1, <2>3 DEF Attachment, ConnectingHasNoId, IdMeansMet, FreshSession
  <2>10. EvictedAreDoomed'
    BY <2>1, <2>3 DEF EvictedAreDoomed, Registered, FreshSession, Doomed
  <2>11. QED
    BY <2>5, <2>6, <2>7, <2>8, <2>9, <2>10 DEF Attachment
<1>2. CASE \/ \E m \in Sends[c] : ClientWrite(c, m)
           \/ ClientRead(c)
           \/ ClientClose(c)
           \/ ClientForget(c)
  <2>1. UNCHANGED <<link, mClients, mMessages, state, todo, up, session>>
    BY <1>2 DEF ClientWrite, ClientRead, ClientClose, ClientForget, brokerVars
  <2>2. up => AttachedIsOpen'
    <3>1. \A d \in Client : phase[d] \in {"open", "closed"} => phase'[d] \in {"open", "closed"}
      BY <1>2 DEF ClientWrite, ClientRead, ClientClose, ClientForget, TypeOK
    <3>2. \A p \in Pipe : link[p] # NoClient => link[p] \in Client
      BY DEF TypeOK
    <3>3. QED
      BY <2>1, <3>1, <3>2 DEF Attachment, AttachedIsOpen
  <2>3. QED
    BY <2>1, <2>2
       DEF UniqueId, EntriesBelongToSession, Attachment, OnePipeEach, DetachedIsFresh,
           Attached, ConnectingHasNoId, IdMeansMet, EvictedAreDoomed, Registered, Doomed
<1>3. QED
  BY <1>1, <1>2

\* Handlers start with nothing left to do, so nobody is waiting to be cut, and
\* leave the connections alone.
LEMMA WakeRegistry ==
    ASSUME IInv, NEW p \in Pipe, Wake(p)
    PROVE  /\ up /\ link[p] \in Client
           /\ \A q \in Pipe : link[q] # NoClient /\ session[link[q]].met => Registered(q)
           /\ \A q \in Pipe \ {p} : link[q] # link[p]
<1>1. up /\ todo = <<>> /\ link[p] # NoClient
  BY DEF Wake, Idle, Signalled
<1>2. \A q \in Pipe : ~Doomed(todo, q)
  BY <1>1 DEF Doomed
<1>3. QED
  BY <1>1, <1>2 DEF IInv, RegistryInv, TypeOK, EvictedAreDoomed, Attachment, OnePipeEach

\* A step that changes neither connections nor registry keeps the invariant
\* unless it forgets to cut somebody.
LEMMA UnchangedRegistry ==
    ASSUME IInv, UNCHANGED <<link, phase, mClients, mMessages, session, up>>,
           \A p \in Pipe : state'[p] \in {state[p], "READING"},
           EvictedAreDoomed'
    PROVE  RegistryInv'
BY DEF IInv, RegistryInv, UniqueId, EntriesBelongToSession, Attachment, OnePipeEach,
       AttachedIsOpen, DetachedIsFresh, Attached, ConnectingHasNoId, IdMeansMet, Registered

\* Completing an operation updates the registry for the connection on the pipe,
\* and leaves a disconnect to do for every connection it strikes from it.
LEMMA CompleteRegistry ==
    ASSUME IInv, NEW p \in Pipe, Complete(p)
    PROVE  RegistryInv'
<1> DEFINE c == link[p]
<1>0. Wake(p) /\ UNCHANGED <<link, phase, state, up>>
  BY DEF Complete, AcceptConnect, RejectConnect, FailedRead, CallsAfterReadError,
       ReceiveInvalid, ReceiveReserved, RejectRegister, Register, ReplaceRegister,
       Subscribe, ReceiveBroadcast, RelayUnicast, BounceUnicast, Receive, kernelVars
<1>1. /\ up /\ c \in Client
      /\ \A q \in Pipe : link[q] # NoClient /\ session[link[q]].met => Registered(q)
      /\ \A q \in Pipe \ {p} : link[q] # c
  BY <1>0, WakeRegistry
<1>2. /\ mClients \in [Pipe -> Id \cup {NoId, Absent}]
      /\ mMessages \in [Type -> SUBSET Pipe]
      /\ session \in [Client -> Session] /\ session[c] \in Session
      /\ \A q \in Pipe : link[q] # NoClient => link[q] \in Client
  BY <1>1 DEF IInv, TypeOK
<1>3. /\ UniqueId
      /\ \A q \in Pipe :
             /\ Registered(q) =>
                    /\ link[q] # NoClient
                    /\ session[link[q]].met
                    /\ session[link[q]].id = mClients[q]
             /\ \A t \in Type : q \in mMessages[t] =>
                    Registered(q) /\ t \in session[link[q]].types
  BY <1>1 DEF IInv, RegistryInv, EntriesBelongToSession
<1>4. OnePipeEach /\ AttachedIsOpen /\ DetachedIsFresh /\ ConnectingHasNoId /\ IdMeansMet
  BY <1>1 DEF IInv, RegistryInv, Attachment
\* What remains to be shown of each handler.
<1>5. ASSUME UniqueId',
             \A q \in Pipe :
                 /\ Registered(q)' => link[q] # NoClient /\ session'[link[q]].met
                                          /\ session'[link[q]].id = mClients'[q]
                 /\ \A t \in Type : q \in mMessages'[t] =>
                        Registered(q)' /\ t \in session'[link[q]].types,
             \A d \in Client \ {c} : session'[d] = session[d],
             state[p] = "CONNECTING" => session'[c].id = NoId,
             session'[c].id # NoId => session'[c].met,
             \A q \in Pipe : link[q] # NoClient /\ session'[link[q]].met /\ ~Registered(q)'
                                 => Doomed(todo', q)
      PROVE  RegistryInv'
  <2>1. EntriesBelongToSession'
    BY <1>0, <1>5 DEF EntriesBelongToSession
  <2>2. OnePipeEach' /\ AttachedIsOpen'
    BY <1>0, <1>4 DEF OnePipeEach, AttachedIsOpen
  <2>3. DetachedIsFresh'
    BY <1>0, <1>4, <1>5 DEF DetachedIsFresh, Attached
  <2>4. ConnectingHasNoId'
    BY <1>0, <1>1, <1>2, <1>4, <1>5 DEF ConnectingHasNoId
  <2>5. IdMeansMet'
    BY <1>4, <1>5 DEF IdMeansMet
  <2>6. EvictedAreDoomed'
    BY <1>0, <1>5 DEF EvictedAreDoomed
  <2>7. QED
    BY <1>5, <2>1, <2>2, <2>3, <2>4, <2>5, <2>6 DEF RegistryInv, Attachment
<1>6. CASE AcceptConnect(p) \/ RejectConnect(p)
  <2>1. /\ session' = [session EXCEPT ![c].met = TRUE]
        /\ state[p] = "CONNECTING"
    BY <1>6 DEF AcceptConnect, RejectConnect, Meet
  <2>2. /\ session'[c].met /\ session'[c].id = session[c].id
        /\ session'[c].types = session[c].types
        /\ \A d \in Client \ {c} : session'[d] = session[d]
    BY <2>1, <1>1, <1>2 DEF Session
  <2>3. session[c].id = NoId
    BY <2>1, <1>1, <1>4, NamesAssumption, <1>0 DEF ConnectingHasNoId, Wake, Signalled
  <2>4. CASE AcceptConnect(p)
    <3>1. /\ mMessages' = mMessages
          /\ \A q \in Pipe \ {p} : mClients'[q] = mClients[q]
          /\ mClients'[p] = IF Registered(p) THEN mClients[p] ELSE NoId
      BY <2>4, <1>2 DEF AcceptConnect, ClientAdd
    <3>2. Registered(p)' /\ \A q \in Pipe \ {p} : Registered(q)' = Registered(q)
      BY <3>1, NamesAssumption DEF Registered
    <3>3. UniqueId'
      BY <3>1, <1>2, <1>3, NamesAssumption DEF UniqueId, Registered
    <3>4. mClients'[p] = NoId
      BY <3>1, <2>3, <1>3
    <3>5. QED
      BY <3>1, <3>2, <3>3, <3>4, <2>2, <2>3, <1>1, <1>2, <1>3, <1>5,
         <1>0, NamesAssumption DEF Wake, Signalled
  <2>5. CASE RejectConnect(p)
    <3>1. /\ \A q \in Pipe \ {p} : mClients'[q] = mClients[q]
          /\ mClients'[p] = Absent
          /\ \A t \in Type : mMessages'[t] = mMessages[t] \ {p}
          /\ todo' = <<Disconnect(p), ReadPipe(p)>>
      BY <2>5, <1>2 DEF RejectConnect, ClientDelete, WithoutClient, WithoutSubscriber,
                        CallsAfterRefusal
    <3>2. ~Registered(p)' /\ \A q \in Pipe \ {p} : Registered(q)' = Registered(q)
      BY <3>1 DEF Registered
    <3>3. UniqueId'
      BY <3>1, <1>2, <1>3, NamesAssumption DEF UniqueId
    <3>4. Doomed(todo', p)
      BY <3>1 DEF Doomed
    <3>5. QED
      BY <3>1, <3>2, <3>3, <3>4, <2>2, <2>3, <1>1, <1>2, <1>3, <1>5
  <2>6. QED
    BY <1>6, <2>4, <2>5
<1>7. CASE \/ FailedRead(p) \/ ReceiveInvalid(p) \/ ReceiveReserved(p)
           \/ ReceiveBroadcast(p) \/ RelayUnicast(p) \/ BounceUnicast(p)
  <2>1. UNCHANGED <<mClients, mMessages, session>>
    BY <1>7 DEF FailedRead, CallsAfterReadError, ReceiveInvalid, ReceiveReserved,
         ReceiveBroadcast, RelayUnicast, BounceUnicast, brokerVars
  <2>2. EvictedAreDoomed'
    BY <2>1, <1>0, <1>1 DEF EvictedAreDoomed, Registered
  <2>3. QED
    BY <2>1, <2>2, <1>0, UnchangedRegistry
<1>8. ASSUME Receive(p, {"Register"}) PROVE state[p] = "READING" /\ state[p] # "CONNECTING"
  BY <1>8 DEF Receive
<1>9. CASE RejectRegister(p)
  <2>1. /\ \A q \in Pipe \ {p} : mClients'[q] = mClients[q]
        /\ mClients'[p] = Absent
        /\ \A t \in Type : mMessages'[t] = mMessages[t] \ {p}
        /\ todo' = <<Disconnect(p), ReadPipe(p)>>
        /\ session' = session
        /\ Receive(p, {"Register"})
    BY <1>9, <1>2 DEF RejectRegister, ClientDelete, WithoutClient, WithoutSubscriber,
                      CallsAfterRefusal
  <2>2. ~Registered(p)' /\ \A q \in Pipe \ {p} : Registered(q)' = Registered(q)
    BY <2>1 DEF Registered
  <2>3. UniqueId'
    BY <2>1, <1>2, <1>3, NamesAssumption DEF UniqueId
  <2>4. Doomed(todo', p)
    BY <2>1 DEF Doomed
  <2>5. QED
    BY <2>1, <2>2, <2>3, <2>4, <1>1, <1>2, <1>3, <1>4, <1>5, <1>8 DEF IdMeansMet
\* What RecordId says of the observation.
<1>10. ASSUME NEW id \in Id \cup {NoId}, RecordId(p, id)
       PROVE  /\ session'[c].id = IF Registered(p) THEN id ELSE session[c].id
              /\ session'[c].met = session[c].met
              /\ session'[c].types = session[c].types
              /\ \A d \in Client \ {c} : session'[d] = session[d]
  BY <1>10, <1>1, <1>2 DEF RecordId, Session
<1>11. CASE Register(p)
  <2> DEFINE id == NextMessage(p).id
  <2>1. /\ Receive(p, {"Register"}) /\ RecordId(p, id)
        /\ mClients' = WithId(mClients, p, id) /\ mMessages' = mMessages
        /\ Duplicates(p, id) = {}
    BY <1>11 DEF Register
  <2>2. id \in Id \cup {NoId}
    BY <2>1, ReceiveType, ClientMessageFields DEF IInv
  <2>3. /\ \A q \in Pipe \ {p} : mClients'[q] = mClients[q]
        /\ mClients'[p] = IF Registered(p) THEN id ELSE Absent
    BY <2>1, <2>2, <1>2 DEF WithId, Registered
  <2>4. \A q \in Pipe : Registered(q)' = Registered(q)
    BY <2>2, <2>3, NamesAssumption DEF Registered
  <2>5. \A q \in Pipe \ {p} : mClients[q] # id
    BY <2>1 DEF Duplicates
  <2>6. UniqueId'
    BY <2>3, <2>5, <1>2, <1>3, NamesAssumption DEF UniqueId
  <2>7. QED
    BY <2>1, <2>2, <2>3, <2>4, <2>6, <1>1, <1>2, <1>3, <1>4, <1>5, <1>8, <1>10 DEF IdMeansMet
<1>12. ASSUME NEW old \in Pipe, ReplaceRegister(p, old) PROVE RegistryInv'
  <2> DEFINE id == NextMessage(p).id
  <2>1. /\ Receive(p, {"Register"}) /\ RecordId(p, id)
        /\ mClients' = WithId(WithoutClient(old), p, id)
        /\ mMessages' = WithoutSubscriber(old)
        /\ old \in Duplicates(p, id)
        /\ todo' = <<Write(old, Kick(id)), Disconnect(old), ReadPipe(p)>>
    BY <1>12 DEF ReplaceRegister, CallsAfterReplace
  <2>2. id \in Id \cup {NoId}
    BY <2>1, ReceiveType, ClientMessageFields DEF IInv
  <2>3. old # p /\ mClients[old] = id
    BY <2>1 DEF Duplicates
  <2>4. /\ \A q \in Pipe \ {p, old} : mClients'[q] = mClients[q]
        /\ mClients'[old] = Absent
        /\ mClients'[p] = IF Registered(p) THEN id ELSE Absent
        /\ \A t \in Type : mMessages'[t] = mMessages[t] \ {old}
    BY <2>1, <2>2, <2>3, <1>2 DEF WithId, WithoutClient, WithoutSubscriber, Registered
  <2>5. ~Registered(old)' /\ \A q \in Pipe \ {old} : Registered(q)' = Registered(q)
    BY <2>2, <2>4, NamesAssumption DEF Registered
  <2>6. UniqueId'
    BY <2>3, <2>4, <1>2, <1>3, NamesAssumption DEF UniqueId
  <2>7. Doomed(todo', old)
    BY <2>1 DEF Doomed
  <2>8. QED
    BY <2>1, <2>2, <2>4, <2>5, <2>6, <2>7, <1>1, <1>2, <1>3, <1>4, <1>5, <1>8, <1>10
       DEF IdMeansMet
<1>13. CASE Subscribe(p)
  <2> DEFINE t == NextMessage(p).type
  <2>1. /\ Receive(p, {"Subscribe"}) /\ mClients' = mClients
        /\ state[p] = "READING"
    BY <1>13 DEF Subscribe, Receive
  <2>2. t \in Type
    BY <2>1, ReceiveType, ClientMessageFields DEF IInv
  <2>3. CASE Registered(p)
    <3>1. /\ mMessages' = [mMessages EXCEPT ![t] = @ \cup {p}]
          /\ session' = [session EXCEPT ![c].types = @ \cup {t}]
      BY <1>13, <2>3 DEF Subscribe
    <3>2. /\ \A u \in Type \ {t} : mMessages'[u] = mMessages[u]
          /\ mMessages'[t] = mMessages[t] \cup {p}
      BY <3>1, <2>2, <1>2
    <3>3. /\ session'[c].id = session[c].id /\ session'[c].met = session[c].met
          /\ session'[c].types = session[c].types \cup {t}
          /\ \A d \in Client \ {c} : session'[d] = session[d]
      BY <3>1, <1>1, <1>2 DEF Session
    <3>4. UniqueId' /\ \A q \in Pipe : Registered(q)' = Registered(q)
      BY <2>1, <1>3 DEF UniqueId, Registered
    <3>5. QED
      BY <2>1, <2>2, <2>3, <3>2, <3>3, <3>4, <1>1, <1>2, <1>3, <1>4, <1>5 DEF IdMeansMet
  <2>4. CASE ~Registered(p)
    <3>1. UNCHANGED <<mClients, mMessages, session>>
      BY <1>13, <2>1, <2>4 DEF Subscribe
    <3>2. EvictedAreDoomed'
      BY <3>1, <1>0, <1>1 DEF EvictedAreDoomed, Registered
    <3>3. QED
      BY <3>1, <3>2, <1>0, UnchangedRegistry
  <2>5. QED
    BY <2>3, <2>4
<1>14. QED
  BY <1>6, <1>7, <1>9, <1>11, <1>12, <1>13 DEF Complete

\* Taking a call other than p's disconnect off the stack, or putting calls on
\* top, does not save p from being cut.
LEMMA StackKeepsDoomed ==
    ASSUME NEW calls \in Seq(Call), calls # <<>>, NEW p \in Pipe,
           Doomed(calls, p), Head(calls) # Disconnect(p)
    PROVE  /\ Doomed(Tail(calls), p)
           /\ \A x \in Call : Doomed(<<x>> \o Tail(calls), p)
           /\ \A x, y \in Call : Doomed(<<x, y>> \o Tail(calls), p)
<1>1. PICK k \in 1 .. Len(calls) : calls[k] = Disconnect(p)
  BY DEF Doomed
<1>2. k # 1 /\ Len(calls) \in Nat
  BY <1>1
<1>3. k - 1 \in 1 .. Len(Tail(calls)) /\ Tail(calls)[k - 1] = Disconnect(p)
  BY <1>1, <1>2
<1>4. Doomed(Tail(calls), p)
  BY <1>3 DEF Doomed
<1>5. ASSUME NEW x \in Call PROVE Doomed(<<x>> \o Tail(calls), p)
  <2>1. /\ k \in 1 .. Len(<<x>> \o Tail(calls))
        /\ (<<x>> \o Tail(calls))[k] = Disconnect(p)
    BY <1>2, <1>3
  <2>2. QED
    BY <2>1 DEF Doomed
<1>6. ASSUME NEW x \in Call, NEW y \in Call PROVE Doomed(<<x, y>> \o Tail(calls), p)
  <2>1. /\ k + 1 \in 1 .. Len(<<x, y>> \o Tail(calls))
        /\ (<<x, y>> \o Tail(calls))[k + 1] = Disconnect(p)
    BY <1>2, <1>3
  <2>2. QED
    BY <2>1 DEF Doomed
<1>7. QED
  BY <1>4, <1>5, <1>6

\* The calls into the pipe server: only a disconnect touches the registry, and
\* it removes exactly what belonged to the connection it cuts.
LEMMA CallRegistry ==
    ASSUME IInv,
           \/ DisconnectAndReconnect \/ RelockMutex \/ StartRead \/ WriteMessage
           \/ WriteFails \/ (\E p \in Pipe : BroadcastNext(p)) \/ BroadcastDone
    PROVE  RegistryInv'
<1>1. CASE DisconnectAndReconnect
  <2>0. PICK p \in Pipe : p = Current.pipe
    BY <1>1, CurrentCall DEF DisconnectAndReconnect, IInv
  <2> DEFINE c == link[p]
  <2>1. /\ p \in Pipe /\ todo \in Seq(Call) /\ todo # <<>> /\ up /\ up'
        /\ Head(todo) \in Call /\ Head(todo).call = "DisconnectAndReconnect"
    BY <1>1, CurrentCall DEF DisconnectAndReconnect, Running, IInv, TypeOK
  <2>2. /\ mClients \in [Pipe -> Id \cup {NoId, Absent}]
        /\ mMessages \in [Type -> SUBSET Pipe]
        /\ link \in [Pipe -> Client \cup {NoClient}]
        /\ session \in [Client -> Session] /\ phase \in [Client -> {"new", "open", "closed", "cut"}]
        /\ state \in [Pipe -> {"CONNECTING", "READING"}]
    BY DEF IInv, TypeOK
  <2>3. /\ \A q \in Pipe \ {p} : mClients'[q] = mClients[q]
        /\ mClients'[p] = Absent
        /\ \A t \in Type : mMessages'[t] = mMessages[t] \ {p}
        /\ \A q \in Pipe \ {p} : state'[q] = state[q]
        /\ \A q \in Pipe : link'[q] = IF q = p THEN NoClient ELSE link[q]
        /\ Relisten(p) /\ todo' = Tail(todo)
    BY <1>1, <2>0, <2>1, <2>2 DEF DisconnectAndReconnect, ClientDelete, WithoutClient,
                                  WithoutSubscriber, Relisten
  <2>4. /\ UniqueId /\ OnePipeEach /\ AttachedIsOpen /\ DetachedIsFresh /\ ConnectingHasNoId
        /\ IdMeansMet
        /\ \A q \in Pipe :
               /\ Registered(q) => /\ link[q] # NoClient
                                   /\ session[link[q]].met
                                   /\ session[link[q]].id = mClients[q]
               /\ \A t \in Type : q \in mMessages[t] =>
                      Registered(q) /\ t \in session[link[q]].types
        /\ \A q \in Pipe : link[q] # NoClient /\ session[link[q]].met /\ ~Registered(q)
                               => Doomed(todo, q)
    BY <2>1 DEF IInv, RegistryInv, Attachment, EntriesBelongToSession, EvictedAreDoomed
  <2>5. /\ \A d \in Client : d # c => session'[d] = session[d] /\ phase'[d] = phase[d]
        /\ c \in Client => session'[c] = FreshSession
    <3>1. CASE c = NoClient
      BY <2>3, <3>1, NamesAssumption DEF Relisten
    <3>2. CASE c # NoClient
      <4>1. /\ session' = [session EXCEPT ![c] = FreshSession]
            /\ phase' = [phase EXCEPT ![c] = PhaseAfterCut(c)]
        BY <2>3, <3>2 DEF Relisten
      <4>2. QED
        BY <2>2, <4>1
    <3>3. QED
      BY <3>1, <3>2
  <2>6. \A q \in Pipe \ {p} : link[q] # NoClient => link[q] \in Client /\ link[q] # c
    BY <2>1, <2>2, <2>4 DEF OnePipeEach
  <2>7. ~Registered(p)' /\ \A q \in Pipe \ {p} : Registered(q)' = Registered(q)
    BY <2>1, <2>3 DEF Registered
  <2>8. UniqueId'
    BY <2>1, <2>3, <2>4, NamesAssumption DEF UniqueId
  <2>9. EntriesBelongToSession'
    <3> SUFFICES ASSUME NEW q \in Pipe
                 PROVE  /\ Registered(q)' => /\ link'[q] # NoClient
                                             /\ session'[link'[q]].met
                                             /\ session'[link'[q]].id = mClients'[q]
                        /\ \A t \in Type : q \in mMessages'[t] =>
                               Registered(q)' /\ t \in session'[link'[q]].types
      BY DEF EntriesBelongToSession
    <3>1. CASE q = p
      BY <3>1, <2>3, <2>7
    <3>2. CASE q # p
      <4>1. Registered(q) => session'[link[q]] = session[link[q]]
        BY <3>2, <2>4, <2>5, <2>6
      <4>2. QED
        BY <3>2, <4>1, <2>3, <2>4, <2>7
    <3>3. QED
      BY <3>1, <3>2
  <2>10. OnePipeEach' /\ AttachedIsOpen'
    BY <2>3, <2>4, <2>5, <2>6 DEF OnePipeEach, AttachedIsOpen
  <2>11. DetachedIsFresh'
    <3> SUFFICES ASSUME NEW d \in Client, \A q \in Pipe : link'[q] # d
                 PROVE  session'[d] = FreshSession
      BY DEF DetachedIsFresh, Attached
    <3>1. CASE d = c
      BY <3>1, <2>5
    <3>2. CASE d # c
      <4>1. \A q \in Pipe : link[q] # d
        BY <2>3, <3>2
      <4>2. QED
        BY <3>2, <4>1, <2>4, <2>5 DEF DetachedIsFresh, Attached
    <3>3. QED
      BY <3>1, <3>2
  <2>12. ConnectingHasNoId'
    BY <2>3, <2>4, <2>5, <2>6 DEF ConnectingHasNoId
  <2>13. IdMeansMet'
    <3> SUFFICES ASSUME NEW d \in Client, session'[d].id # NoId PROVE session'[d].met
      BY DEF IdMeansMet
    <3>1. d # c
      BY <2>5 DEF FreshSession
    <3>2. QED
      BY <3>1, <2>4, <2>5 DEF IdMeansMet
  <2>14. EvictedAreDoomed'
    <3> SUFFICES ASSUME NEW q \in Pipe, link'[q] # NoClient, session'[link'[q]].met,
                        ~Registered(q)'
                 PROVE  Doomed(todo', q)
      BY DEF EvictedAreDoomed
    <3>1. q # p /\ link'[q] = link[q]
      BY <2>3
    <3>2. Doomed(todo, q)
      BY <3>1, <2>4, <2>5, <2>6, <2>7
    <3>3. Head(todo) # Disconnect(q)
      BY <2>0, <3>1 DEF Current, Disconnect
    <3>4. QED
      BY <3>2, <3>3, <2>1, <2>3, StackKeepsDoomed
  <2>15. QED
    BY <2>8, <2>9, <2>10, <2>11, <2>12, <2>13, <2>14 DEF RegistryInv, Attachment
<1>2. CASE RelockMutex
  BY <1>2 DEF RelockMutex, IInv, RegistryInv, UniqueId, EntriesBelongToSession, Attachment,
              EvictedAreDoomed, brokerVars
<1>3. CASE \/ StartRead \/ WriteMessage \/ WriteFails
           \/ (\E p \in Pipe : BroadcastNext(p)) \/ BroadcastDone
  <2>1. /\ UNCHANGED <<link, phase, mClients, mMessages, session, up>>
        /\ todo # <<>> /\ Head(todo).call # "DisconnectAndReconnect"
    BY <1>3 DEF StartRead, WriteMessage, WriteFails, BroadcastNext, BroadcastDone, Running,
                kernelVars, brokerVars
  <2>2. \A p \in Pipe : state'[p] \in {state[p], "READING"}
    <3>1. state \in [Pipe -> {"CONNECTING", "READING"}]
      BY DEF IInv, TypeOK
    <3>2. state' = state \/ StartRead
      BY <1>3 DEF WriteMessage, WriteFails, BroadcastNext, BroadcastDone, kernelVars
    <3>3. CASE StartRead
      <4>1. state' = [state EXCEPT ![Current.pipe] = "READING"]
        BY <3>3 DEF StartRead
      <4>2. QED
        BY <3>1, <4>1
    <3>4. QED
      BY <3>2, <3>3
  <2>3. \/ todo' = Tail(todo)
        \/ \E x \in Call : todo' = <<x>> \o Tail(todo)
        \/ \E x, y \in Call : todo' = <<x, y>> \o Tail(todo)
    <3>1. CASE StartRead
      <4>1. Disconnect(Current.pipe) \in Call
        BY <3>1, CurrentCall DEF StartRead, IInv, Disconnect, Call
      <4>2. QED
        BY <3>1, <4>1 DEF StartRead
    <3>2. CASE WriteMessage \/ BroadcastDone
      BY <3>2 DEF WriteMessage, BroadcastDone
    <3>3. CASE WriteFails
      <4>1. Disconnect(Current.pipe) \in Call
        BY <3>3, CurrentCall DEF WriteFails, IInv, Disconnect, Call
      <4>2. QED
        BY <3>3, <4>1 DEF WriteFails
    <3>4. ASSUME NEW p \in Pipe, BroadcastNext(p)
          PROVE  \E x, y \in Call : todo' = <<x, y>> \o Tail(todo)
      <4>1. Current.to \subseteq Pipe /\ Current.msg \in Message
        BY <3>4, CurrentCall DEF BroadcastNext, IInv
      <4>2. Write(p, Current.msg) \in Call /\ Deliver(Current.to \ {p}, Current.msg) \in Call
        BY <4>1, CallsAreCalls
      <4>3. QED
        BY <3>4, <4>2 DEF BroadcastNext
    <3>5. QED
      BY <1>3, <3>1, <3>2, <3>3, <3>4
  <2>4. EvictedAreDoomed'
    <3> SUFFICES ASSUME up, NEW p \in Pipe, link[p] # NoClient, session[link[p]].met,
                        ~Registered(p)
                 PROVE  Doomed(todo', p)
      BY <2>1 DEF EvictedAreDoomed, Registered
    <3>1. Doomed(todo, p) /\ todo \in Seq(Call)
      BY DEF IInv, RegistryInv, EvictedAreDoomed, TypeOK
    <3>2. Head(todo) # Disconnect(p)
      BY <2>1 DEF Disconnect
    <3>3. QED
      BY <2>1, <2>3, <3>1, <3>2, StackKeepsDoomed
  <2>5. QED
    BY <2>1, <2>2, <2>4, UnchangedRegistry
<1>4. QED
  BY <1>1, <1>2, <1>3

\* Every step of the clients, the kernel and the server thread keeps the
\* inductive invariant.
LEMMA RegistryStep == IInv /\ [Next]_vars => IInv'
<1> SUFFICES ASSUME IInv, [Next]_vars PROVE IInv'
  OBVIOUS
<1>1. TypeOK'
  <2>1. TypeOK /\ UNCHANGED vars => TypeOK'
    BY DEF TypeOK, vars, kernelVars, brokerVars
  <2>2. QED
    BY <2>1, ClientType, ServerType DEF Next, IInv
<1>2. RegistryInv'
  <2>1. CASE ClientNext
    BY <2>1, ClientRegistry
  <2>2. CASE ServerNext
    BY <2>2, CompleteRegistry, CallRegistry DEF ServerNext
  <2>3. CASE UNCHANGED vars
    <3>1. EvictedAreDoomed'
      BY <2>3 DEF IInv, RegistryInv, EvictedAreDoomed, Registered, Doomed, vars, kernelVars,
                  brokerVars
    <3>2. QED
      BY <2>3, <3>1, UnchangedRegistry DEF vars, kernelVars, brokerVars, IInv, TypeOK
  <2>4. QED
    BY <2>1, <2>2, <2>3 DEF Next
<1>3. QED
  BY <1>1, <1>2 DEF IInv

\* The inductive invariant holds in every state the broker reaches.
LEMMA InductiveInvariant == Spec => []IInv
<1>1. Init => IInv
  BY InitType, InitRegistry DEF IInv
<1>2. QED
  BY <1>1, RegistryStep, PTL DEF Spec

\* Two entries of mClients never carry the same registered id.
THEOREM UniqueIdHolds == Spec => []UniqueId
<1>1. IInv => UniqueId
  BY DEF IInv, RegistryInv
<1>2. QED
  BY <1>1, InductiveInvariant, PTL

\* Entries and subscriptions are those of the connection on the pipe now, never
\* inherited from the connection that used the pipe index before.
THEOREM EntriesBelongToSessionHolds == Spec => []EntriesBelongToSession
<1>1. IInv => EntriesBelongToSession
  BY DEF IInv, RegistryInv
<1>2. QED
  BY <1>1, InductiveInvariant, PTL

\* While the server thread waits, no connection it has met lingers unlisted.
LEMMA IdleListsAll == IInv => NoLingeringSession
<1> SUFFICES ASSUME IInv, Idle, NEW p \in Pipe, link[p] # NoClient, session[link[p]].met
             PROVE  Registered(p)
  BY DEF NoLingeringSession
<1>1. up /\ ~Doomed(todo, p)
  BY DEF Idle, Doomed
<1>2. QED
  BY <1>1 DEF IInv, RegistryInv, EvictedAreDoomed

\* A connection the host refused, or another has replaced, is gone by the time
\* the server thread waits for the next event.
THEOREM NoLingeringSessionHolds == Spec => []NoLingeringSession
BY IdleListsAll, InductiveInvariant, PTL

\* No two connections hold the same id while the server thread waits.
LEMMA IdleHasOneHolder == IInv => OneSessionPerId
<1> SUFFICES ASSUME IInv, Idle, NEW c \in Client, NEW d \in Client, c # d,
                    Attached(c), Attached(d), session[c].id = session[d].id,
                    session[c].id # NoId
             PROVE  FALSE
  BY DEF OneSessionPerId
<1>1. PICK p \in Pipe, q \in Pipe : link[p] = c /\ link[q] = d
  BY DEF Attached
<1>2. p # q /\ link[p] # NoClient /\ link[q] # NoClient /\ up
  BY <1>1, NamesAssumption DEF Idle
<1>3. session[c].met /\ session[d].met
  BY <1>2 DEF IInv, RegistryInv, Attachment, IdMeansMet
<1>4. Registered(p) /\ Registered(q)
  BY <1>1, <1>2, <1>3, IdleListsAll DEF NoLingeringSession
<1>5. mClients[p] = session[c].id /\ mClients[q] = session[d].id
  BY <1>1, <1>2, <1>4 DEF IInv, RegistryInv, EntriesBelongToSession
<1>6. session[c].id \in Id
  BY DEF IInv, TypeOK, Session
<1>7. QED
  BY <1>2, <1>5, <1>6 DEF IInv, RegistryInv, UniqueId

\* Registering under an id somebody holds leaves one holder: the former one has
\* been cut before the server thread waits again.
THEOREM OneSessionPerIdHolds == Spec => []OneSessionPerId
BY IdleHasOneHolder, InductiveInvariant, PTL

-----------------------------------------------------------------------------
(***************************************************************************)
(* The action properties: what the server thread writes to whom, and what  *)
(* it tells the host.  A message is addressed by pipe index when a handler *)
(* decides on it and written later; the invariant says that the index      *)
(* still means the same connection by then.                                *)
(***************************************************************************)

\* Pipe p is the right one for message m.
Addressed(p, m) ==
    /\ m.kind = "Unicast" =>
           link[p] # NoClient /\ session[link[p]].met /\ session[link[p]].id = m.id
    /\ m.kind = "Broadcast" =>
           link[p] # NoClient /\ m.type \in session[link[p]].types
    /\ m.kind = "KICK" =>
           link[p] # NoClient /\ session[link[p]].id = m.id /\ ~Registered(p)

\* A write is the innermost call; a broadcast has all its subscribers right.
RightCall(calls, k) ==
    /\ calls[k].call = "WritePipe" => k = 1 /\ Addressed(calls[k].pipe, calls[k].msg)
    /\ calls[k].call = "Broadcast" =>
           /\ calls[k].msg.kind = "Broadcast"
           /\ \A p \in calls[k].to : Addressed(p, calls[k].msg)

StackAddressed == up => \A k \in 1 .. Len(todo) : RightCall(todo, k)

\* Nothing is on the stack at first.
LEMMA InitAddressed == Init => StackAddressed
BY DEF Init, StackAddressed

\* Clients come to free pipes only, so that they take nobody's messages.
LEMMA ClientAddressed ==
    ASSUME IInv, StackAddressed, ClientNext
    PROVE  StackAddressed'
<1>1. PICK c \in Client : \/ \E p \in Pipe : ClientConnect(c, p)
                          \/ \E m \in Sends[c] : ClientWrite(c, m)
                          \/ ClientRead(c) \/ ClientClose(c) \/ ClientForget(c)
  BY DEF ClientNext
<1>2. UNCHANGED <<todo, up, session, mClients>>
  BY <1>1 DEF ClientConnect, ClientWrite, ClientRead, ClientClose, ClientForget, brokerVars
<1>3. \A p \in Pipe : link[p] # NoClient => link'[p] = link[p]
  BY <1>1 DEF ClientConnect, ClientWrite, ClientRead, ClientClose, ClientForget, IInv, TypeOK
<1>4. ASSUME NEW p \in Pipe, NEW m, Addressed(p, m) PROVE Addressed(p, m)'
  BY <1>2, <1>3, <1>4 DEF Addressed, Registered
<1>5. ASSUME up, NEW k \in 1 .. Len(todo) PROVE RightCall(todo, k)'
  <2>1. todo[k] \in Call /\ RightCall(todo, k)
    BY <1>5 DEF IInv, TypeOK, StackAddressed
  <2>2. /\ todo[k].call = "WritePipe" => todo[k].pipe \in Pipe
        /\ todo[k].call = "Broadcast" => todo[k].to \subseteq Pipe
    BY <2>1 DEF Call
  <2>3. QED
    BY <1>2, <1>4, <2>1, <2>2 DEF RightCall
<1>6. QED
  BY <1>2, <1>5 DEF StackAddressed

\* A handler addresses by its look at the registry, which is right about the
\* connections on the pipes.
LEMMA CompleteAddressed ==
    ASSUME IInv, NEW p \in Pipe, Complete(p)
    PROVE  StackAddressed'
<1>0. up /\ link[p] \in Client
  <2>1. Wake(p)
    BY DEF Complete, AcceptConnect, RejectConnect, FailedRead, CallsAfterReadError,
         ReceiveInvalid, ReceiveReserved, RejectRegister, Register, ReplaceRegister,
         Subscribe, ReceiveBroadcast, RelayUnicast, BounceUnicast, Receive
  <2>2. QED
    BY <2>1, WakeRegistry
<1>1. \A q \in Pipe :
          /\ Registered(q) => /\ link[q] # NoClient
                              /\ session[link[q]].met
                              /\ session[link[q]].id = mClients[q]
          /\ \A t \in Type : q \in mMessages[t] =>
                 Registered(q) /\ t \in session[link[q]].types
  BY <1>0 DEF IInv, RegistryInv, EntriesBelongToSession
<1>2. CASE \/ AcceptConnect(p) \/ RejectConnect(p) \/ FailedRead(p) \/ ReceiveReserved(p)
           \/ RejectRegister(p) \/ Register(p) \/ Subscribe(p)
  <2>1. todo' \in {<<ReadPipe(p)>>, <<Disconnect(p)>>, <<Disconnect(p), ReadPipe(p)>>}
    BY <1>2 DEF AcceptConnect, RejectConnect, FailedRead, CallsAfterReadError,
         ReceiveReserved, RejectRegister, Register, Subscribe, CallsAfterRefusal
  <2>2. QED
    BY <2>1 DEF StackAddressed, RightCall, ReadPipe, Disconnect
<1>3. CASE ReceiveInvalid(p) \/ BounceUnicast(p)
  <2>1. todo' \in {<<Write(p, InvalidMsg), ReadPipe(p)>>, <<Write(p, DstNotFound), ReadPipe(p)>>}
    BY <1>3 DEF ReceiveInvalid, BounceUnicast
  <2>2. QED
    BY <2>1 DEF StackAddressed, RightCall, Addressed, Write, ReadPipe, InvalidMsg, DstNotFound
<1>4. CASE RelayUnicast(p)
  <2>1. PICK m \in ClientMessage, dst \in Pipe :
            /\ m = NextMessage(p) /\ m.kind = "Unicast" /\ mClients[dst] = m.id
            /\ todo' = <<Write(dst, m), ReadPipe(p)>>
            /\ UNCHANGED <<link, session, mClients>>
    <3>1. HasMessage(p) /\ NextMessage(p).kind = "Unicast"
      BY <1>4 DEF RelayUnicast, Receive
    <3>2. NextMessage(p) \in ClientMessage
      BY <3>1, NextMessageType DEF IInv
    <3>3. QED
      BY <1>4, <3>1, <3>2 DEF RelayUnicast, Receive, Holders, brokerVars
  <2>2. m.id \in Id
    BY <2>1, ClientMessageFields
  <2>3. Registered(dst)
    BY <2>1, <2>2, NamesAssumption DEF Registered
  <2>4. Addressed(dst, m)'
    BY <1>1, <2>1, <2>3 DEF Addressed
  <2>5. QED
    BY <2>1, <2>4 DEF StackAddressed, RightCall, Write, ReadPipe
<1>5. CASE ReceiveBroadcast(p)
  <2>1. PICK m \in ClientMessage :
            /\ m.kind = "Broadcast"
            /\ todo' = <<Deliver(mMessages[m.type], m), ReadPipe(p)>>
            /\ UNCHANGED <<link, session>>
    <3>1. HasMessage(p) /\ NextMessage(p).kind = "Broadcast"
      BY <1>5 DEF ReceiveBroadcast, Receive
    <3>2. NextMessage(p) \in ClientMessage
      BY <3>1, NextMessageType DEF IInv
    <3>3. QED
      BY <1>5, <3>1, <3>2 DEF ReceiveBroadcast, Receive
  <2>2. m.type \in Type /\ mMessages[m.type] \subseteq Pipe
    BY <2>1, ClientMessageFields DEF IInv, TypeOK
  <2>3. \A q \in mMessages[m.type] : Addressed(q, m)'
    BY <1>1, <2>1, <2>2 DEF Addressed
  <2>4. PICK ps \in SUBSET Pipe : ps = mMessages[m.type]
    BY <2>2
  <2>5. /\ todo' = <<Deliver(ps, m), ReadPipe(p)>>
        /\ \A q \in ps : Addressed(q, m)'
    BY <2>1, <2>3, <2>4
  <2>6. QED
    BY <2>1, <2>5 DEF StackAddressed, RightCall, Deliver, ReadPipe
<1>6. ASSUME NEW old \in Pipe, ReplaceRegister(p, old) PROVE StackAddressed'
  <2>1. PICK id \in Id \cup {NoId} : id = NextMessage(p).id
    BY <1>6, ReceiveType, ClientMessageFields DEF ReplaceRegister, IInv
  <2>2. /\ old # p /\ mClients[old] = id /\ link' = link
        /\ todo' = <<Write(old, Kick(id)), Disconnect(old), ReadPipe(p)>>
        /\ mClients' = WithId(WithoutClient(old), p, id)
        /\ RecordId(p, id)
    BY <1>6, <2>1 DEF ReplaceRegister, Duplicates, CallsAfterReplace, Receive
  <2>3. link[old] \in Client /\ session[link[old]].id = id /\ link[old] # link[p]
    <3>1. Registered(old)
      BY <2>2, NamesAssumption DEF Registered
    <3>2. QED
      BY <1>0, <1>1, <2>2, <3>1 DEF IInv, RegistryInv, Attachment, OnePipeEach, TypeOK
  <2>4. session'[link[old]].id = id
    BY <1>0, <2>2, <2>3 DEF RecordId, IInv, TypeOK
  <2>5. ~Registered(old)'
    BY <2>2, NamesAssumption DEF Registered, WithId, WithoutClient, IInv, TypeOK
  <2>6. Addressed(old, Kick(id))'
    BY <2>2, <2>3, <2>4, <2>5, NamesAssumption DEF Addressed, Kick
  <2>7. QED
    BY <2>2, <2>6 DEF StackAddressed, RightCall, Write, Disconnect, ReadPipe
<1>7. QED
  BY <1>2, <1>3, <1>4, <1>5, <1>6 DEF Complete

\* What is left of the stack after its first call has no write in it.
LEMMA RestHasNoWrite ==
    ASSUME IInv, StackAddressed, up, todo # <<>>
    PROVE  /\ Tail(todo) \in Seq(Call)
           /\ \A k \in 1 .. Len(Tail(todo)) :
                  /\ Tail(todo)[k] = todo[k + 1] /\ k + 1 \in 1 .. Len(todo)
                  /\ Tail(todo)[k].call # "WritePipe"
                  /\ RightCall(Tail(todo), k)
<1>1. todo \in Seq(Call) /\ Tail(todo) \in Seq(Call)
  BY DEF IInv, TypeOK
<1>2. ASSUME NEW k \in 1 .. Len(Tail(todo))
      PROVE  /\ Tail(todo)[k] = todo[k + 1] /\ k + 1 \in 1 .. Len(todo)
             /\ Tail(todo)[k].call # "WritePipe"
             /\ RightCall(Tail(todo), k)
  <2>1. Tail(todo)[k] = todo[k + 1] /\ k + 1 \in 1 .. Len(todo) /\ k + 1 # 1
    BY <1>1
  <2>2. RightCall(todo, k + 1)
    BY <2>1 DEF StackAddressed
  <2>3. QED
    BY <2>1, <2>2 DEF RightCall
<1>3. QED
  BY <1>1, <1>2

\* The calls into the pipe server take connections and sessions away only
\* when no message is left on the stack.
LEMMA CallAddressed ==
    ASSUME IInv, StackAddressed,
           \/ DisconnectAndReconnect \/ RelockMutex \/ StartRead \/ WriteMessage
           \/ WriteFails \/ (\E p \in Pipe : BroadcastNext(p)) \/ BroadcastDone
    PROVE  StackAddressed'
<1>0. up /\ todo # <<>> /\ todo \in Seq(Call) /\ 1 \in 1 .. Len(todo) /\ Head(todo) = todo[1]
  <2>1. up /\ todo # <<>> /\ todo \in Seq(Call)
    BY DEF DisconnectAndReconnect, RelockMutex, StartRead, WriteMessage, WriteFails,
           BroadcastNext, BroadcastDone, Running, IInv, TypeOK
  <2>2. QED
    BY <2>1
<1>1. CASE RelockMutex
  BY <1>1 DEF RelockMutex, StackAddressed
<1>2. CASE DisconnectAndReconnect
  <2>1. todo' = Tail(todo) /\ \A k \in DOMAIN todo : todo[k].call # "Broadcast"
    BY <1>2 DEF DisconnectAndReconnect, BroadcastHoldsMutex
  <2>2. ASSUME NEW k \in 1 .. Len(todo') PROVE RightCall(todo, k)'
    <3>1. Tail(todo)[k].call # "WritePipe" /\ Tail(todo)[k] = todo[k + 1] /\ k + 1 \in DOMAIN todo
      BY <1>0, <2>1, <2>2, RestHasNoWrite
    <3>2. QED
      BY <2>1, <3>1 DEF RightCall
  <2>3. QED
    BY <2>2 DEF StackAddressed
\* The others leave connections and sessions as they are.
<1>3. CASE \/ StartRead \/ WriteMessage \/ WriteFails
           \/ (\E p \in Pipe : BroadcastNext(p)) \/ BroadcastDone
  <2>1. UNCHANGED <<link, session, mClients, up>>
    BY <1>3 DEF StartRead, WriteMessage, WriteFails, BroadcastNext, BroadcastDone,
                kernelVars, brokerVars
  <2>2. \A p, m : Addressed(p, m)' <=> Addressed(p, m)
    BY <2>1 DEF Addressed, Registered
  <2>3. CASE todo' = Tail(todo)
    <3>1. ASSUME NEW k \in 1 .. Len(todo') PROVE RightCall(todo, k)'
      <4>1. Tail(todo)[k].call # "WritePipe" /\ RightCall(Tail(todo), k)
        BY <1>0, <2>3, <3>1, RestHasNoWrite
      <4>2. QED
        BY <2>2, <2>3, <4>1 DEF RightCall
    <3>2. QED
      BY <3>1 DEF StackAddressed
  <2>4. ASSUME NEW p \in Pipe, todo' = <<Disconnect(p)>> \o Tail(todo) PROVE StackAddressed'
    <3>1. ASSUME NEW k \in 1 .. Len(todo') PROVE RightCall(todo, k)'
      <4>1. CASE k = 1
        <5>1. todo'[k] = Disconnect(p)
          BY <1>0, <2>4, <4>1
        <5>2. QED
          BY <5>1 DEF RightCall, Disconnect
      <4>2. CASE k # 1
        <5>1. todo'[k] = Tail(todo)[k - 1] /\ k - 1 \in 1 .. Len(Tail(todo))
          BY <1>0, <2>4, <3>1, <4>2, RestHasNoWrite
        <5>2. Tail(todo)[k - 1].call # "WritePipe" /\ RightCall(Tail(todo), k - 1)
          BY <1>0, <5>1, RestHasNoWrite
        <5>3. QED
          BY <2>2, <5>1, <5>2 DEF RightCall
      <4>3. QED
        BY <4>1, <4>2
    <3>2. QED
      BY <3>1 DEF StackAddressed
  <2>5. ASSUME NEW p \in Pipe, BroadcastNext(p) PROVE StackAddressed'
    <3>1. PICK ps \in SUBSET Pipe, m \in Message :
              /\ Current = [call |-> "Broadcast", to |-> ps, msg |-> m]
              /\ p \in ps
              /\ todo' = <<Write(p, m), Deliver(ps \ {p}, m)>> \o Tail(todo)
      <4>1. Current \in Call /\ Current.call = "Broadcast" /\ p \in Current.to
        BY <1>0, <2>5 DEF BroadcastNext, Running, Current
      <4>2. Current \in [call : {"Broadcast"}, to : SUBSET Pipe, msg : Message]
        BY <4>1 DEF Call
      <4>3. QED
        BY <2>5, <4>1, <4>2 DEF BroadcastNext
    <3>2. m.kind = "Broadcast" /\ \A q \in ps : Addressed(q, m)
      BY <1>0, <3>1 DEF StackAddressed, RightCall, Current
    <3>3. ASSUME NEW k \in 1 .. Len(todo') PROVE RightCall(todo, k)'
      <4>1. CASE k = 1
        <5>1. todo'[k] = Write(p, m)
          BY <1>0, <3>1, <4>1
        <5>2. QED
          BY <2>2, <3>1, <3>2, <4>1, <5>1 DEF RightCall, Write
      <4>2. CASE k = 2
        <5>1. todo'[k] = Deliver(ps \ {p}, m)
          BY <1>0, <3>1, <4>2
        <5>2. QED
          BY <2>2, <3>2, <5>1 DEF RightCall, Deliver
      <4>3. CASE k # 1 /\ k # 2
        <5>1. todo'[k] = Tail(todo)[k - 2] /\ k - 2 \in 1 .. Len(Tail(todo))
          BY <1>0, <3>1, <3>3, <4>3, RestHasNoWrite
        <5>2. Tail(todo)[k - 2].call # "WritePipe" /\ RightCall(Tail(todo), k - 2)
          BY <1>0, <5>1, RestHasNoWrite
        <5>3. QED
          BY <2>2, <5>1, <5>2 DEF RightCall
      <4>4. QED
        BY <4>1, <4>2, <4>3
    <3>4. QED
      BY <3>3 DEF StackAddressed
  <2>6. CASE StartRead \/ WriteFails
    <3>1. Current.pipe \in Pipe
      BY <2>6, CurrentCall DEF StartRead, WriteFails, IInv
    <3>2. todo' = Tail(todo) \/ todo' = <<Disconnect(Current.pipe)>> \o Tail(todo)
      BY <2>6 DEF StartRead, WriteFails
    <3>3. QED
      BY <2>3, <2>4, <3>1, <3>2
  <2>7. CASE WriteMessage \/ BroadcastDone
    BY <2>3, <2>7 DEF WriteMessage, BroadcastDone
  <2>8. QED
    BY <1>3, <2>5, <2>6, <2>7
<1>4. QED
  BY <1>1, <1>2, <1>3

\* Messages on the stack are addressed right in every reachable state.
LEMMA AddressedAlways == Spec => [](IInv /\ StackAddressed)
<1>1. Init => IInv /\ StackAddressed
  BY InitType, InitRegistry, InitAddressed DEF IInv
<1>2. IInv /\ StackAddressed /\ [Next]_vars => (IInv /\ StackAddressed)'
  <2> SUFFICES ASSUME IInv, StackAddressed, [Next]_vars PROVE StackAddressed'
    BY RegistryStep
  <2>1. CASE ClientNext
    BY <2>1, ClientAddressed
  <2>2. CASE ServerNext
    BY <2>2, CompleteAddressed, CallAddressed DEF ServerNext
  <2>3. CASE UNCHANGED vars
    BY <2>3 DEF vars, kernelVars, brokerVars, StackAddressed, RightCall, Addressed, Registered
  <2>4. QED
    BY <2>1, <2>2, <2>3 DEF Next
<1>3. QED
  BY <1>1, <1>2, PTL DEF Spec

-----------------------------------------------------------------------------
(***************************************************************************)
(* What is written reaches the right connection                            *)
(***************************************************************************)

\* Only WriteMessage gives a client more to read.
LEMMA OnlyWrites ==
    ASSUME IInv, [Next]_vars, NEW c \in Client, Len(outq'[c]) > Len(outq[c])
    PROVE  /\ WriteMessage /\ c = link[Current.pipe]
           /\ SentMessage(c) = Current.msg
<1>0. outq \in [Client -> Seq(Message)] /\ outq[c] \in Seq(Message) /\ Len(outq[c]) \in Nat
  BY DEF IInv, TypeOK
<1>1. outq' # outq
  BY <1>0
<1>2. ~(outq'[c] = <<>>)
  BY <1>0
<1>3. ASSUME NEW d \in Client, ClientRead(d) PROVE FALSE
  <2>1. outq[d] # <<>> /\ outq' = [outq EXCEPT ![d] = Tail(@)]
    BY <1>3 DEF ClientRead
  <2>2. CASE d = c
    <3>1. outq'[c] = Tail(outq[c]) /\ Len(Tail(outq[c])) = Len(outq[c]) - 1
      BY <1>0, <2>1, <2>2
    <3>2. QED
      BY <1>0, <3>1
  <2>3. CASE d # c
    BY <1>0, <2>1, <2>3
  <2>4. QED
    BY <2>2, <2>3
<1>4. ASSUME NEW d \in Client, ClientClose(d) PROVE FALSE
  BY <1>0, <1>1, <1>2, <1>4 DEF ClientClose
<1>5. ASSUME DisconnectAndReconnect PROVE FALSE
  <2>1. PICK p : Relisten(p)
    BY <1>5 DEF DisconnectAndReconnect
  <2>2. outq' = outq \/ outq' = [outq EXCEPT ![link[p]] = <<>>]
    BY <2>1 DEF Relisten
  <2>3. QED
    BY <1>0, <1>1, <1>2, <2>2
<1>6. ASSUME RelockMutex PROVE FALSE
  BY <1>2, <1>6 DEF RelockMutex
<1>7. WriteMessage
  <2>1. CASE ClientNext
    BY <1>1, <1>3, <1>4, <2>1 DEF ClientNext, ClientConnect, ClientWrite, ClientForget
  <2>2. CASE ServerNext
    <3>1. ASSUME NEW p \in Pipe, Complete(p) PROVE FALSE
      BY <1>1, <3>1
         DEF Complete, AcceptConnect, RejectConnect, FailedRead, CallsAfterReadError,
             ReceiveInvalid, ReceiveReserved, RejectRegister, Register, ReplaceRegister,
             Subscribe, ReceiveBroadcast, RelayUnicast, BounceUnicast, Receive,
             kernelVars
    <3>2. ASSUME StartRead \/ WriteFails \/ (\E p \in Pipe : BroadcastNext(p)) \/ BroadcastDone
          PROVE  FALSE
      BY <1>1, <3>2 DEF StartRead, WriteFails, BroadcastNext, BroadcastDone, kernelVars
    <3>3. QED
      BY <1>5, <1>6, <2>2, <3>1, <3>2 DEF ServerNext
  <2>3. CASE UNCHANGED vars
    BY <1>1, <2>3 DEF vars, kernelVars
  <2>4. QED
    BY <2>1, <2>2, <2>3 DEF Next
<1>8. PICK d \in Client : d = link[Current.pipe] /\ outq' = [outq EXCEPT ![d] = Append(@, Current.msg)]
  BY <1>7, CurrentCall DEF WriteMessage, IInv, TypeOK
<1>9. d = c
  BY <1>0, <1>8
<1>10. outq'[c] = Append(outq[c], Current.msg) /\ Current.msg \in Message
  BY <1>0, <1>7, <1>8, <1>9, CurrentCall DEF WriteMessage, IInv
<1>11. Len(outq'[c]) = Len(outq[c]) + 1 /\ outq'[c][Len(outq'[c])] = Current.msg
  BY <1>0, <1>10
<1>12. QED
  BY <1>7, <1>8, <1>9, <1>11 DEF SentMessage

\* What is written is addressed right.
LEMMA WritesAreAddressed ==
    ASSUME IInv, StackAddressed, [Next]_vars, NEW c \in Client, NEW kind, Sent(c, kind)
    PROVE  /\ SentMessage(c).kind = kind
           /\ \E p \in Pipe : link[p] = c /\ Addressed(p, SentMessage(c))
<1>1. /\ WriteMessage /\ c = link[Current.pipe] /\ SentMessage(c) = Current.msg
      /\ SentMessage(c).kind = kind
  BY OnlyWrites DEF Sent, SentMessage
<1>2. /\ up /\ todo \in Seq(Call) /\ todo # <<>> /\ Current = todo[1]
      /\ Current.call = "WritePipe" /\ Current.pipe \in Pipe
  BY <1>1, CurrentCall DEF WriteMessage, Running, Current, IInv, TypeOK
<1>3. RightCall(todo, 1)
  BY <1>2 DEF StackAddressed
<1>4. QED
  BY <1>1, <1>2, <1>3 DEF RightCall

\* A unicast is written only to the connection that registered its destination
\* id (IPCServerBroker::OnServerMessage, Send).
THEOREM UnicastReachesHolderHolds == Spec => UnicastReachesHolder
<1>1. IInv /\ StackAddressed /\ [Next]_vars =>
          [\A c \in Client : Sent(c, "Unicast") =>
               session[c].met /\ session[c].id = SentMessage(c).id]_vars
  BY WritesAreAddressed DEF Addressed
<1>2. QED
  BY <1>1, AddressedAlways, PTL DEF Spec, UnicastReachesHolder

\* A broadcast is written only to connections that subscribed to its type
\* (IPCServerBroker::Broadcast).
THEOREM BroadcastReachesSubscriberHolds == Spec => BroadcastReachesSubscriber
<1>1. IInv /\ StackAddressed /\ [Next]_vars =>
          [\A c \in Client : Sent(c, "Broadcast") =>
               SentMessage(c).type \in session[c].types]_vars
  BY WritesAreAddressed DEF Addressed
<1>2. QED
  BY <1>1, AddressedAlways, PTL DEF Spec, BroadcastReachesSubscriber

\* KICK is written only to a connection that held the id and has lost it
\* (IPCServerBroker::ClientUpdate, SendKick).
THEOREM KickReachesFormerHolderHolds == Spec => KickReachesFormerHolder
<1>1. IInv /\ StackAddressed /\ [Next]_vars =>
          [\A c \in Client : Sent(c, "KICK") =>
               /\ session[c].id = SentMessage(c).id
               /\ \A p \in Pipe : link[p] = c => ~Registered(p)]_vars
  <2> SUFFICES ASSUME IInv, StackAddressed, [Next]_vars, NEW c \in Client, Sent(c, "KICK")
               PROVE  /\ session[c].id = SentMessage(c).id
                      /\ \A p \in Pipe : link[p] = c => ~Registered(p)
    OBVIOUS
  <2>1. PICK p \in Pipe : link[p] = c /\ Addressed(p, SentMessage(c))
    BY WritesAreAddressed
  <2>2. link[p] # NoClient /\ session[c].id = SentMessage(c).id /\ ~Registered(p)
    BY <2>1, WritesAreAddressed DEF Addressed
  <2>3. up
    BY OnlyWrites DEF Sent, WriteMessage, Running
  <2>4. \A q \in Pipe : link[q] = c => q = p
    BY <2>1, <2>2, <2>3 DEF IInv, RegistryInv, Attachment, OnePipeEach
  <2>5. QED
    BY <2>2, <2>4
<1>2. QED
  BY <1>1, AddressedAlways, PTL DEF Spec, KickReachesFormerHolder

-----------------------------------------------------------------------------
(***************************************************************************)
(* What the host is told                                                   *)
(***************************************************************************)

\* The id of the last notice has no entry.
NotifiedGone == notified # NoId => \A p \in Pipe : mClients[p] # notified

\* OnServerDisconnect passes on the id of the entry it deletes, and no other
\* entry has that id.
LEMMA NotifiedStep ==
    ASSUME IInv, NotifiedGone, [Next]_vars
    PROVE  NotifiedGone'
<1>1. CASE DisconnectAndReconnect
  <2>1. PICK p \in Pipe : p = Current.pipe
    BY <1>1, CurrentCall DEF DisconnectAndReconnect, IInv
  <2>2. /\ notified' = IF mClients[p] \in Id THEN mClients[p] ELSE NoId
        /\ mClients' = [mClients EXCEPT ![p] = Absent]
    BY <1>1, <2>1 DEF DisconnectAndReconnect, ClientDelete, WithoutClient
  <2>3. QED
    BY <2>2, NamesAssumption DEF NotifiedGone, IInv, RegistryInv, UniqueId, TypeOK
<1>2. CASE ClientNext \/ UNCHANGED vars
  BY <1>2 DEF NotifiedGone, ClientNext, ClientConnect, ClientWrite, ClientRead, ClientClose,
              ClientForget, brokerVars, vars
<1>3. CASE ServerNext /\ ~DisconnectAndReconnect
  <2>1. notified' = NoId
    BY <1>3
       DEF ServerNext, Complete, AcceptConnect, RejectConnect, FailedRead,
           CallsAfterReadError, ReceiveInvalid, ReceiveReserved, RejectRegister,
           Register, ReplaceRegister, Subscribe, ReceiveBroadcast, RelayUnicast,
           BounceUnicast, Receive, RelockMutex, StartRead, WriteMessage, WriteFails,
           BroadcastNext, BroadcastDone
  <2>2. QED
    BY <2>1 DEF NotifiedGone
<1>4. QED
  BY <1>1, <1>2, <1>3 DEF Next

\* When m_pOnClientDisconnect hears of an id, nobody else has taken it over
\* (IPCServerBroker::OnServerDisconnect).
THEOREM NotifiedMeansGoneHolds == Spec => NotifiedMeansGone
<1>1. Init => NotifiedGone
  BY DEF Init, NotifiedGone
<1>2. IInv /\ NotifiedGone /\ [Next]_vars => NotifiedGone'
  BY NotifiedStep
<1>3. NotifiedGone' => [notified' # NoId => \A p \in Pipe : mClients'[p] # notified']_vars
  BY DEF NotifiedGone
<1>4. QED
  BY <1>1, <1>2, <1>3, InductiveInvariant, PTL DEF Spec, NotifiedMeansGone
=============================================================================
