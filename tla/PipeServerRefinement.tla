------------------------ MODULE PipeServerRefinement ------------------------
(***************************************************************************)
(* PipeServer implements Channel if the host calls in callbacks only, for  *)
(* any number of pipes and clients and however deep the callbacks call:    *)
(* the event loop with its overlapped reads, its one buffer per pipe and   *)
(* its nested disconnections behaves like pipes that serve one connection  *)
(* each and give its messages to OnMessage in order.  ImplementsChannel in *)
(* PipeServer has the mapping.                                             *)
(***************************************************************************)
EXTENDS PipeServerProofs

-----------------------------------------------------------------------------
(***************************************************************************)
(* The actions of Channel in terms of the mapped variables                 *)
(***************************************************************************)

\* What Channel sees of p is as before, but for these.
SamePeer(p) == PeerOf(p)' = PeerOf(p)
SameSent(p) == SentOn(p)' = SentOn(p)
SameGiven(p) == GivenFrom(p)' = GivenFrom(p)
SameTold(p) == Has("forget", p)' <=> Has("forget", p)

LEMMA MapsInit ==
    ASSUME \A p \in Pipe : /\ PeerOf(p) = NoClient /\ SentOn(p) = <<>>
                           /\ GivenFrom(p) = "none" /\ ~Has("forget", p)
    PROVE  Ch!Init
BY DEF Ch!Init

LEMMA MapsStutter ==
    ASSUME \A q \in Pipe : SamePeer(q) /\ SameSent(q) /\ SameGiven(q) /\ SameTold(q)
    PROVE  UNCHANGED Ch!vars
BY DEF Ch!vars, SamePeer, SameSent, SameGiven, SameTold

LEMMA MapsAttach ==
    ASSUME NEW p \in Pipe, NEW c \in Client,
           PeerOf(p) = NoClient, SentOn(p) = <<>>, \A q \in Pipe : PeerOf(q) # c,
           PeerOf(p)' = c, \A q \in Pipe \ {p} : SamePeer(q),
           \A q \in Pipe : SameSent(q) /\ SameGiven(q) /\ SameTold(q)
    PROVE  Ch!Attach(p, c)
BY DEF Ch!Attach, SamePeer, SameSent, SameGiven, SameTold

LEMMA MapsWrite ==
    ASSUME NEW p \in Pipe, NEW m \in Length,
           PeerOf(p) # NoClient, SentOn(p)' = Append(SentOn(p), m),
           \A q \in Pipe \ {p} : SameSent(q),
           \A q \in Pipe : SamePeer(q) /\ SameGiven(q) /\ SameTold(q)
    PROVE  Ch!Write(p, m)
BY DEF Ch!Write, SamePeer, SameSent, SameGiven, SameTold

LEMMA MapsGives ==
    ASSUME NEW p \in Pipe, SentOn(p) # <<>>, \A q \in Pipe : GivenFrom(q) = "none",
           SentOn(p)' = Tail(SentOn(p)), GivenFrom(p)' = Head(SentOn(p)),
           \A q \in Pipe \ {p} : SameSent(q) /\ SameGiven(q),
           \A q \in Pipe : SamePeer(q) /\ SameTold(q)
    PROVE  Ch!Gives(p)
BY DEF Ch!Gives, SamePeer, SameSent, SameGiven, SameTold

LEMMA MapsTakesBack ==
    ASSUME NEW p \in Pipe, GivenFrom(p) # "none", GivenFrom(p)' = "none",
           \A q \in Pipe \ {p} : SameGiven(q),
           \A q \in Pipe : SamePeer(q) /\ SameSent(q) /\ SameTold(q)
    PROVE  Ch!TakesBack(p)
BY DEF Ch!TakesBack, SamePeer, SameSent, SameGiven, SameTold

LEMMA MapsTells ==
    ASSUME NEW p \in Pipe, Has("forget", p)', \A q \in Pipe \ {p} : SameTold(q),
           \A q \in Pipe : SamePeer(q) /\ SameSent(q) /\ SameGiven(q)
    PROVE  Ch!Tells(p)
BY DEF Ch!Tells, SamePeer, SameSent, SameGiven, SameTold

LEMMA MapsEnds ==
    ASSUME NEW p \in Pipe, Has("forget", p), \A q \in Pipe \ {p} : SameTold(q),
           PeerOf(p)' = NoClient, SentOn(p)' = <<>>,
           \A q \in Pipe \ {p} : SamePeer(q) /\ SameSent(q),
           \A q \in Pipe : SameGiven(q)
    PROVE  Ch!Ends(p)
BY DEF Ch!Ends, SamePeer, SameSent, SameGiven, SameTold

-----------------------------------------------------------------------------
(***************************************************************************)
(* The inductive invariant                                                 *)
(***************************************************************************)

\* OnMessage is called from the event loop only, and the next read comes when
\* it has returned.
MessagesLast ==
    \A k \in 1 .. Len(todo[Server]) :
        todo[Server][k].step = "callback" /\ todo[Server][k].event = "message" =>
            /\ k + 1 = Len(todo[Server])
            /\ todo[Server][k + 1] = At("read", todo[Server][k].pipe)

\* A read that is under way, or about to start, finds the buffer empty.
ReadsFresh ==
    /\ \A p \in reading :
          /\ buffer[p] = "none"
          /\ mCurrentState[p] = "READING" \/ AtTop("DisconnectNamedPipe", p)
    /\ \A p \in Pipe : AtTop("ReadFile", p) => buffer[p] = "none"

\* No message waits in a buffer, or in the kernel, without its connection.
UnseenAttached == \A p \in Pipe : Unseen(p) => link[p] # NoClient
ApartEmpty == \A c \in Client : (\A p \in Pipe : link[p] # c) => inq[c] = <<>>

ChannelInv == MessagesLast /\ ReadsFresh /\ UnseenAttached /\ ApartEmpty

-----------------------------------------------------------------------------
(***************************************************************************)
(* What is on the stack after a step                                       *)
(***************************************************************************)

\* Some call of a kind is on the server thread's stack.
Holds(kind) == \E k \in DOMAIN todo[Server] : todo[Server][k] \in kind

\* The kinds Channel is about.
Of(step, p) == {f \in Call : f.step = step /\ f.pipe = p}
Giving(p) == {f \in Call : f.step = "callback" /\ f.event = "message" /\ f.pipe = p}

LEMMA HoldsMeans ==
    ASSUME TypeOK, Server \in Thread, NEW p
    PROVE  /\ \A step : Has(step, p) <=> Holds(Of(step, p))
           /\ InOnMessage(p) <=> Holds(Giving(p))
<1>1. \A k \in DOMAIN todo[Server] : todo[Server][k] \in Call
    BY DEF TypeOK
<1> QED BY <1>1 DEF Has, InOnMessage, Holds, Of, Giving

LEMMA HoldsMeansNext ==
    ASSUME TypeOK', Server \in Thread, NEW p
    PROVE  /\ \A step : Has(step, p)' <=> Holds(Of(step, p))'
           /\ InOnMessage(p)' <=> Holds(Giving(p))'
<1>1. \A k \in DOMAIN todo'[Server] : todo'[Server][k] \in Call
    BY DEF TypeOK
<1> QED BY <1>1 DEF Has, InOnMessage, Holds, Of, Giving

\* A call on the stack after a step is new or was there and has not gone.
LEMMA HoldsAfter ==
    ASSUME TypeOK, TypeOK', Server \in Thread, NEW calls \in Seq(Call), NEW d \in {0, 1},
           d <= Len(todo[Server]), Turns(Server, calls, d), NEW kind
    PROVE  /\ Holds(kind)' => \/ \E i \in 1 .. Len(calls) : calls[i] \in kind
                              \/ Holds(kind)
           /\ (\E i \in 1 .. Len(calls) : calls[i] \in kind) => Holds(kind)'
           /\ Holds(kind) /\ (d = 1 => todo[Server][1] \notin kind) => Holds(kind)'
<1>1. /\ DOMAIN todo'[Server] = 1 .. (Len(calls) + Len(todo[Server]) - d)
      /\ DOMAIN todo[Server] = 1 .. Len(todo[Server])
      /\ Len(calls) \in Nat /\ Len(todo[Server]) \in Nat
    BY CallsAfter
<1>2. ASSUME Holds(kind)', ~Holds(kind)
      PROVE  \E i \in 1 .. Len(calls) : calls[i] \in kind
    <2>1. PICK j \in DOMAIN todo'[Server] : todo'[Server][j] \in kind
        BY <1>2 DEF Holds
    <2>2. ASSUME NEW k \in 1 + d .. Len(todo[Server]), todo'[Server][j] = todo[Server][k]
          PROVE  FALSE
        BY <1>1, <1>2, <2>1, <2>2 DEF Holds
    <2> QED BY <2>1, <2>2, CallsAfter
<1>3. ASSUME NEW i \in 1 .. Len(calls), calls[i] \in kind PROVE Holds(kind)'
    <2>1. i \in DOMAIN todo'[Server] /\ todo'[Server][i] = calls[i]
        BY SMTT(30), <1>1 DEF Turns
    <2> QED BY <1>3, <2>1 DEF Holds
<1>4. ASSUME Holds(kind), d = 1 => todo[Server][1] \notin kind PROVE Holds(kind)'
    <2>1. PICK k \in 1 .. Len(todo[Server]) : todo[Server][k] \in kind
        BY <1>1, <1>4 DEF Holds
    <2>2. k \in 1 + d .. Len(todo[Server])
        BY <1>1, <1>4, <2>1
    <2>3. /\ Len(calls) + k - d \in DOMAIN todo'[Server]
          /\ todo'[Server][Len(calls) + k - d] = todo[Server][k]
        BY <1>1, <2>2 DEF Turns
    <2> QED BY <2>1, <2>3 DEF Holds
<1> QED BY <1>2, <1>3, <1>4

\* Calls that have nothing to do with a kind leave it as it is.
LEMMA HoldsSame ==
    ASSUME TypeOK, TypeOK', Server \in Thread, NEW calls \in Seq(Call), NEW d \in {0, 1},
           d <= Len(todo[Server]), Turns(Server, calls, d), NEW kind,
           \A i \in 1 .. Len(calls) : calls[i] \notin kind,
           d = 1 => todo[Server][1] \notin kind
    PROVE  Holds(kind)' <=> Holds(kind)
BY HoldsAfter

\* OnMessage stays below whatever it calls, and above the read that follows.
LEMMA MessagesLastAfter ==
    ASSUME TypeOK, TypeOK', Server \in Thread, NEW calls \in Seq(Call), NEW d \in {0, 1},
           d <= Len(todo[Server]), Turns(Server, calls, d), MessagesLast,
           \A i \in 1 .. Len(calls) :
               calls[i].step = "callback" /\ calls[i].event = "message" =>
                   /\ Len(todo[Server]) = d /\ i + 1 = Len(calls)
                   /\ calls[i + 1] = At("read", calls[i].pipe)
    PROVE  MessagesLast'
<1>1. /\ DOMAIN todo'[Server] = 1 .. (Len(calls) + Len(todo[Server]) - d)
      /\ Len(calls) \in Nat /\ Len(todo[Server]) \in Nat
      /\ Len(todo'[Server]) = Len(calls) + Len(todo[Server]) - d
    BY CallsAfter DEF Turns
<1> SUFFICES ASSUME NEW j \in 1 .. Len(todo'[Server]),
                    todo'[Server][j].step = "callback", todo'[Server][j].event = "message"
             PROVE  /\ j + 1 = Len(todo'[Server])
                    /\ todo'[Server][j + 1] = At("read", todo'[Server][j].pipe)
    BY DEF MessagesLast
<1>2. CASE j \in 1 .. Len(calls) /\ todo'[Server][j] = calls[j]
    <2>1. /\ Len(todo[Server]) = d /\ j + 1 = Len(calls)
          /\ calls[j + 1] = At("read", calls[j].pipe)
        BY <1>2
    <2>2. todo'[Server][j + 1] = calls[j + 1]
        BY <1>1, <2>1 DEF Turns
    <2> QED BY <1>1, <1>2, <2>1, <2>2
<1>3. ASSUME NEW k \in 1 + d .. Len(todo[Server]), j = Len(calls) + k - d,
             todo'[Server][j] = todo[Server][k]
      PROVE  /\ j + 1 = Len(todo'[Server])
             /\ todo'[Server][j + 1] = At("read", todo'[Server][j].pipe)
    <2>1. k \in 1 .. Len(todo[Server])
        BY <1>1
    <2>2. /\ k + 1 = Len(todo[Server])
          /\ todo[Server][k + 1] = At("read", todo[Server][k].pipe)
        BY <1>3, <2>1 DEF MessagesLast
    <2>3. k + 1 \in 1 + d .. Len(todo[Server]) /\ Len(calls) + (k + 1) - d = j + 1
        BY <1>1, <1>3, <2>2
    <2>4. todo'[Server][j + 1] = todo[Server][k + 1]
        BY <2>3 DEF Turns
    <2>5. j + 1 = Len(todo'[Server])
        <3>1. Len(todo[Server]) = k + 1 /\ j = Len(calls) + k - d /\ k \in Int /\ d \in Int
            BY <1>3, <2>1, <2>2
        <3> QED BY SMTT(30), <1>1, <3>1
    <2>6. todo'[Server][j + 1] = At("read", todo'[Server][j].pipe)
        BY <1>3, <2>2, <2>4
    <2> QED BY <2>5, <2>6
<1>4. j \in DOMAIN todo'[Server]
    BY <1>1
<1>5. \/ j \in 1 .. Len(calls) /\ todo'[Server][j] = calls[j]
      \/ \E k \in 1 + d .. Len(todo[Server]) :
            j = Len(calls) + k - d /\ todo'[Server][j] = todo[Server][k]
    BY <1>4, CallsAfter
<1> QED BY <1>2, <1>3, <1>5

\* DisconnectNamedPipe comes to the top when "forget" goes, or is new there.
LEMMA TopNotDisconnect ==
    ASSUME TypeOK, TypeOK', Server \in Thread, NEW calls \in Seq(Call), NEW d \in {0, 1},
           d <= Len(todo[Server]), Turns(Server, calls, d),
           Paired(todo[Server]), ~Is(Server, "forget"), ~Is(Server, "DisconnectNamedPipe"),
           calls # <<>> => calls[1].step # "DisconnectNamedPipe"
    PROVE  ~Is(Server, "DisconnectNamedPipe") /\ ~Is(Server, "DisconnectNamedPipe")'
<1> SUFFICES ASSUME Is(Server, "DisconnectNamedPipe")' PROVE FALSE
    OBVIOUS
<1>1. calls = <<>> /\ Busy(Server)'
    BY TopAfter DEF Is
<1>2. 1 + d \in 1 .. Len(todo[Server]) /\ Head(todo'[Server]) = todo[Server][1 + d]
    BY <1>1, TopAfter
<1>3. Busy(Server) /\ Head(todo[Server]) = todo[Server][1]
    <2>1. Busy(Server)
        BY <1>2 DEF Busy, TypeOK
    <2> QED BY <2>1, Top
<1>4. CASE d = 0
    BY <1>2, <1>3, <1>4 DEF Is
<1>5. CASE d = 1
    <2>1. 2 \in 1 .. Len(todo[Server]) /\ 2 > 1 /\ 2 - 1 = 1
        BY <1>2, <1>5
    <2>2. todo[Server][2].step = "DisconnectNamedPipe"
        BY <1>2, <1>5 DEF Is
    <2>3. todo[Server][1] = At("forget", todo[Server][2].pipe)
        BY <2>1, <2>2 DEF Paired
    <2> QED BY <1>3, <2>3 DEF Is, At
<1> QED BY <1>4, <1>5

\* ReadFile is made at once: nothing uncovers it.
LEMMA TopNotRead ==
    ASSUME TypeOK, TypeOK', Server \in Thread, NEW calls \in Seq(Call), NEW d \in {0, 1},
           d <= Len(todo[Server]), Turns(Server, calls, d),
           Paired(todo[Server]), d = 0 => calls # <<>>,
           calls # <<>> => calls[1].step # "ReadFile"
    PROVE  ~Is(Server, "ReadFile")'
<1> SUFFICES ASSUME Is(Server, "ReadFile")' PROVE FALSE
    OBVIOUS
<1>1. calls = <<>> /\ Busy(Server)'
    BY TopAfter DEF Is
<1>2. 1 + d \in 1 .. Len(todo[Server]) /\ Head(todo'[Server]) = todo[Server][1 + d]
    BY <1>1, TopAfter
<1>3. d = 1 /\ 1 + 1 = 2
    BY <1>1
<1> QED BY <1>2, <1>3 DEF Is, Paired

-----------------------------------------------------------------------------
(***************************************************************************)
(* Steps that move no message                                              *)
(***************************************************************************)

\* What the steps rely on.
MapInv == IInv /\ AloneInv /\ ChannelInv

\* The state of a pipe a read may begin in.
Fresh(p) == buffer[p] = "none" /\ mCurrentState[p] = "READING"

LEMMA Alone ==
    ASSUME Host = {}, MapInv
    PROVE  /\ Server \in Thread /\ Thread = {Server}
           /\ TypeOK /\ PipesSafe /\ Paired(todo[Server])
           /\ todo[Server] \in Seq(Call) /\ Len(todo[Server]) \in Nat
<1>0. Server \in Thread /\ Thread = {Server}
    BY DEF Thread
<1>1. TypeOK /\ PipesSafe /\ Paired(todo[Server])
    BY DEF MapInv, IInv, AloneInv, StackFits
<1>2. todo[Server] \in Seq(Call)
    BY <1>0, <1>1 DEF TypeOK
<1> QED BY <1>0, <1>1, <1>2, LenProperties

\* A step of the server thread that leaves connections, messages and states
\* alone, and neither reads nor gives a message, keeps the invariant.  All
\* Channel may see of it is that the host is told of the end of a connection.
LEMMA Quiet ==
    ASSUME Host = {}, MapInv, TypeOK', NEW calls \in Seq(Call), NEW d \in {0, 1},
           d <= Len(todo[Server]), Turns(Server, calls, d), d = 0 => calls # <<>>,
           UNCHANGED <<link, inq, buffer, mCurrentState>>,
           \A q \in reading' : q \in reading \/ Fresh(q),
           ~Is(Server, "forget"), ~Is(Server, "DisconnectNamedPipe"),
           d = 1 => /\ todo[Server][1].step \notin {"read", "forget"}
                    /\ ~(todo[Server][1].step = "callback" /\ todo[Server][1].event = "message"),
           calls # <<>> => calls[1].step \notin {"DisconnectNamedPipe", "ReadFile"},
           \A i \in 1 .. Len(calls) :
               /\ calls[i].step = "read" => mCurrentState[calls[i].pipe] # "READING"
               /\ ~(calls[i].step = "callback" /\ calls[i].event = "message")
    PROVE  /\ ChannelInv'
           /\ \A q \in Pipe : SamePeer(q) /\ SameSent(q) /\ SameGiven(q)
           /\ \A q \in Pipe : Has("forget", q)' <=>
                  \/ Has("forget", q)
                  \/ \E i \in 1 .. Len(calls) : calls[i].step = "forget" /\ calls[i].pipe = q
<1>1. /\ Server \in Thread /\ TypeOK /\ PipesSafe /\ Paired(todo[Server]) /\ MessagesLast
      /\ \A i \in 1 .. Len(calls) : calls[i] \in Call
    BY Alone DEF MapInv, ChannelInv
<1>2. ASSUME NEW q \in Pipe PROVE InOnMessage(q)' <=> InOnMessage(q)
    <2>1. \A i \in 1 .. Len(calls) : calls[i] \notin Giving(q)
        BY DEF Giving
    <2>2. d = 1 => todo[Server][1] \notin Giving(q)
        BY DEF Giving
    <2>3. Holds(Giving(q))' <=> Holds(Giving(q))
        BY <1>1, <2>1, <2>2, HoldsSame
    <2> QED BY <1>1, <2>3, HoldsMeans, HoldsMeansNext
<1>3. ASSUME NEW q \in Pipe PROVE Unseen(q)' <=> Unseen(q)
    <2>1. CASE mCurrentState[q] # "READING"
        BY <2>1 DEF Unseen
    <2>2. CASE mCurrentState[q] = "READING"
        <3>1. \A i \in 1 .. Len(calls) : calls[i] \notin Of("read", q)
            BY <2>2 DEF Of
        <3>2. d = 1 => todo[Server][1] \notin Of("read", q)
            BY DEF Of
        <3>3. Holds(Of("read", q))' <=> Holds(Of("read", q))
            BY <1>1, <3>1, <3>2, HoldsSame
        <3> QED BY <1>1, <3>3, HoldsMeans, HoldsMeansNext DEF Unseen
    <2> QED BY <2>1, <2>2
<1>4. ASSUME NEW q \in Pipe
      PROVE  Has("forget", q)' <=>
                  \/ Has("forget", q)
                  \/ \E i \in 1 .. Len(calls) : calls[i].step = "forget" /\ calls[i].pipe = q
    <2>1. d = 1 => todo[Server][1] \notin Of("forget", q)
        BY DEF Of
    <2>2. Holds(Of("forget", q))' <=>
              \/ Holds(Of("forget", q))
              \/ \E i \in 1 .. Len(calls) : calls[i] \in Of("forget", q)
        BY <1>1, <2>1, HoldsAfter
    <2>3. \A i \in 1 .. Len(calls) :
              calls[i] \in Of("forget", q) <=> calls[i].step = "forget" /\ calls[i].pipe = q
        BY <1>1 DEF Of
    <2> QED BY <1>1, <2>2, <2>3, HoldsMeans, HoldsMeansNext
<1>5. ~Is(Server, "DisconnectNamedPipe") /\ ~Is(Server, "DisconnectNamedPipe")'
    BY <1>1, TopNotDisconnect
<1>6. ~Is(Server, "ReadFile")'
    BY <1>1, TopNotRead
<1>7. \A q \in Pipe : SamePeer(q) /\ SameSent(q) /\ SameGiven(q)
    BY <1>2, <1>3, <1>5 DEF SamePeer, SameSent, SameGiven, PeerOf, SentOn, GivenFrom,
                            Connected, Incoming
<1>8. MessagesLast'
    BY <1>1, MessagesLastAfter
<1>9. ReadsFresh'
    BY <1>5, <1>6 DEF MapInv, ChannelInv, ReadsFresh, AtTop, Fresh
<1>10. UnseenAttached' /\ ApartEmpty'
    BY <1>3 DEF MapInv, ChannelInv, UnseenAttached, ApartEmpty
<1> QED BY <1>4, <1>7, <1>8, <1>9, <1>10 DEF ChannelInv

\* What such a step leaves alone, and the call it is made for.
QuietData ==
    /\ link' = link /\ inq' = inq /\ buffer' = buffer /\ mCurrentState' = mCurrentState
    /\ \A q \in reading' : q \in reading \/ Fresh(q)
QuietTop ==
    /\ Busy(Server)
    /\ Head(todo[Server]).step \notin {"read", "forget", "DisconnectNamedPipe"}
    /\ ~(Head(todo[Server]).step = "callback" /\ Head(todo[Server]).event = "message")

\* The call goes on with others that read nothing, end nothing and give nothing.
LEMMA GoesQuietly ==
    ASSUME Host = {}, MapInv, TypeOK', QuietData, QuietTop,
           NEW calls \in Seq(Call), Goes(Server, calls),
           \A i \in 1 .. Len(calls) :
               calls[i].step \in {"sync", "pend", "lock", "WriteFile", "wait", "broadcast"}
    PROVE  ChannelInv' /\ UNCHANGED Ch!vars
<1>1. Server \in Thread /\ TypeOK
    BY Alone
<1>2. /\ Turns(Server, calls, 1) /\ 1 \in {0, 1} /\ 1 # 0 /\ 1 <= Len(todo[Server])
      /\ Head(todo[Server]) = todo[Server][1]
    <2>1. Len(todo[Server]) \in Nat \ {0} /\ Head(todo[Server]) = todo[Server][1]
        BY <1>1, Top DEF QuietTop
    <2> QED BY <1>1, <2>1, GoesTurns DEF QuietTop
<1>3. calls # <<>> => 1 \in 1 .. Len(calls)
    BY EmptySeq
<1>4. /\ ~Is(Server, "forget") /\ ~Is(Server, "DisconnectNamedPipe")
      /\ todo[Server][1].step \notin {"read", "forget"}
      /\ ~(todo[Server][1].step = "callback" /\ todo[Server][1].event = "message")
    BY <1>2 DEF QuietTop, Is
<1>5. /\ UNCHANGED <<link, inq, buffer, mCurrentState>>
      /\ \A q \in reading' : q \in reading \/ Fresh(q)
    BY DEF QuietData
<1>6. \A i \in 1 .. Len(calls) :
          /\ calls[i].step \notin {"read", "forget", "DisconnectNamedPipe", "ReadFile"}
          /\ calls[i].step # "callback"
    OBVIOUS
<1>7. calls # <<>> => calls[1].step \notin {"DisconnectNamedPipe", "ReadFile"}
    BY <1>3, <1>6
<1>8. /\ ChannelInv'
      /\ \A q \in Pipe : SamePeer(q) /\ SameSent(q) /\ SameGiven(q)
      /\ \A q \in Pipe : Has("forget", q)' <=>
             \/ Has("forget", q)
             \/ \E i \in 1 .. Len(calls) : calls[i].step = "forget" /\ calls[i].pipe = q
    BY <1>2, <1>4, <1>5, <1>6, <1>7, Quiet
<1>9. \A q \in Pipe : SameTold(q)
    BY <1>6, <1>8 DEF SameTold
<1> QED BY <1>8, <1>9, MapsStutter

\* OnDisconnect is called before anything else happens to the connection.
LEMMA Telling ==
    ASSUME Host = {}, MapInv, TypeOK', NEW p \in Pipe, NEW d \in {0, 1},
           d <= Len(todo[Server]), Turns(Server, DisconnectAndReconnect(p), d),
           QuietData, ~Is(Server, "forget"), ~Is(Server, "DisconnectNamedPipe"),
           d = 1 => QuietTop
    PROVE  ChannelInv' /\ Ch!Tells(p)
<1> DEFINE calls == DisconnectAndReconnect(p)
<1>1. Server \in Thread /\ TypeOK
    BY Alone
<1>2. d = 1 => /\ todo[Server][1].step \notin {"read", "forget"}
               /\ ~(todo[Server][1].step = "callback" /\ todo[Server][1].event = "message")
    BY <1>1, Top DEF QuietTop
<1>3. calls \in Seq(Call)
    BY ListsAreLists
<1>4. /\ Len(calls) = 3 /\ calls # <<>>
      /\ calls[1].step = "callback" /\ calls[1].event = "disconnect"
      /\ calls[2].step = "forget" /\ calls[2].pipe = p
      /\ calls[3].step = "DisconnectNamedPipe"
      /\ \A i \in 1 .. 3 : i = 1 \/ i = 2 \/ i = 3
      /\ 2 \in 1 .. 3
    BY DEF DisconnectAndReconnect, Callback, At
<1>5. /\ UNCHANGED <<link, inq, buffer, mCurrentState>>
      /\ \A q \in reading' : q \in reading \/ Fresh(q)
    BY DEF QuietData
<1>6. Turns(Server, calls, d)
    OBVIOUS
<1> HIDE DEF calls
<1>7. \A i \in 1 .. Len(calls) :
          /\ calls[i].step # "read"
          /\ ~(calls[i].step = "callback" /\ calls[i].event = "message")
    BY <1>4
<1>8. calls[1].step \notin {"DisconnectNamedPipe", "ReadFile"}
    BY <1>4
<1>9. /\ ChannelInv'
      /\ \A q \in Pipe : SamePeer(q) /\ SameSent(q) /\ SameGiven(q)
      /\ \A q \in Pipe : Has("forget", q)' <=>
             \/ Has("forget", q)
             \/ \E i \in 1 .. Len(calls) : calls[i].step = "forget" /\ calls[i].pipe = q
    BY SMTT(30), <1>2, <1>3, <1>4, <1>5, <1>6, <1>7, <1>8, Quiet
<1>10. Has("forget", p)' /\ \A q \in Pipe \ {p} : SameTold(q)
    BY <1>4, <1>9 DEF SameTold
<1> QED BY <1>9, <1>10, MapsTells

\* The call goes on with DisconnectAndReconnect.
LEMMA GoesToTell ==
    ASSUME Host = {}, MapInv, TypeOK', QuietData, QuietTop, NEW p \in Pipe,
           Goes(Server, DisconnectAndReconnect(p))
    PROVE  ChannelInv' /\ Ch!Tells(p)
<1>1. Server \in Thread /\ TypeOK
    BY Alone
<1>2. DisconnectAndReconnect(p) \in Seq(Call)
    BY ListsAreLists
<1>3. /\ Turns(Server, DisconnectAndReconnect(p), 1)
      /\ Len(todo[Server]) \in Nat \ {0}
    BY <1>1, <1>2, GoesTurns, Top DEF QuietTop
<1>4. 1 \in {0, 1} /\ 1 <= Len(todo[Server])
    BY <1>3
<1>5. ~Is(Server, "forget") /\ ~Is(Server, "DisconnectNamedPipe")
    BY DEF QuietTop, Is
<1> QED BY <1>3, <1>4, <1>5, Telling

-----------------------------------------------------------------------------
(***************************************************************************)
(* The steps that are about events, fields, writes or the stack            *)
(***************************************************************************)

\* A message read counts from when it was written, not from here.
LEMMA InsideStutters ==
    ASSUME Host = {}, MapInv, TypeOK',
           \/ ReadPends(Server) \/ NotesSync(Server) \/ NotesPending(Server)
           \/ Connects(Server) \/ Locks(Server) \/ WritePends(Server)
           \/ WriteSucceeds(Server) \/ BroadcastsNext(Server) \/ BroadcastEnds(Server)
    PROVE  ChannelInv' /\ UNCHANGED Ch!vars
<1>1. Server \in Thread /\ TypeOK
    BY Alone
<1>2. Busy(Server) /\ Head(todo[Server]).step \in
          {"ReadFile", "sync", "pend", "ConnectNamedPipe", "lock", "WriteFile", "wait",
           "broadcast"}
    BY DEF ReadPends, NotesSync, NotesPending, Connects, Locks, WritePends, WriteSucceeds,
           BroadcastsNext, BroadcastEnds, Is
<1>3. QuietTop
    BY <1>2 DEF QuietTop
<1>4. /\ ~Is(Server, "broadcast") => On(Server) \in Pipe
      /\ Is(Server, "broadcast") => On(Server) \in 0 .. NPipes
    BY <1>1, <1>2, Top
<1>5. QuietData
    <2>1. UNCHANGED <<link, inq, buffer, mCurrentState>>
        BY DEF ReadPends, NotesSync, NotesPending, Connects, Locks, WritePends, WriteSucceeds,
               BroadcastsNext, BroadcastEnds, kernelVars, ioVars, fieldVars
    <2>2. CASE ReadPends(Server)
        <3>1. reading' = reading \cup {On(Server)} /\ AtTop("ReadFile", On(Server))
            BY <2>2 DEF ReadPends, AtTop
        <3>2. On(Server) \in Pipe
            BY <1>4, <2>2 DEF ReadPends, Is
        <3>3. Fresh(On(Server))
            BY <3>1, <3>2 DEF MapInv, ChannelInv, ReadsFresh, AloneInv, TopAgrees, Fresh
        <3> QED BY <2>1, <3>1, <3>3 DEF QuietData
    <2>3. CASE ~ReadPends(Server)
        <3>1. reading' = reading
            BY <2>3 DEF NotesSync, NotesPending, Connects, Locks, WritePends, WriteSucceeds,
                        BroadcastsNext, BroadcastEnds, kernelVars
        <3> QED BY <2>1, <3>1 DEF QuietData
    <2> QED BY <2>2, <2>3
<1>6. ASSUME Goes(Server, <<>>) PROVE ChannelInv' /\ UNCHANGED Ch!vars
    <2>1. <<>> \in Seq(Call) /\ Len(<<>>) = 0 /\ \A i \in 1 .. 0 : FALSE
        BY ListsAreLists
    <2> QED BY <1>3, <1>5, <1>6, <2>1, GoesQuietly
<1>7. ASSUME NEW f \in Call, Goes(Server, <<f>>),
             f.step \in {"sync", "pend", "lock", "WriteFile", "wait", "broadcast"}
      PROVE  ChannelInv' /\ UNCHANGED Ch!vars
    <2>1. PICK calls \in Seq(Call) : calls = <<f>>
        BY ListsAreLists
    <2>2. Len(calls) = 1 /\ calls[1] = f /\ \A i \in 1 .. 1 : i = 1
        BY <2>1
    <2>3. Goes(Server, calls)
        BY <1>7, <2>1
    <2> QED BY <1>3, <1>5, <1>7, <2>2, <2>3, GoesQuietly
<1>8. ASSUME NEW f \in Call, NEW g \in Call, Goes(Server, <<f, g>>),
             f.step \in {"sync", "pend", "lock", "WriteFile", "wait", "broadcast"},
             g.step \in {"sync", "pend", "lock", "WriteFile", "wait", "broadcast"}
      PROVE  ChannelInv' /\ UNCHANGED Ch!vars
    <2>1. PICK calls \in Seq(Call) : calls = <<f, g>>
        BY ListsAreLists
    <2>2. /\ Len(calls) = 2 /\ calls[1] = f /\ calls[2] = g
          /\ \A i \in 1 .. 2 : i = 1 \/ i = 2
        BY <2>1
    <2>3. Goes(Server, calls)
        BY <1>8, <2>1
    <2> QED BY <1>3, <1>5, <1>8, <2>2, <2>3, GoesQuietly
<1>9. CASE NotesSync(Server) \/ NotesPending(Server) \/ WriteSucceeds(Server)
              \/ BroadcastEnds(Server)
    BY <1>6, <1>9 DEF NotesSync, NotesPending, WriteSucceeds, BroadcastEnds, Returns
<1>10. CASE ReadPends(Server) \/ Locks(Server) \/ WritePends(Server)
    <2>1. On(Server) \in Pipe
        BY <1>4, <1>10 DEF ReadPends, Locks, WritePends, Is
    <2>2. PICK f \in Call : Goes(Server, <<f>>) /\ f.step \in {"pend", "WriteFile", "wait"}
        BY <1>10, <2>1, CallsAreCalls DEF ReadPends, Locks, WritePends, At
    <2> QED BY <2>2, <1>7
<1>11. CASE Connects(Server)
    <2>1. On(Server) \in Pipe
        BY <1>4, <1>11 DEF Connects, Is
    <2>2. PICK f, g \in Call : f = At("sync", On(Server)) /\ g = At("pend", On(Server))
        BY <2>1, CallsAreCalls
    <2>3. Goes(Server, <<f, g>>) /\ f.step = "sync" /\ g.step = "pend"
        BY <1>11, <2>2 DEF Connects, At
    <2> QED BY <2>3, <1>8
<1>12. CASE BroadcastsNext(Server)
    <2>1. On(Server) \in Pipe /\ On(Server) + 1 \in 0 .. NPipes
        BY <1>4, <1>12, PipesAssumption DEF BroadcastsNext, Pipe
    <2>2. PICK f, g \in Call : f = At("lock", On(Server))
                                 /\ g = At("broadcast", On(Server) + 1)
        BY <2>1, CallsAreCalls
    <2>3. f.step = "lock" /\ g.step = "broadcast"
        BY <2>2 DEF At
    <2>4. Goes(Server, <<f, g>>) \/ Goes(Server, <<g>>)
        BY <1>12, <2>2 DEF BroadcastsNext
    <2> QED BY <2>3, <2>4, <1>7, <1>8
<1> QED BY <1>9, <1>10, <1>11, <1>12

\* A failure of any kind is told before anything is done about it.
LEMMA FailureTells ==
    ASSUME Host = {}, MapInv, TypeOK',
           FindsFailure(Server) \/ ReadFails(Server) \/ WriteFails(Server)
    PROVE  ChannelInv' /\ Ch!Tells(On(Server)) /\ On(Server) \in Pipe
<1>1. Server \in Thread /\ TypeOK
    BY Alone
<1>2. Busy(Server) /\ Head(todo[Server]).step \in {"result", "ReadFile", "WriteFile", "wait"}
    BY DEF FindsFailure, ReadFails, WriteFails, Is
<1>3. QuietTop
    BY <1>2 DEF QuietTop
<1>4. On(Server) \in Pipe
    BY <1>1, <1>2, Top DEF Is
<1>5. QuietData
    BY DEF FindsFailure, ReadFails, WriteFails, QuietData, kernelVars, fieldVars
<1>6. Goes(Server, DisconnectAndReconnect(On(Server)))
    BY DEF FindsFailure, ReadFails, WriteFails, AfterReadError
<1> QED BY <1>3, <1>4, <1>5, <1>6, GoesToTell

\* A pipe the server thread is about to disconnect is not down already.
LEMMA NeverDown == ASSUME Host = {}, MapInv PROVE ~DisconnectFails(Server)
<1> SUFFICES ASSUME DisconnectFails(Server) PROVE FALSE
    OBVIOUS
<1>1. /\ Server \in Thread /\ Thread = {Server} /\ TypeOK /\ PipesSafe
    BY Alone
<1>2. Is(Server, "DisconnectNamedPipe") /\ On(Server) \in Pipe /\ Down(On(Server))
    BY <1>1, Top DEF DisconnectFails, Is
<1>3. PICK t \in Thread : Is(t, "ConnectNamedPipe")
    BY <1>1, <1>2 DEF PipesSafe, OneReconnects
<1>4. t = Server
    BY <1>1
<1> QED BY <1>2, <1>3, <1>4 DEF Is

-----------------------------------------------------------------------------
(***************************************************************************)
(* The steps that call, and those that are called                          *)
(***************************************************************************)

\* Calls that read, end and give nothing, made where nothing ends.
LEMMA QuietCalls ==
    ASSUME Host = {}, MapInv, TypeOK', NEW calls \in Seq(Call), calls # <<>>,
           Turns(Server, calls, 0),
           UNCHANGED <<link, inq, buffer, mCurrentState, reading>>,
           ~Is(Server, "forget"), ~Is(Server, "DisconnectNamedPipe"),
           \A i \in 1 .. Len(calls) : calls[i].step \in {"result", "lock", "broadcast"}
    PROVE  ChannelInv' /\ UNCHANGED Ch!vars
<1>1. Server \in Thread /\ 0 \in {0, 1} /\ 0 # 1 /\ 0 <= Len(todo[Server])
    BY Alone
<1>2. 1 \in 1 .. Len(calls)
    BY EmptySeq
<1>3. calls[1].step \notin {"DisconnectNamedPipe", "ReadFile"}
    BY <1>2
<1>4. \A i \in 1 .. Len(calls) :
          calls[i].step # "read" /\ calls[i].step # "callback" /\ calls[i].step # "forget"
    OBVIOUS
<1>5. /\ ChannelInv'
      /\ \A q \in Pipe : SamePeer(q) /\ SameSent(q) /\ SameGiven(q)
      /\ \A q \in Pipe : Has("forget", q)' <=>
             \/ Has("forget", q)
             \/ \E i \in 1 .. Len(calls) : calls[i].step = "forget" /\ calls[i].pipe = q
    BY <1>1, <1>3, <1>4, Quiet
<1>6. \A q \in Pipe : SameTold(q)
    BY <1>4, <1>5 DEF SameTold
<1> QED BY <1>5, <1>6, MapsStutter

\* The server thread wakes up with nothing on its stack.
LEMMA WakesStutters ==
    ASSUME Host = {}, MapInv, TypeOK', NEW p \in Pipe, Wakes(p)
    PROVE  ChannelInv' /\ UNCHANGED Ch!vars
<1>1. Server \in Thread /\ TypeOK /\ todo[Server] \in Seq(Call)
    BY Alone
<1>2. PICK f \in Call : f = At("result", p)
    BY CallsAreCalls
<1>3. PICK calls \in Seq(Call) : calls = <<f>>
    BY ListsAreLists
<1>4. /\ calls # <<>> /\ Len(calls) = 1 /\ calls[1] = f /\ f.step = "result"
      /\ \A i \in 1 .. 1 : i = 1
    BY <1>2, <1>3 DEF At
<1>5. Turns(Server, calls, 0)
    <2>1. todo[Server] = <<>> /\ todo' = [todo EXCEPT ![Server] = calls]
        BY <1>2, <1>3 DEF Wakes, Busy
    <2>2. calls \o todo[Server] = calls
        BY <2>1, ConcatEmptySeq
    <2>3. todo' = [todo EXCEPT ![Server] = calls \o @]
        BY <2>1, <2>2
    <2> QED BY <1>1, <2>3, PushTurns
<1>6. UNCHANGED <<link, inq, buffer, mCurrentState, reading>>
    BY DEF Wakes, kernelVars, fieldVars
<1>7. ~Is(Server, "forget") /\ ~Is(Server, "DisconnectNamedPipe")
    BY DEF Wakes, Is
<1> QED BY <1>4, <1>5, <1>6, <1>7, QuietCalls

\* A callback sends or broadcasts.
LEMMA SendsStutter ==
    ASSUME Host = {}, MapInv, TypeOK',
           \/ \E p \in Pipe : CallsSend(Server, p)
           \/ CallsBroadcast(Server)
    PROVE  ChannelInv' /\ UNCHANGED Ch!vars
<1>1. Server \in Thread /\ TypeOK
    BY Alone
<1>2. PICK f \in Call : f.step \in {"lock", "broadcast"} /\ Calls(Server, <<f>>)
    <2>1. 0 \in 0 .. NPipes
        BY PipesAssumption
    <2>2. At("broadcast", 0) \in Call /\ \A p \in Pipe : At("lock", p) \in Call
        BY <2>1, CallsAreCalls
    <2>3. At("broadcast", 0).step = "broadcast" /\ \A p : At("lock", p).step = "lock"
        BY DEF At
    <2> QED BY <2>2, <2>3 DEF CallsSend, CallsBroadcast
<1>3. PICK calls \in Seq(Call) : calls = <<f>>
    BY ListsAreLists
<1>4. calls # <<>> /\ Len(calls) = 1 /\ calls[1] = f /\ \A i \in 1 .. 1 : i = 1
    BY <1>3
<1>5. Turns(Server, calls, 0)
    BY <1>1, <1>2, <1>3, PushTurns DEF Calls
<1>6. UNCHANGED <<link, inq, buffer, mCurrentState, reading>>
    BY <1>2 DEF Calls, kernelVars, fieldVars
<1>7. ~Is(Server, "forget") /\ ~Is(Server, "DisconnectNamedPipe")
    BY <1>1, <1>2 DEF Calls, MayCall, Is
<1> QED BY <1>2, <1>4, <1>5, <1>6, <1>7, QuietCalls

\* A callback disconnects a pipe.
LEMMA DisconnectTells ==
    ASSUME Host = {}, MapInv, TypeOK', NEW p \in Pipe, CallsDisconnect(Server, p)
    PROVE  ChannelInv' /\ Ch!Tells(p)
<1>1. Server \in Thread /\ TypeOK /\ 0 \in {0, 1} /\ 0 # 1 /\ 0 <= Len(todo[Server])
    BY Alone
<1>2. DisconnectAndReconnect(p) \in Seq(Call)
    BY ListsAreLists
<1>3. Turns(Server, DisconnectAndReconnect(p), 0)
    BY <1>1, <1>2, PushTurns DEF CallsDisconnect, Calls
<1>4. QuietData
    BY DEF CallsDisconnect, Calls, QuietData, kernelVars, fieldVars
<1>5. ~Is(Server, "forget") /\ ~Is(Server, "DisconnectNamedPipe")
    BY <1>1 DEF CallsDisconnect, Calls, MayCall, Is
<1> QED BY <1>1, <1>3, <1>4, <1>5, Telling

\* The server thread finds a client, and reads after OnConnect.
LEMMA FindsClientStutters ==
    ASSUME Host = {}, MapInv, TypeOK', FindsClient(Server)
    PROVE  ChannelInv' /\ UNCHANGED Ch!vars
<1>1. Server \in Thread /\ TypeOK /\ Busy(Server) /\ Is(Server, "result")
    BY Alone DEF FindsClient, Is
<1>2. PICK p \in Pipe : p = On(Server)
    BY <1>1, Top DEF Is
<1>3. PICK f, g \in Call : f = Callback("connect", p, TRUE) /\ g = At("read", p)
    BY CallsAreCalls
<1>4. PICK calls \in Seq(Call) : calls = <<f, g>>
    BY ListsAreLists
<1>5. /\ calls # <<>> /\ Len(calls) = 2 /\ calls[1] = f /\ calls[2] = g
      /\ \A i \in 1 .. 2 : i = 1 \/ i = 2
      /\ f.step = "callback" /\ f.event = "connect" /\ g.step = "read" /\ g.pipe = p
    BY <1>3, <1>4 DEF Callback, At
<1>6. /\ Goes(Server, calls) /\ mCurrentState[p] = "CONNECTING"
      /\ UNCHANGED <<link, inq, buffer, mCurrentState, reading>>
    BY <1>2, <1>3, <1>4 DEF FindsClient, kernelVars, fieldVars
<1>7. /\ Turns(Server, calls, 1) /\ 1 \in {0, 1} /\ 1 # 0 /\ 1 <= Len(todo[Server])
      /\ Head(todo[Server]) = todo[Server][1]
    <2>1. Len(todo[Server]) \in Nat \ {0} /\ Head(todo[Server]) = todo[Server][1]
        BY <1>1, Top
    <2> QED BY <1>1, <1>6, <2>1, GoesTurns
<1>8. /\ ~Is(Server, "forget") /\ ~Is(Server, "DisconnectNamedPipe")
      /\ todo[Server][1].step = "result"
    BY <1>1, <1>7 DEF Is
<1>9. \A i \in 1 .. Len(calls) :
          /\ calls[i].step = "read" => mCurrentState[calls[i].pipe] # "READING"
          /\ ~(calls[i].step = "callback" /\ calls[i].event = "message")
          /\ calls[i].step # "forget"
    BY <1>5, <1>6
<1>10. calls[1].step \notin {"DisconnectNamedPipe", "ReadFile"}
    BY <1>5
<1>11. /\ ChannelInv'
       /\ \A q \in Pipe : SamePeer(q) /\ SameSent(q) /\ SameGiven(q)
       /\ \A q \in Pipe : Has("forget", q)' <=>
              \/ Has("forget", q)
              \/ \E i \in 1 .. Len(calls) : calls[i].step = "forget" /\ calls[i].pipe = q
    BY <1>6, <1>7, <1>8, <1>9, <1>10, Quiet
<1>12. \A q \in Pipe : SameTold(q)
    BY <1>9, <1>11 DEF SameTold
<1> QED BY <1>11, <1>12, MapsStutter

\* OnMessage returns: it was the only one, and the next read is all there is.
LEMMA MessageReturns ==
    ASSUME Host = {}, MapInv, TypeOK', CallbackReturns(Server),
           NEW p \in Pipe, todo[Server][1] \in Giving(p)
    PROVE  ChannelInv' /\ (Ch!TakesBack(p) \/ UNCHANGED Ch!vars)
<1>1. Server \in Thread /\ TypeOK /\ MessagesLast /\ Busy(Server) /\ <<>> \in Seq(Call)
    BY Alone, ListsAreLists DEF MapInv, ChannelInv, CallbackReturns, Is
<1>2. /\ Turns(Server, <<>>, 1) /\ 1 \in {0, 1} /\ 1 <= Len(todo[Server])
      /\ Head(todo[Server]) = todo[Server][1] /\ 1 \in 1 .. Len(todo[Server])
      /\ DOMAIN todo[Server] = 1 .. Len(todo[Server])
    <2>1. Goes(Server, <<>>)
        BY DEF CallbackReturns, Returns
    <2>2. Len(todo[Server]) \in Nat \ {0} /\ Head(todo[Server]) = todo[Server][1]
        BY <1>1, Top
    <2>3. DOMAIN todo[Server] = 1 .. Len(todo[Server])
        BY <1>1 DEF TypeOK
    <2>4. 1 <= Len(todo[Server]) /\ 1 \in 1 .. Len(todo[Server])
        BY <2>2
    <2> QED BY <1>1, <2>1, <2>2, <2>3, <2>4, GoesTurns
<1>3. Len(todo[Server]) = 2 /\ todo[Server][2] = At("read", p)
    <2>1. /\ todo[Server][1].step = "callback" /\ todo[Server][1].event = "message"
          /\ todo[Server][1].pipe = p
        BY DEF Giving
    <2>2. 1 + 1 = Len(todo[Server]) /\ todo[Server][1 + 1] = At("read", p)
        BY <1>1, <1>2, <2>1 DEF MessagesLast
    <2> QED BY <2>2
<1>4. UNCHANGED <<link, inq, buffer, mCurrentState, reading>>
    BY DEF CallbackReturns, kernelVars, fieldVars
<1>5. ~Is(Server, "DisconnectNamedPipe")
    BY DEF CallbackReturns, Is
<1>6. Head(todo'[Server]) = At("read", p) /\ Len(todo'[Server]) = 1 /\ DOMAIN todo'[Server] = 1 .. 1
    <2>1. Len(todo'[Server]) = 1 /\ todo'[Server][1] = todo[Server][2]
        BY <1>3, <1>2 DEF Turns
    <2>2. todo'[Server] \in Seq(Call)
        BY <1>1 DEF TypeOK
    <2> QED BY <1>3, <2>1, <2>2
<1>7. \A s, q : AtTop(s, q)' => s = "read" /\ q = p
    BY <1>6 DEF AtTop, Is, On, At
<1>8. MessagesLast'
    <2>1. Len(<<>>) = 0 /\ \A i \in 1 .. 0 : FALSE
        OBVIOUS
    <2> QED BY <1>1, <1>2, <2>1, MessagesLastAfter
<1>9. \A q \in Pipe : ~InOnMessage(q)'
    BY <1>6, <1>8 DEF MessagesLast, InOnMessage
<1>10. \A q \in Pipe \ {p} : ~InOnMessage(q)
    BY <1>1, <1>2, <1>3 DEF MessagesLast, InOnMessage, Giving
<1>11. ASSUME NEW q \in Pipe, NEW step \in {"read", "forget"}
       PROVE  Has(step, q)' <=> Has(step, q)
    <2>1. todo[Server][1] \notin Of(step, q)
        BY DEF Of, Giving
    <2>2. Len(<<>>) = 0 /\ \A i \in 1 .. 0 : FALSE
        OBVIOUS
    <2>3. Holds(Of(step, q))' <=> Holds(Of(step, q))
        BY <1>1, <1>2, <2>1, <2>2, HoldsSame
    <2> QED BY <1>1, <2>3, HoldsMeans, HoldsMeansNext
<1>12. \A q \in Pipe : Unseen(q)' <=> Unseen(q)
    BY <1>4, <1>11 DEF Unseen
<1>13. \A q \in Pipe : SamePeer(q) /\ SameSent(q) /\ SameTold(q)
    <2>1. ~Is(Server, "DisconnectNamedPipe")'
        BY <1>6 DEF Is, At
    <2> QED BY <2>1, <1>4, <1>5, <1>11, <1>12
           DEF SamePeer, SameSent, SameTold, PeerOf, SentOn, Connected, Incoming
<1>14. GivenFrom(p)' = "none" /\ \A q \in Pipe \ {p} : SameGiven(q)
    BY <1>9, <1>10 DEF GivenFrom, SameGiven
<1>15. ChannelInv'
    <2>1. ReadsFresh'
        BY <1>4, <1>5, <1>7 DEF MapInv, ChannelInv, ReadsFresh, AtTop
    <2>2. UnseenAttached' /\ ApartEmpty'
        BY <1>4, <1>12 DEF MapInv, ChannelInv, UnseenAttached, ApartEmpty
    <2> QED BY <1>8, <2>1, <2>2 DEF ChannelInv
<1>16. CASE GivenFrom(p) # "none"
    BY <1>13, <1>14, <1>15, <1>16, MapsTakesBack
<1>17. CASE GivenFrom(p) = "none"
    <2>1. \A q \in Pipe : SameGiven(q)
        BY <1>14, <1>17 DEF SameGiven
    <2> QED BY <1>13, <1>15, <2>1, MapsStutter
<1> QED BY <1>16, <1>17

\* The other callbacks return to what called them.
LEMMA CallbackReturnsMaps ==
    ASSUME Host = {}, MapInv, TypeOK', CallbackReturns(Server)
    PROVE  ChannelInv' /\ (UNCHANGED Ch!vars \/ \E p \in Pipe : Ch!TakesBack(p))
<1>1. /\ Server \in Thread /\ TypeOK /\ Is(Server, "callback") /\ Busy(Server)
      /\ Goes(Server, <<>>)
    BY Alone DEF CallbackReturns, Is, Returns
<1>2. Head(todo[Server]) = todo[Server][1] /\ todo[Server][1] \in Call
    BY <1>1, Top
<1>3. CASE todo[Server][1].event = "message"
    <2>1. PICK p \in Pipe : p = On(Server)
        BY <1>1, Top DEF Is
    <2>2. todo[Server][1] \in Giving(p)
        BY <1>1, <1>2, <1>3, <2>1 DEF Giving, Is, On
    <2> QED BY <2>2, MessageReturns
<1>4. CASE todo[Server][1].event # "message"
    <2>1. QuietTop
        BY <1>1, <1>2, <1>4 DEF QuietTop, Is
    <2>2. QuietData
        BY DEF CallbackReturns, QuietData, kernelVars, fieldVars
    <2>3. <<>> \in Seq(Call) /\ Len(<<>>) = 0 /\ \A i \in 1 .. 0 : FALSE
        BY ListsAreLists
    <2> QED BY <1>1, <2>1, <2>2, <2>3, GoesQuietly
<1> QED BY <1>3, <1>4

-----------------------------------------------------------------------------
(***************************************************************************)
(* The steps that read, made with nothing else on the stack                *)
(***************************************************************************)

\* A stack of one call, and of one before the step and some after it.
LEMMA OnlyOne ==
    ASSUME TypeOK, Server \in Thread, Len(todo[Server]) = 1
    PROVE  /\ Busy(Server)
           /\ \A s, q : /\ Has(s, q) <=> todo[Server][1].step = s /\ todo[Server][1].pipe = q
                        /\ AtTop(s, q) <=> todo[Server][1].step = s /\ todo[Server][1].pipe = q
           /\ \A q : InOnMessage(q) =>
                  todo[Server][1].step = "callback" /\ todo[Server][1].pipe = q
<1>1. todo[Server] \in Seq(Call)
    BY DEF TypeOK
<1>2. /\ DOMAIN todo[Server] = 1 .. 1 /\ \A k \in 1 .. 1 : k = 1
      /\ 1 \in 1 .. 1
    BY <1>1
<1>3. Busy(Server) /\ Head(todo[Server]) = todo[Server][1]
    BY <1>1, EmptySeq DEF Busy
<1> QED BY <1>2, <1>3 DEF Has, AtTop, Is, On, InOnMessage

LEMMA OnlyOneGoes ==
    ASSUME TypeOK, TypeOK', Server \in Thread, Len(todo[Server]) = 1,
           NEW calls \in Seq(Call), calls # <<>>, Goes(Server, calls)
    PROVE  /\ \A s, q : /\ Has(s, q)' <=>
                               \E i \in 1 .. Len(calls) : calls[i].step = s /\ calls[i].pipe = q
                        /\ AtTop(s, q)' <=> calls[1].step = s /\ calls[1].pipe = q
           /\ \A q : InOnMessage(q)' <=>
                  \E i \in 1 .. Len(calls) :
                     calls[i].step = "callback" /\ calls[i].event = "message" /\ calls[i].pipe = q
           /\ Len(todo'[Server]) = Len(calls)
           /\ \A i \in 1 .. Len(calls) : todo'[Server][i] = calls[i]
<1>1. Busy(Server) /\ todo'[Server] \in Seq(Call)
    <2>1. todo[Server] \in Seq(Call) /\ todo'[Server] \in Seq(Call)
        BY DEF TypeOK
    <2> QED BY <2>1, OnlyOne
<1>2. /\ Len(todo'[Server]) = Len(calls) + Len(todo[Server]) - 1
      /\ Len(calls) \in Nat \ {0}
      /\ \A i \in 1 .. Len(calls) : todo'[Server][i] = calls[i]
      /\ \A s, q : AtTop(s, q)' <=> s = calls[1].step /\ q = calls[1].pipe
    BY <1>1, TopOnceGone
<1>3. Len(todo'[Server]) = Len(calls) /\ DOMAIN todo'[Server] = 1 .. Len(calls)
    BY <1>1, <1>2
<1> QED BY <1>2, <1>3 DEF Has, InOnMessage

\* ReadPipe forgets the message that was in the buffer, which OnMessage had.
LEMMA BeginsReadStutters ==
    ASSUME Host = {}, MapInv, TypeOK', BeginsRead(Server)
    PROVE  ChannelInv' /\ UNCHANGED Ch!vars
<1>1. /\ Server \in Thread /\ TypeOK /\ PipesSafe /\ Busy(Server) /\ Is(Server, "read")
    BY Alone DEF BeginsRead, Is
<1>2. PICK p \in Pipe : p = On(Server)
    BY <1>1, Top DEF Is
<1>3. /\ Len(todo[Server]) = 1
      /\ todo[Server][1].step = "read" /\ todo[Server][1].pipe = p /\ p \notin reading
    <2>1. /\ todo[Server][1].step = "read" /\ todo[Server][1].pipe = p
          /\ 1 \in DOMAIN todo[Server]
        BY <1>1, <1>2, Top DEF Is, On, TypeOK
    <2> QED BY <1>1, <2>1 DEF PipesSafe, ReadsLast, ReadingQuiet, ReadStep
<1>4. PICK f \in Call : f = At("ReadFile", p)
    BY CallsAreCalls
<1>5. PICK calls \in Seq(Call) : calls = <<f>>
    BY ListsAreLists
<1>6. /\ calls # <<>> /\ Len(calls) = 1 /\ calls[1] = f /\ \A i \in 1 .. 1 : i = 1
      /\ f.step = "ReadFile" /\ f.pipe = p
    BY <1>4, <1>5 DEF At
<1>7. /\ Goes(Server, calls) /\ UNCHANGED <<link, inq, reading>>
      /\ mCurrentState' = [mCurrentState EXCEPT ![p] = "READING"]
      /\ buffer' = [buffer EXCEPT ![p] = "none"]
    BY <1>2, <1>4, <1>5 DEF BeginsRead, kernelVars
<1>8. /\ buffer'[p] = "none"
      /\ \A q \in Pipe \ {p} : buffer'[q] = buffer[q] /\ mCurrentState'[q] = mCurrentState[q]
    BY <1>1, <1>7 DEF TypeOK
<1>9. /\ \A q \in Pipe : ~InOnMessage(q) /\ ~Has("forget", q)
      /\ \A q : ~AtTop("DisconnectNamedPipe", q)
      /\ Has("read", p) /\ \A q \in Pipe \ {p} : ~Has("read", q)
    BY <1>1, <1>3, OnlyOne
<1>10. /\ \A q \in Pipe : ~InOnMessage(q)' /\ ~Has("forget", q)' /\ ~Has("read", q)'
       /\ \A q : ~AtTop("DisconnectNamedPipe", q)' /\ (AtTop("ReadFile", q)' => q = p)
       /\ Len(todo'[Server]) = 1 /\ todo'[Server][1] = f
    BY <1>1, <1>3, <1>6, <1>7, OnlyOneGoes
<1>11. \A q \in Pipe : Unseen(q)' <=> Unseen(q)
    BY <1>8, <1>9, <1>10 DEF Unseen
<1>12. ASSUME NEW q \in Pipe PROVE SamePeer(q) /\ SameSent(q) /\ SameGiven(q) /\ SameTold(q)
    <2>1. q # p \/ (~Unseen(q) /\ ~Unseen(q)')
        BY <1>9, <1>11 DEF Unseen
    <2>2. Unseen(q)' => buffer'[q] = buffer[q]
        BY <1>8, <1>11, <2>1
    <2>3. Connected(q)' <=> Connected(q)
        BY <1>7, <1>9, <1>10 DEF Connected, AtTop
    <2>4. Incoming(q)' = Incoming(q)
        BY <1>7 DEF Incoming
    <2> QED BY <1>7, <1>9, <1>10, <1>11, <2>2, <2>3, <2>4
           DEF SamePeer, SameSent, SameGiven, SameTold, PeerOf, SentOn, GivenFrom
<1>13. ChannelInv'
    <2>1. MessagesLast'
        BY <1>6, <1>10 DEF MessagesLast
    <2>2. ReadsFresh'
        BY <1>3, <1>7, <1>8, <1>9, <1>10 DEF MapInv, ChannelInv, ReadsFresh
    <2>3. UnseenAttached' /\ ApartEmpty'
        BY <1>7, <1>11 DEF MapInv, ChannelInv, UnseenAttached, ApartEmpty
    <2> QED BY <2>1, <2>2, <2>3 DEF ChannelInv
<1> QED BY <1>12, <1>13, MapsStutter

\* A read that ends at once takes the message from the kernel to the buffer.
\* An empty one is taken for the end of the connection.
LEMMA ReadSucceedsMaps ==
    ASSUME Host = {}, MapInv, TypeOK', ReadSucceeds(Server)
    PROVE  ChannelInv' /\ (UNCHANGED Ch!vars \/ \E p \in Pipe : Ch!Tells(p))
<1>1. /\ Server \in Thread /\ TypeOK /\ PipesSafe /\ Busy(Server) /\ Is(Server, "ReadFile")
    BY Alone DEF ReadSucceeds, Is
<1>2. PICK p \in Pipe : p = On(Server)
    BY <1>1, Top DEF Is
<1>3. /\ Len(todo[Server]) = 1
      /\ todo[Server][1].step = "ReadFile" /\ todo[Server][1].pipe = p /\ p \notin reading
    <2>1. /\ todo[Server][1].step = "ReadFile" /\ todo[Server][1].pipe = p
          /\ 1 \in DOMAIN todo[Server]
        BY <1>1, <1>2, Top DEF Is, On, TypeOK
    <2> QED BY <1>1, <2>1 DEF PipesSafe, ReadsLast, ReadingQuiet, ReadStep
<1>4. PICK m \in Length : m = Head(Incoming(p)) /\ Incoming(p) # <<>> /\ link[p] # NoClient
    BY <1>1, <1>2, IncomingType DEF ReadSucceeds, Incoming
<1>5. /\ UNCHANGED <<link, mCurrentState, reading>>
      /\ inq' = [inq EXCEPT ![link[p]] = Tail(@)]
      /\ buffer' = [buffer EXCEPT ![p] = m]
    BY <1>2, <1>4 DEF ReadSucceeds
<1>6. PICK calls \in Seq(Call) :
          /\ Goes(Server, calls) /\ calls # <<>>
          /\ calls[1].step \notin {"ReadFile", "DisconnectNamedPipe"}
          /\ \A i \in 1 .. Len(calls) :
                /\ calls[i].step # "read"
                /\ ~(calls[i].step = "callback" /\ calls[i].event = "message")
                /\ calls[i].step = "forget" => calls[i].pipe = p
    <2>1. CASE m # "empty"
        <3>1. PICK f \in Call : f.step \in {"sync", "pend"} /\ Goes(Server, <<f>>)
            <4>1. \A s : At(s, p).step = s
                BY DEF At
            <4>2. At("sync", p) \in Call /\ At("pend", p) \in Call
                BY CallsAreCalls
            <4>3. \/ Goes(Server, <<At("sync", p)>>)
                  \/ Goes(Server, <<At("pend", p)>>)
                BY <1>2, <1>4, <2>1 DEF ReadSucceeds, Length
            <4> QED BY <4>1, <4>2, <4>3
        <3>2. PICK calls \in Seq(Call) : calls = <<f>>
            BY ListsAreLists
        <3>3. calls # <<>> /\ Len(calls) = 1 /\ calls[1] = f /\ \A i \in 1 .. 1 : i = 1
            BY <3>2
        <3>4. Goes(Server, calls)
            BY <3>1, <3>2
        <3> QED BY <3>1, <3>3, <3>4
    <2>2. CASE m = "empty"
        <3>1. PICK calls \in Seq(Call) : calls = DisconnectAndReconnect(p)
            BY ListsAreLists
        <3>2. /\ calls # <<>> /\ Len(calls) = 3 /\ \A i \in 1 .. 3 : i = 1 \/ i = 2 \/ i = 3
              /\ calls[1].step = "callback" /\ calls[1].event = "disconnect"
              /\ calls[2].step = "forget" /\ calls[2].pipe = p
              /\ calls[3].step = "DisconnectNamedPipe"
            BY <3>1 DEF DisconnectAndReconnect, Callback, At
        <3>3. Goes(Server, calls)
            BY <1>2, <1>4, <2>2, <3>1 DEF ReadSucceeds, AfterReadError
        <3> QED BY <3>2, <3>3
    <2> QED BY <2>1, <2>2
<1>7. /\ inq'[link[p]] = Tail(inq[link[p]]) /\ \A c \in Client \ {link[p]} : inq'[c] = inq[c]
      /\ buffer'[p] = m /\ \A q \in Pipe \ {p} : buffer'[q] = buffer[q]
    BY <1>1, <1>4, <1>5 DEF TypeOK
<1>8. /\ \A q \in Pipe : ~InOnMessage(q) /\ ~Has("forget", q) /\ ~Has("read", q)
      /\ \A q : ~AtTop("DisconnectNamedPipe", q) /\ (AtTop("ReadFile", q) <=> q = p)
    BY <1>1, <1>3, OnlyOne
<1>9. /\ \A q \in Pipe : ~InOnMessage(q)' /\ ~Has("read", q)' /\ (Has("forget", q)' => q = p)
      /\ \A q : ~AtTop("DisconnectNamedPipe", q)' /\ ~AtTop("ReadFile", q)'
      /\ Len(todo'[Server]) = Len(calls)
      /\ \A i \in 1 .. Len(calls) : todo'[Server][i] = calls[i]
    BY <1>1, <1>3, <1>6, OnlyOneGoes
<1>10. mCurrentState[p] = "READING" /\ buffer[p] = "none" /\ m # "none"
    BY <1>4, <1>8 DEF MapInv, AloneInv, TopAgrees, ChannelInv, ReadsFresh, Length
<1>11. ~Unseen(p) /\ Unseen(p)' /\ \A q \in Pipe \ {p} : Unseen(q)' <=> Unseen(q)
    BY <1>5, <1>7, <1>8, <1>9, <1>10 DEF Unseen
<1>12. \A q \in Pipe : Connected(q)' <=> Connected(q)
    BY <1>5, <1>8, <1>9 DEF Connected, AtTop
<1>13. ASSUME NEW q \in Pipe \ {p} PROVE SameSent(q)
    <2>1. link[q] # link[p] /\ link[q] \in Client \cup {NoClient}
        BY <1>1, <1>4, <1>13 DEF PipesSafe, LinksAgree, TypeOK
    <2>2. Incoming(q)' = Incoming(q)
        BY <1>5, <1>7, <2>1 DEF Incoming
    <2> QED BY <1>7, <1>11, <1>12, <1>13, <2>2 DEF SameSent, SentOn
<1>14. SameSent(p)
    <2>1. inq[link[p]] \in Seq(Length) /\ inq[link[p]] # <<>> /\ m = Head(inq[link[p]])
        BY <1>1, <1>4 DEF TypeOK, Incoming
    <2>2. <<m>> \o Tail(inq[link[p]]) = inq[link[p]]
        BY <2>1
    <2>3. <<>> \o inq[link[p]] = inq[link[p]]
        BY <2>1, ConcatEmptySeq
    <2>4. Incoming(p) = inq[link[p]] /\ Incoming(p)' = Tail(inq[link[p]])
        BY <1>4, <1>5, <1>7 DEF Incoming
    <2>5. CASE Connected(p)
        <3>1. SentOn(p) = <<>> \o inq[link[p]]
            BY <1>11, <2>4, <2>5 DEF SentOn
        <3>2. SentOn(p)' = <<m>> \o Tail(inq[link[p]])
            BY <1>7, <1>11, <1>12, <2>4, <2>5 DEF SentOn
        <3> QED BY <2>2, <2>3, <3>1, <3>2 DEF SameSent
    <2>6. CASE ~Connected(p)
        BY <1>12, <2>6 DEF SameSent, SentOn
    <2> QED BY <2>5, <2>6
<1>15. \A q \in Pipe : SamePeer(q) /\ SameGiven(q) /\ SameSent(q)
    BY <1>5, <1>8, <1>9, <1>12, <1>13, <1>14 DEF SamePeer, SameGiven, PeerOf, GivenFrom
<1>16. ChannelInv'
    <2>1. MessagesLast'
        BY <1>6, <1>9 DEF MessagesLast
    <2>2. ReadsFresh'
        BY <1>3, <1>5, <1>7, <1>8, <1>9 DEF MapInv, ChannelInv, ReadsFresh
    <2>3. UnseenAttached'
        BY <1>4, <1>5, <1>11 DEF MapInv, ChannelInv, UnseenAttached
    <2>4. ApartEmpty'
        BY <1>5, <1>7 DEF MapInv, ChannelInv, ApartEmpty
    <2> QED BY <2>1, <2>2, <2>3, <2>4 DEF ChannelInv
<1>17. CASE Has("forget", p)'
    <2>1. \A q \in Pipe \ {p} : SameTold(q)
        BY <1>8, <1>9 DEF SameTold
    <2> QED BY <1>15, <1>16, <1>17, <2>1, MapsTells
<1>18. CASE ~Has("forget", p)'
    <2>1. \A q \in Pipe : SameTold(q)
        BY <1>8, <1>9, <1>18 DEF SameTold
    <2> QED BY <1>15, <1>16, <2>1, MapsStutter
<1> QED BY <1>17, <1>18

\* OnMessage is given the message in the buffer, the oldest one nobody was given.
LEMMA FindsMessageGives ==
    ASSUME Host = {}, MapInv, TypeOK', FindsMessage(Server)
    PROVE  ChannelInv' /\ \E p \in Pipe : Ch!Gives(p)
<1>1. /\ Server \in Thread /\ TypeOK /\ PipesSafe /\ Busy(Server) /\ Is(Server, "result")
    BY Alone DEF FindsMessage, Is
<1>2. PICK p \in Pipe : p = On(Server)
    BY <1>1, Top DEF Is
<1>3. /\ Len(todo[Server]) = 1
      /\ todo[Server][1].step = "result" /\ todo[Server][1].pipe = p /\ p \notin reading
    <2>1. /\ todo[Server][1].step = "result" /\ todo[Server][1].pipe = p
          /\ 1 \in DOMAIN todo[Server]
        BY <1>1, <1>2, Top DEF Is, On, TypeOK
    <2> QED BY <1>1, <2>1 DEF PipesSafe, ReadsLast, ReadingQuiet, ReadStep
<1>4. buffer[p] \in Length /\ link[p] # NoClient /\ mCurrentState[p] = "READING"
    <2>1. Succeeded(p) /\ mCurrentState[p] = "READING"
        BY <1>2 DEF FindsMessage
    <2>2. ~Changing(p)
        BY <1>3 DEF Changing, ChangeStep, WorkStep
    <2>3. Agrees(p)
        BY <2>2 DEF MapInv, AloneInv, StackFits, Settled
    <2>4. CASE mPendingIO[p]
        BY <1>3, <2>1, <2>3, <2>4 DEF Agrees, ForClient, ForRead, Succeeded, Length
    <2>5. CASE ~mPendingIO[p]
        BY <2>1, <2>3, <2>5 DEF Agrees, ForMessage, Length
    <2> QED BY <2>1, <2>4, <2>5
<1>5. PICK f, g \in Call :
          f = Callback("message", p, mBytesRead'[p] = buffer[p]) /\ g = At("read", p)
    BY CallsAreCalls
<1>6. PICK calls \in Seq(Call) : calls = <<f, g>>
    BY ListsAreLists
<1>7. /\ calls # <<>> /\ Len(calls) = 2 /\ calls[1] = f /\ calls[2] = g
      /\ \A i \in 1 .. 2 : i = 1 \/ i = 2
      /\ 1 \in 1 .. 2 /\ 2 \in 1 .. 2
    BY <1>6
<1>8. /\ f.step = "callback" /\ f.event = "message" /\ f.pipe = p
      /\ g.step = "read" /\ g.pipe = p /\ g = At("read", f.pipe)
    BY <1>5 DEF Callback, At
<1>9. Goes(Server, calls) /\ UNCHANGED <<link, inq, buffer, mCurrentState, reading>>
    <2>1. /\ Goes(Server, <<Callback("message", p, mBytesRead'[p] = buffer[p])>>
                              \o <<At("read", p)>>)
          /\ UNCHANGED <<link, inq, buffer, mCurrentState, reading>>
        BY <1>2 DEF FindsMessage, AfterMessage, kernelVars
    <2>2. <<Callback("message", p, mBytesRead'[p] = buffer[p])>> \o <<At("read", p)>> = calls
        BY <1>5, <1>6, PairOfOnes
    <2> QED BY <2>1, <2>2
<1>10. /\ \A q \in Pipe : ~InOnMessage(q) /\ ~Has("forget", q) /\ ~Has("read", q)
       /\ \A q : ~AtTop("DisconnectNamedPipe", q)
    BY <1>1, <1>3, OnlyOne
<1>11. /\ \A q \in Pipe : /\ InOnMessage(q)' <=> q = p
                          /\ Has("read", q)' <=> q = p
                          /\ ~Has("forget", q)'
       /\ \A q : ~AtTop("DisconnectNamedPipe", q)' /\ ~AtTop("ReadFile", q)'
       /\ Len(todo'[Server]) = 2 /\ todo'[Server][1] = f /\ todo'[Server][2] = g
    <2>1. /\ \A s, q : /\ Has(s, q)' <=>
                             \E i \in 1 .. Len(calls) : calls[i].step = s /\ calls[i].pipe = q
                       /\ AtTop(s, q)' <=> calls[1].step = s /\ calls[1].pipe = q
          /\ \A q : InOnMessage(q)' <=>
                 \E i \in 1 .. Len(calls) :
                    calls[i].step = "callback" /\ calls[i].event = "message" /\ calls[i].pipe = q
          /\ Len(todo'[Server]) = Len(calls)
          /\ \A i \in 1 .. Len(calls) : todo'[Server][i] = calls[i]
        BY <1>1, <1>3, <1>7, <1>9, OnlyOneGoes
    <2> QED BY <1>7, <1>8, <2>1
<1>12. Unseen(p) /\ ~Unseen(p)' /\ \A q \in Pipe \ {p} : Unseen(q)' <=> Unseen(q)
    BY <1>4, <1>9, <1>10, <1>11 DEF Unseen, Length
<1>13. \A q \in Pipe : (Connected(q)' <=> Connected(q)) /\ Incoming(q)' = Incoming(q)
    BY <1>9, <1>10, <1>11 DEF Connected, AtTop, Incoming
<1>14. \A q \in Pipe : SamePeer(q) /\ SameTold(q) /\ GivenFrom(q) = "none"
    BY <1>9, <1>10, <1>11, <1>13 DEF SamePeer, SameTold, PeerOf, GivenFrom
<1>15. \A q \in Pipe \ {p} : SameSent(q) /\ SameGiven(q)
    BY <1>9, <1>10, <1>11, <1>12, <1>13 DEF SameSent, SameGiven, SentOn, GivenFrom
<1>16. SentOn(p) # <<>> /\ SentOn(p)' = Tail(SentOn(p)) /\ GivenFrom(p)' = Head(SentOn(p))
    <2>1. Connected(p)
        BY <1>4, <1>10 DEF Connected, AtTop
    <2>2. Incoming(p) \in Seq(Length)
        BY <1>1, IncomingType
    <2>3. SentOn(p) = <<buffer[p]>> \o Incoming(p) /\ SentOn(p)' = <<>> \o Incoming(p)
        BY <1>12, <1>13, <2>1 DEF SentOn
    <2>4. <<>> \o Incoming(p) = Incoming(p)
        BY <2>2, ConcatEmptySeq
    <2>5. PICK one \in Seq(Length) : one = <<buffer[p]>>
        <3>1. \A m \in Length : <<m>> \in Seq(Length)
            OBVIOUS
        <3> QED BY <1>4, <3>1
    <2>6. /\ one \o Incoming(p) # <<>> /\ Head(one \o Incoming(p)) = buffer[p]
          /\ Tail(one \o Incoming(p)) = Incoming(p)
        BY <1>4, <2>2, <2>5
    <2>7. GivenFrom(p)' = buffer[p]
        BY <1>9, <1>11 DEF GivenFrom
    <2> QED BY <2>3, <2>4, <2>5, <2>6, <2>7
<1>17. ChannelInv'
    <2>1. MessagesLast'
        <3>1. \A k \in 1 .. Len(todo'[Server]) : k = 1 \/ k = 2
            BY <1>11
        <3>2. todo'[Server][1 + 1] = At("read", todo'[Server][1].pipe)
            BY <1>8, <1>11
        <3> QED BY <1>8, <1>11, <3>1, <3>2 DEF MessagesLast
    <2>2. ReadsFresh'
        BY <1>9, <1>10, <1>11 DEF MapInv, ChannelInv, ReadsFresh
    <2>3. UnseenAttached' /\ ApartEmpty'
        BY <1>9, <1>12 DEF MapInv, ChannelInv, UnseenAttached, ApartEmpty
    <2> QED BY <2>1, <2>2, <2>3 DEF ChannelInv
<1> QED BY <1>14, <1>15, <1>16, <1>17, MapsGives

-----------------------------------------------------------------------------
(***************************************************************************)
(* The steps that end a connection                                         *)
(***************************************************************************)

\* DisconnectAndReconnect resets the state once the host has been told: from
\* here on nothing of the connection is given to the host.
LEMMA ForgetsEnds ==
    ASSUME Host = {}, MapInv, TypeOK', Forgets(Server)
    PROVE  ChannelInv' /\ \E p \in Pipe : Ch!Ends(p)
<1>1. /\ Server \in Thread /\ TypeOK /\ Paired(todo[Server]) /\ MessagesLast
      /\ Busy(Server) /\ Is(Server, "forget") /\ <<>> \in Seq(Call)
    BY Alone, ListsAreLists DEF MapInv, ChannelInv, Forgets, Is
<1>2. PICK p \in Pipe : p = On(Server)
    BY <1>1, Top DEF Is
<1>3. /\ Turns(Server, <<>>, 1) /\ 1 \in {0, 1} /\ 1 # 0 /\ 1 <= Len(todo[Server])
      /\ Head(todo[Server]) = todo[Server][1]
      /\ Len(todo[Server]) \in Nat \ {0} /\ 1 \in 1 .. Len(todo[Server])
      /\ DOMAIN todo[Server] = 1 .. Len(todo[Server])
      /\ Goes(Server, <<>>)
    <2>1. Goes(Server, <<>>)
        BY DEF Forgets, Returns
    <2>2. Len(todo[Server]) \in Nat \ {0} /\ Head(todo[Server]) = todo[Server][1]
        BY <1>1, Top
    <2>3. 1 <= Len(todo[Server]) /\ 1 \in 1 .. Len(todo[Server])
        BY <2>2
    <2>4. DOMAIN todo[Server] = 1 .. Len(todo[Server])
        BY <1>1 DEF TypeOK
    <2>5. Turns(Server, <<>>, 1)
        BY <1>1, <2>1, GoesTurns
    <2> QED BY <2>1, <2>2, <2>3, <2>4, <2>5
<1>4. Len(<<>>) = 0 /\ \A i \in 1 .. 0 : FALSE
    OBVIOUS
<1>5. /\ todo[Server][1].step = "forget" /\ todo[Server][1].pipe = p
      /\ Has("forget", p) /\ ~Is(Server, "DisconnectNamedPipe")
    BY <1>1, <1>2, <1>3 DEF Is, On, Has
<1>6. \A s, q : AtTop(s, q)' <=> s = "DisconnectNamedPipe" /\ q = p
    <2>1. 1 < Len(todo[Server]) /\ todo[Server][1 + 1] = At("DisconnectNamedPipe", p)
        BY <1>1, <1>3, <1>5 DEF Paired
    <2>2. Len(todo'[Server]) = 0 + Len(todo[Server]) - 1
        BY <1>3, <1>4 DEF Turns
    <2>3. todo'[Server] # <<>>
        BY <1>3, <1>4, <2>1, <2>2
    <2>4. Head(todo'[Server]) = todo[Server][1 + 1]
        BY <1>1, <1>3, <2>3, TopAfter DEF Busy
    <2> QED BY <2>1, <2>3, <2>4 DEF AtTop, Is, On, Busy, At
<1>7. /\ UNCHANGED <<link, inq, buffer, reading>>
      /\ mCurrentState' = [mCurrentState EXCEPT ![p] = "CONNECTING"]
    BY <1>2 DEF Forgets, StateAfterDisconnect, kernelVars
<1>8. /\ mCurrentState'[p] = "CONNECTING"
      /\ \A q \in Pipe \ {p} : mCurrentState'[q] = mCurrentState[q]
    BY <1>1, <1>7 DEF TypeOK
<1>9. ASSUME NEW q \in Pipe
      PROVE  /\ Has("read", q)' <=> Has("read", q)
             /\ InOnMessage(q)' <=> InOnMessage(q)
             /\ q # p => (Has("forget", q)' <=> Has("forget", q))
    <2>1. /\ todo[Server][1] \notin Of("read", q) /\ todo[Server][1] \notin Giving(q)
          /\ q # p => todo[Server][1] \notin Of("forget", q)
        BY <1>5 DEF Of, Giving
    <2>2. Holds(Of("read", q))' <=> Holds(Of("read", q))
        BY <1>1, <1>3, <1>4, <2>1, HoldsSame
    <2>3. Holds(Giving(q))' <=> Holds(Giving(q))
        BY <1>1, <1>3, <1>4, <2>1, HoldsSame
    <2>4. q # p => (Holds(Of("forget", q))' <=> Holds(Of("forget", q)))
        BY <1>1, <1>3, <1>4, <2>1, HoldsSame
    <2> QED BY <1>1, <2>2, <2>3, <2>4, HoldsMeans, HoldsMeansNext
<1>10. ~Unseen(p)' /\ \A q \in Pipe \ {p} : Unseen(q)' <=> Unseen(q)
    BY <1>7, <1>8, <1>9 DEF Unseen
<1>11. ~Connected(p)' /\ \A q \in Pipe \ {p} : Connected(q)' <=> Connected(q)
    BY <1>5, <1>6, <1>7 DEF Connected, AtTop
<1>12. PeerOf(p)' = NoClient /\ SentOn(p)' = <<>>
    BY <1>11 DEF PeerOf, SentOn
<1>13. \A q \in Pipe \ {p} : SamePeer(q) /\ SameSent(q) /\ SameTold(q)
    BY <1>7, <1>9, <1>10, <1>11 DEF SamePeer, SameSent, SameTold, PeerOf, SentOn, Incoming
<1>14. \A q \in Pipe : SameGiven(q)
    BY <1>7, <1>9 DEF SameGiven, GivenFrom
<1>15. ChannelInv'
    <2>1. MessagesLast'
        BY <1>1, <1>3, <1>4, MessagesLastAfter
    <2>2. ReadsFresh'
        BY <1>5, <1>6, <1>7, <1>8 DEF MapInv, ChannelInv, ReadsFresh, AtTop
    <2>3. UnseenAttached' /\ ApartEmpty'
        BY <1>7, <1>10 DEF MapInv, ChannelInv, UnseenAttached, ApartEmpty
    <2> QED BY <2>1, <2>2, <2>3 DEF ChannelInv
<1> QED BY <1>5, <1>12, <1>13, <1>14, <1>15, MapsEnds

\* DisconnectNamedPipe throws away what is left of the connection.
LEMMA DisconnectsStutters ==
    ASSUME Host = {}, MapInv, TypeOK', Disconnects(Server)
    PROVE  ChannelInv' /\ UNCHANGED Ch!vars
<1>1. /\ Server \in Thread /\ TypeOK /\ PipesSafe /\ MessagesLast
      /\ Busy(Server) /\ Is(Server, "DisconnectNamedPipe")
    BY Alone DEF MapInv, ChannelInv, Disconnects, Is
<1>2. PICK p \in Pipe : p = On(Server)
    BY <1>1, Top DEF Is
<1>3. PICK f \in Call : f = At("ConnectNamedPipe", p)
    BY CallsAreCalls
<1>4. PICK calls \in Seq(Call) : calls = <<f>>
    BY ListsAreLists
<1>5. /\ calls # <<>> /\ Len(calls) = 1 /\ calls[1] = f /\ \A i \in 1 .. 1 : i = 1
      /\ f.step = "ConnectNamedPipe"
    BY <1>3, <1>4 DEF At
<1>6. /\ Goes(Server, calls) /\ UNCHANGED <<buffer, mCurrentState>>
      /\ link' = [link EXCEPT ![p] = NoClient]
      /\ inq' = IF link[p] = NoClient THEN inq ELSE [inq EXCEPT ![link[p]] = <<>>]
      /\ reading' = reading \ {p}
    BY <1>2, <1>3, <1>4 DEF Disconnects, AfterDisconnect, fieldVars
<1>7. /\ Turns(Server, calls, 1) /\ 1 \in {0, 1} /\ 1 <= Len(todo[Server])
      /\ Head(todo[Server]) = todo[Server][1]
    <2>1. Len(todo[Server]) \in Nat \ {0} /\ Head(todo[Server]) = todo[Server][1]
        BY <1>1, Top
    <2>2. 1 <= Len(todo[Server])
        BY <2>1
    <2> QED BY <1>1, <1>6, <2>1, <2>2, GoesTurns
<1>8. todo[Server][1].step = "DisconnectNamedPipe"
    BY <1>1, <1>7 DEF Is
<1>9. /\ \A s, q : AtTop(s, q)' => s = "ConnectNamedPipe"
      /\ \A q : AtTop("DisconnectNamedPipe", q) <=> q = p
    <2>1. Head(todo'[Server]) = f
        BY <1>1, <1>5, <1>7, TopAfter
    <2> QED BY <1>1, <1>2, <1>5, <2>1 DEF AtTop, Is, On
<1>10. ASSUME NEW q \in Pipe
       PROVE  /\ Has("read", q)' <=> Has("read", q)
              /\ InOnMessage(q)' <=> InOnMessage(q)
              /\ SameTold(q)
    <2>1. /\ todo[Server][1] \notin Of("read", q) /\ todo[Server][1] \notin Giving(q)
          /\ todo[Server][1] \notin Of("forget", q)
          /\ f \notin Of("read", q) /\ f \notin Giving(q) /\ f \notin Of("forget", q)
        BY <1>5, <1>8 DEF Of, Giving
    <2>2. Holds(Of("read", q))' <=> Holds(Of("read", q))
        BY <1>1, <1>5, <1>7, <2>1, HoldsSame
    <2>3. Holds(Giving(q))' <=> Holds(Giving(q))
        BY <1>1, <1>5, <1>7, <2>1, HoldsSame
    <2>4. Holds(Of("forget", q))' <=> Holds(Of("forget", q))
        BY <1>1, <1>5, <1>7, <2>1, HoldsSame
    <2> QED BY <1>1, <2>2, <2>3, <2>4, HoldsMeans, HoldsMeansNext DEF SameTold
<1>11. /\ link'[p] = NoClient /\ \A q \in Pipe \ {p} : link'[q] = link[q]
       /\ \A c \in Client : inq'[c] = IF c = link[p] THEN <<>> ELSE inq[c]
    <2>1. \A c \in Client : inq'[c] = IF c = link[p] THEN <<>> ELSE inq[c]
        BY <1>1, <1>6, NamesAssumption DEF TypeOK
    <2> QED BY <1>1, <1>6, <2>1 DEF TypeOK
<1>12. ~Unseen(p) /\ ~Unseen(p)' /\ \A q \in Pipe : Unseen(q)' <=> Unseen(q)
    <2>1. mCurrentState[p] = "CONNECTING"
        BY <1>9 DEF MapInv, AloneInv, TopAgrees
    <2> QED BY <1>6, <1>10, <2>1 DEF Unseen
<1>13. ASSUME NEW q \in Pipe PROVE SamePeer(q) /\ SameSent(q) /\ SameGiven(q)
    <2>1. ~Connected(p) /\ ~Connected(p)'
        BY <1>9, <1>11 DEF Connected, AtTop
    <2>2. CASE q = p
        BY <1>6, <1>10, <2>1, <2>2
           DEF SamePeer, SameSent, SameGiven, PeerOf, SentOn, GivenFrom
    <2>3. CASE q # p
        <3>1. Connected(q)' <=> Connected(q)
            BY <1>9, <1>11, <2>3 DEF Connected, AtTop
        <3>2. link[q] \in Client \cup {NoClient} /\ (link[q] # NoClient => link[q] # link[p])
            BY <1>1, <2>3 DEF PipesSafe, LinksAgree, TypeOK
        <3>3. Incoming(q)' = Incoming(q)
            BY <1>11, <2>3, <3>2 DEF Incoming
        <3> QED BY <1>6, <1>10, <1>11, <1>12, <2>3, <3>1, <3>3
               DEF SamePeer, SameSent, SameGiven, PeerOf, SentOn, GivenFrom
    <2> QED BY <2>2, <2>3
<1>14. ChannelInv'
    <2>1. MessagesLast'
        BY <1>1, <1>5, <1>7, MessagesLastAfter
    <2>2. ReadsFresh'
        BY <1>6, <1>9 DEF MapInv, ChannelInv, ReadsFresh
    <2>3. UnseenAttached'
        BY <1>11, <1>12 DEF MapInv, ChannelInv, UnseenAttached
    <2>4. ApartEmpty'
        BY <1>11 DEF MapInv, ChannelInv, ApartEmpty
    <2> QED BY <2>1, <2>2, <2>3, <2>4 DEF ChannelInv
<1> QED BY <1>10, <1>13, <1>14, MapsStutter

-----------------------------------------------------------------------------
(***************************************************************************)
(* The clients                                                             *)
(***************************************************************************)

\* A client is attached to a pipe that waits for one.  It is not served before
\* a disconnection of the pipe that is already under way.
LEMMA ConnectAttaches ==
    ASSUME Host = {}, MapInv, TypeOK', NEW c \in Client, NEW p \in Pipe, ClientConnect(c, p)
    PROVE  ChannelInv' /\ (Ch!Attach(p, c) \/ UNCHANGED Ch!vars)
<1>1. Server \in Thread /\ TypeOK /\ PipesSafe /\ ChannelInv
    BY Alone DEF MapInv
<1>2. /\ link[p] = NoClient /\ \A q \in Pipe : link[q] # c
      /\ UNCHANGED <<inq, buffer, mCurrentState, reading, todo>>
      /\ link' = [link EXCEPT ![p] = c]
    BY <1>1 DEF ClientConnect, PipesSafe, LinksAgree, fieldVars
<1>3. link'[p] = c /\ \A q \in Pipe \ {p} : link'[q] = link[q]
    BY <1>1, <1>2 DEF TypeOK
<1>4. c # NoClient
    BY NamesAssumption
<1>5. /\ \A q \in Pipe : /\ InOnMessage(q)' <=> InOnMessage(q)
                         /\ Unseen(q)' <=> Unseen(q)
                         /\ SameTold(q)
      /\ \A s, q : AtTop(s, q)' <=> AtTop(s, q)
    BY <1>2 DEF InOnMessage, Unseen, Has, SameTold, AtTop, Is, On, Busy
<1>6. ~Unseen(p) /\ inq[c] = <<>>
    BY <1>1, <1>2 DEF ChannelInv, UnseenAttached, ApartEmpty
<1>7. PeerOf(p) = NoClient /\ SentOn(p) = <<>> /\ \A q \in Pipe : PeerOf(q) # c
    BY <1>2, <1>4 DEF PeerOf, SentOn, Connected
<1>8. \A q \in Pipe \ {p} : SamePeer(q) /\ SameSent(q)
    BY <1>2, <1>3, <1>5 DEF SamePeer, SameSent, PeerOf, SentOn, Connected, Incoming, AtTop
<1>9. SameSent(p)
    <2>1. Incoming(p)' = <<>> /\ ~Unseen(p)'
        BY <1>2, <1>3, <1>4, <1>5, <1>6 DEF Incoming
    <2>2. <<>> \o <<>> = <<>>
        OBVIOUS
    <2>3. SentOn(p)' = <<>>
        BY <2>1, <2>2 DEF SentOn
    <2> QED BY <1>7, <2>3 DEF SameSent
<1>10. \A q \in Pipe : SameGiven(q)
    BY <1>2, <1>5 DEF SameGiven, GivenFrom
<1>11. PeerOf(p)' = c \/ PeerOf(p)' = NoClient
    BY <1>3 DEF PeerOf
<1>12. ChannelInv'
    <2>1. MessagesLast' /\ ReadsFresh'
        BY <1>1, <1>2, <1>5 DEF ChannelInv, MessagesLast, ReadsFresh
    <2>2. UnseenAttached'
        BY <1>1, <1>3, <1>5, <1>6 DEF ChannelInv, UnseenAttached
    <2>3. ApartEmpty'
        BY <1>1, <1>2, <1>3, NamesAssumption DEF ChannelInv, ApartEmpty
    <2> QED BY <2>1, <2>2, <2>3 DEF ChannelInv
<1>13. CASE PeerOf(p)' = c
    BY <1>5, <1>7, <1>8, <1>9, <1>10, <1>12, <1>13, MapsAttach
<1>14. CASE PeerOf(p)' = NoClient
    <2>1. \A q \in Pipe : SamePeer(q)
        BY <1>7, <1>8, <1>14 DEF SamePeer
    <2> QED BY <1>5, <1>8, <1>9, <1>10, <1>12, <2>1, MapsStutter
<1> QED BY <1>11, <1>13, <1>14

\* What a client writes comes after all it has written, be it given to a read
\* that waits or left with the kernel.
LEMMA WriteSends ==
    ASSUME Host = {}, MapInv, TypeOK', NEW p \in Pipe, NEW m \in Length, ClientWrite(p, m)
    PROVE  ChannelInv' /\ (Ch!Write(p, m) \/ UNCHANGED Ch!vars)
<1>1. /\ Server \in Thread /\ TypeOK /\ PipesSafe /\ ChannelInv
      /\ DOMAIN todo[Server] = 1 .. Len(todo[Server])
    <2>1. Server \in Thread /\ TypeOK /\ PipesSafe /\ ChannelInv
        BY Alone DEF MapInv
    <2> QED BY <2>1 DEF TypeOK
<1>2. /\ link[p] \in Client /\ link[p] # NoClient /\ inq[link[p]] = <<>>
      /\ UNCHANGED <<link, mCurrentState, todo>>
    BY <1>1 DEF ClientWrite, Open, TypeOK
<1>3. /\ \A q \in Pipe : /\ InOnMessage(q)' <=> InOnMessage(q)
                         /\ Has("read", q)' <=> Has("read", q)
                         /\ Connected(q)' <=> Connected(q)
                         /\ SameTold(q) /\ SamePeer(q)
      /\ \A s, q : AtTop(s, q)' <=> AtTop(s, q)
    BY <1>2 DEF InOnMessage, Has, Connected, SameTold, SamePeer, PeerOf, AtTop, Is, On, Busy
<1>4. ASSUME NEW q \in Pipe \ {p} PROVE link[q] # link[p]
    BY <1>1, <1>2, <1>4 DEF PipesSafe, LinksAgree
<1>5. MessagesLast'
    BY <1>1, <1>2 DEF ChannelInv, MessagesLast
<1>6. CASE p \in reading
    <2>1. /\ buffer' = [buffer EXCEPT ![p] = m] /\ reading' = reading \ {p} /\ inq' = inq
        BY <1>6 DEF ClientWrite
    <2>2. buffer'[p] = m /\ \A q \in Pipe \ {p} : buffer'[q] = buffer[q]
        BY <1>1, <2>1 DEF TypeOK
    <2>3. /\ buffer[p] = "none" /\ m # "none"
          /\ mCurrentState[p] = "READING" \/ AtTop("DisconnectNamedPipe", p)
        BY <1>1, <1>6 DEF ChannelInv, ReadsFresh, Length
    <2>4. ~Has("read", p) /\ ~AtTop("ReadFile", p)
        <3>1. \A k \in DOMAIN todo[Server] :
                  todo[Server][k].step \in ReadStep => todo[Server][k].pipe # p
            BY <1>1, <1>6 DEF PipesSafe, ReadingQuiet
        <3>2. ~Has("read", p)
            BY <3>1 DEF Has, ReadStep
        <3>3. ~AtTop("ReadFile", p)
            <4>1. Busy(Server) => 1 \in DOMAIN todo[Server] /\ Head(todo[Server]) = todo[Server][1]
                BY <1>1, Top DEF TypeOK
            <4> QED BY <3>1, <4>1 DEF AtTop, Is, On, ReadStep
        <3> QED BY <3>2, <3>3
    <2>5. ~InOnMessage(p)
        <3> SUFFICES ASSUME InOnMessage(p) PROVE FALSE
            OBVIOUS
        <3>1. PICK k \in 1 .. Len(todo[Server]) :
                  /\ todo[Server][k].step = "callback" /\ todo[Server][k].event = "message"
                  /\ todo[Server][k].pipe = p
            BY <1>1 DEF InOnMessage
        <3>2. k + 1 = Len(todo[Server]) /\ todo[Server][k + 1] = At("read", p)
            BY <1>1, <3>1 DEF ChannelInv, MessagesLast
        <3>3. k + 1 \in 1 .. Len(todo[Server])
            BY <3>2
        <3> QED BY <1>1, <2>4, <3>2, <3>3 DEF Has, At
    <2>6. /\ \A q \in Pipe : Incoming(q)' = Incoming(q) /\ Incoming(p) = <<>>
          /\ \A q \in Pipe \ {p} : Unseen(q)' <=> Unseen(q)
          /\ ~Unseen(p)
        BY <1>2, <1>3, <2>1, <2>2, <2>3 DEF Incoming, Unseen
    <2>7. \A q \in Pipe : SameGiven(q)
        BY <1>3, <2>2, <2>5 DEF SameGiven, GivenFrom
    <2>8. \A q \in Pipe \ {p} : SameSent(q)
        BY <1>3, <2>2, <2>6 DEF SameSent, SentOn
    <2>9. ChannelInv'
        <3>1. ReadsFresh'
            BY <1>1, <1>2, <1>3, <2>1, <2>2, <2>4 DEF ChannelInv, ReadsFresh
        <3>2. UnseenAttached' /\ ApartEmpty'
            BY <1>1, <1>2, <2>1, <2>6 DEF ChannelInv, UnseenAttached, ApartEmpty
        <3> QED BY <1>5, <3>1, <3>2 DEF ChannelInv
    <2>10. CASE Connected(p)
        <3>1. Unseen(p)'
            BY <1>2, <1>3, <2>2, <2>3, <2>4, <2>10 DEF Unseen, Connected, AtTop
        <3>2. SentOn(p) = <<>> \o <<>> /\ SentOn(p)' = <<m>> \o <<>>
            BY <1>3, <2>2, <2>6, <2>10, <3>1 DEF SentOn
        <3>3. <<m>> \o <<>> = Append(<<>> \o <<>>, m)
            OBVIOUS
        <3>4. PeerOf(p) # NoClient
            BY <1>2, <2>10 DEF PeerOf
        <3> QED BY <1>3, <2>7, <2>8, <2>9, <3>2, <3>3, <3>4, MapsWrite
    <2>11. CASE ~Connected(p)
        <3>1. SameSent(p)
            BY <1>3, <2>11 DEF SameSent, SentOn
        <3> QED BY <1>3, <2>7, <2>8, <2>9, <3>1, MapsStutter
    <2> QED BY <2>10, <2>11
<1>7. CASE p \notin reading
    <2>1. inq' = [inq EXCEPT ![link[p]] = <<m>>] /\ buffer' = buffer /\ reading' = reading
        BY <1>7 DEF ClientWrite
    <2>2. inq'[link[p]] = <<m>> /\ \A c \in Client \ {link[p]} : inq'[c] = inq[c]
        BY <1>1, <1>2, <2>1 DEF TypeOK
    <2>3. \A q \in Pipe : (Unseen(q)' <=> Unseen(q)) /\ SameGiven(q)
        BY <1>2, <1>3, <2>1 DEF Unseen, SameGiven, GivenFrom
    <2>4. Incoming(p) = <<>> /\ Incoming(p)' = <<m>>
        BY <1>2, <2>2 DEF Incoming
    <2>5. ASSUME NEW q \in Pipe \ {p} PROVE SameSent(q)
        <3>1. link[q] \in Client \cup {NoClient}
            BY <1>1 DEF TypeOK
        <3>2. Incoming(q)' = Incoming(q)
            BY <1>2, <1>4, <2>2, <2>5, <3>1 DEF Incoming
        <3> QED BY <1>3, <2>1, <2>3, <3>2 DEF SameSent, SentOn
    <2>6. ChannelInv'
        <3>1. ReadsFresh'
            BY <1>1, <1>2, <1>3, <2>1 DEF ChannelInv, ReadsFresh
        <3>2. UnseenAttached' /\ ApartEmpty'
            BY <1>1, <1>2, <2>2, <2>3 DEF ChannelInv, UnseenAttached, ApartEmpty
        <3> QED BY <1>5, <3>1, <3>2 DEF ChannelInv
    <2>7. CASE Connected(p)
        <3>1. PICK first \in Seq(Length) : first = IF Unseen(p) THEN <<buffer[p]>> ELSE <<>>
            <4>1. \A n \in Length : <<n>> \in Seq(Length)
                OBVIOUS
            <4>2. <<>> \in Seq(Length) /\ (Unseen(p) => buffer[p] \in Length)
                BY <1>1 DEF Unseen, TypeOK
            <4> QED BY <4>1, <4>2
        <3>2. SentOn(p) = first \o <<>> /\ SentOn(p)' = first \o <<m>>
            BY <1>3, <2>1, <2>3, <2>4, <2>7, <3>1 DEF SentOn
        <3>3. first \o <<m>> = Append(first \o <<>>, m)
            BY <3>1
        <3>4. PeerOf(p) # NoClient
            BY <1>2, <2>7 DEF PeerOf
        <3> QED BY <1>3, <2>3, <2>5, <2>6, <3>2, <3>3, <3>4, MapsWrite
    <2>8. CASE ~Connected(p)
        <3>1. SameSent(p)
            BY <1>3, <2>8 DEF SameSent, SentOn
        <3> QED BY <1>3, <2>3, <2>5, <2>6, <3>1, MapsStutter
    <2> QED BY <2>7, <2>8
<1> QED BY <1>6, <1>7

\* Reading, and closing one's end, changes nothing of what was sent.
LEMMA ClientRestStutters ==
    ASSUME Host = {}, MapInv, TypeOK',
           \/ \E c \in Client : ClientRead(c)
           \/ \E p \in Pipe : ClientClose(p)
    PROVE  ChannelInv' /\ UNCHANGED Ch!vars
<1>1. ChannelInv
    BY DEF MapInv
<1>2. UNCHANGED <<link, inq, buffer, mCurrentState, todo>> /\ reading' \subseteq reading
    BY DEF ClientRead, ClientClose, fieldVars
<1>3. /\ \A q \in Pipe : /\ InOnMessage(q)' <=> InOnMessage(q)
                         /\ Unseen(q)' <=> Unseen(q)
                         /\ Connected(q)' <=> Connected(q)
                         /\ SameTold(q)
      /\ \A s, q : AtTop(s, q)' <=> AtTop(s, q)
    BY <1>2 DEF InOnMessage, Unseen, Has, Connected, SameTold, AtTop, Is, On, Busy
<1>4. \A q \in Pipe : SamePeer(q) /\ SameSent(q) /\ SameGiven(q)
    BY <1>2, <1>3 DEF SamePeer, SameSent, SameGiven, PeerOf, SentOn, GivenFrom, Incoming
<1>5. ChannelInv'
    BY <1>1, <1>2, <1>3
       DEF ChannelInv, MessagesLast, ReadsFresh, UnseenAttached, ApartEmpty
<1> QED BY <1>3, <1>4, <1>5, MapsStutter

-----------------------------------------------------------------------------
(***************************************************************************)
(* Every step, and the server from its start                               *)
(***************************************************************************)

\* The server starts as Channel does, and with the invariant.
LEMMA ChannelInit == ASSUME Host = {}, Init PROVE ChannelInv /\ Ch!Init
<1>1. /\ Server \in Thread /\ todo[Server] = <<>> /\ DOMAIN <<>> = {}
      /\ Len(<<>>) = 0 /\ \A k \in 1 .. 0 : FALSE
    BY DEF Init, Thread
<1>2. /\ \A s, q : ~Has(s, q) /\ ~AtTop(s, q)
      /\ \A q : ~InOnMessage(q)
    BY <1>1 DEF Has, AtTop, Is, Busy, InOnMessage
<1>3. \A p \in Pipe : ~Unseen(p) /\ ~Connected(p)
    BY DEF Init, Unseen, Connected
<1>4. ChannelInv
    <2>1. MessagesLast
        BY <1>1 DEF MessagesLast
    <2>2. ReadsFresh
        BY <1>2 DEF Init, ReadsFresh
    <2>3. UnseenAttached /\ ApartEmpty
        BY <1>3 DEF Init, UnseenAttached, ApartEmpty
    <2> QED BY <2>1, <2>2, <2>3 DEF ChannelInv
<1>5. \A p \in Pipe : /\ PeerOf(p) = NoClient /\ SentOn(p) = <<>>
                      /\ GivenFrom(p) = "none" /\ ~Has("forget", p)
    BY <1>2, <1>3 DEF PeerOf, SentOn, GivenFrom
<1> QED BY <1>4, <1>5, MapsInit

\* Every step of the server keeps the invariant, and is one of Channel or
\* changes nothing there.
LEMMA StepMaps ==
    ASSUME Host = {}, MapInv, TypeOK', [Next]_vars
    PROVE  ChannelInv' /\ (Ch!Next \/ UNCHANGED Ch!vars)
<1>1. Server \in Thread /\ \A t \in Thread : t = Server
    BY Alone
<1>2. ASSUME NEW p \in Pipe,
             \/ \E c \in Client : Ch!Attach(p, c)
             \/ \E m \in Length : Ch!Write(p, m)
             \/ Ch!Gives(p) \/ Ch!TakesBack(p) \/ Ch!Tells(p) \/ Ch!Ends(p)
      PROVE  Ch!Next
    BY <1>2 DEF Ch!Next
<1>3. CASE ClientNext
    <2>1. ASSUME NEW c \in Client, NEW p \in Pipe, ClientConnect(c, p)
          PROVE  ChannelInv' /\ (Ch!Next \/ UNCHANGED Ch!vars)
        BY <1>2, <2>1, ConnectAttaches
    <2>2. ASSUME NEW p \in Pipe, NEW m \in Sends, ClientWrite(p, m)
          PROVE  ChannelInv' /\ (Ch!Next \/ UNCHANGED Ch!vars)
        <3>1. m \in Length
            BY SendsAssumption
        <3> QED BY <1>2, <2>2, <3>1, WriteSends
    <2> QED BY <1>3, <2>1, <2>2, ClientRestStutters DEF ClientNext
<1>4. CASE HostNext
    <2>1. ASSUME NEW p \in Pipe, CallsDisconnect(Server, p)
          PROVE  ChannelInv' /\ (Ch!Next \/ UNCHANGED Ch!vars)
        BY <1>2, <2>1, DisconnectTells
    <2> QED BY <1>1, <1>4, <2>1, SendsStutter DEF HostNext
<1>5. CASE \E p \in Pipe : Wakes(p)
    BY <1>5, WakesStutters
<1>6. CASE Continues(Server)
    <2>1. CASE FindsFailure(Server) \/ ReadFails(Server) \/ WriteFails(Server)
        BY <1>2, <2>1, FailureTells
    <2>2. CASE FindsMessage(Server)
        BY <1>2, <2>2, FindsMessageGives
    <2>3. CASE ReadSucceeds(Server)
        BY <1>2, <2>3, ReadSucceedsMaps
    <2>4. CASE Forgets(Server)
        BY <1>2, <2>4, ForgetsEnds
    <2>5. CASE FindsClient(Server) \/ BeginsRead(Server) \/ Disconnects(Server)
                   \/ DisconnectFails(Server)
        BY <2>5, FindsClientStutters, BeginsReadStutters, DisconnectsStutters, NeverDown
    <2>6. CASE \/ ReadPends(Server) \/ NotesSync(Server) \/ NotesPending(Server)
               \/ Connects(Server) \/ Locks(Server) \/ WritePends(Server)
               \/ WriteSucceeds(Server) \/ BroadcastsNext(Server) \/ BroadcastEnds(Server)
        BY <2>6, InsideStutters
    <2> QED BY <1>6, <2>1, <2>2, <2>3, <2>4, <2>5, <2>6 DEF Continues
<1>7. CASE CallbackReturns(Server)
    BY <1>2, <1>7, CallbackReturnsMaps
<1>8. CASE UNCHANGED vars
    <2>1. UNCHANGED <<link, inq, buffer, mCurrentState, reading, todo>>
        BY <1>8 DEF vars, kernelVars, fieldVars
    <2>2. /\ \A q \in Pipe : /\ InOnMessage(q)' <=> InOnMessage(q)
                             /\ Unseen(q)' <=> Unseen(q)
                             /\ Connected(q)' <=> Connected(q)
                             /\ SameTold(q)
          /\ \A s, q : AtTop(s, q)' <=> AtTop(s, q)
        BY <2>1 DEF InOnMessage, Unseen, Has, Connected, SameTold, AtTop, Is, On, Busy
    <2>3. \A q \in Pipe : SamePeer(q) /\ SameSent(q) /\ SameGiven(q)
        BY <2>1, <2>2 DEF SamePeer, SameSent, SameGiven, PeerOf, SentOn, GivenFrom, Incoming
    <2>4. ChannelInv'
        BY <2>1, <2>2
           DEF MapInv, ChannelInv, MessagesLast, ReadsFresh, UnseenAttached, ApartEmpty
    <2> QED BY <2>2, <2>3, <2>4, MapsStutter
<1>9. ASSUME NEW t \in Thread, Continues(t) \/ CallbackReturns(t)
      PROVE  Continues(Server) \/ CallbackReturns(Server)
    BY <1>1, <1>9
<1> QED BY <1>3, <1>4, <1>5, <1>6, <1>7, <1>8, <1>9 DEF Next

\* The invariant holds in every reachable state.
LEMMA MapInvHolds == ASSUME Host = {} PROVE Spec => []MapInv
<1>1. Init => ChannelInv
    BY ChannelInit
<1>2. TypeOK /\ [Next]_vars => TypeOK'
    BY TypeStep
<1>3. IInv /\ AloneInv /\ ChannelInv /\ [Next]_vars => ChannelInv'
    BY <1>2, StepMaps DEF MapInv, IInv
<1>4. IInv /\ AloneInv /\ ChannelInv => MapInv
    BY DEF MapInv
<1> QED BY <1>1, <1>3, <1>4, IInvHolds, AloneHolds, PTL DEF Spec

\* CNamedPipeServer.cpp:86-269: a host that calls the server in callbacks only
\* is given what each client wrote, in order, each message once and none left
\* out, until the connection ends; it is told of the end before, and what
\* nobody was given by then never reaches it as a message of the next client.
THEOREM ImplementsChannelHolds == ASSUME Host = {} PROVE Spec => ImplementsChannel
<1>1. Init => Ch!Init
    BY ChannelInit
<1>2. TypeOK /\ [Next]_vars => TypeOK'
    BY TypeStep
<1>3. MapInv /\ [Next]_vars => [Ch!Next]_Ch!vars
    <2> SUFFICES ASSUME MapInv, [Next]_vars PROVE Ch!Next \/ UNCHANGED Ch!vars
        BY DEF Ch!vars
    <2>1. TypeOK'
        BY <1>2 DEF MapInv, IInv
    <2> QED BY <2>1, StepMaps
<1> QED BY <1>1, <1>3, MapInvHolds, PTL DEF Spec, ImplementsChannel, Ch!Spec
=============================================================================
