-------------------------- MODULE PipeServerProofs --------------------------
(***************************************************************************)
(* PipeServer: for any number of pipes, clients and threads of the host,   *)
(* whatever they call from wherever, a pipe that is disconnected is        *)
(* connected again by one thread, no pipe is lost to the event loop, its   *)
(* OVERLAPPED serves one operation at a time, and m_mutexWrite is never    *)
(* held over a callback.  If the host calls in callbacks only, the fields  *)
(* of each pipe tell what is under way on it, and messages arrive whole.   *)
(***************************************************************************)
EXTENDS PipeServer, SequenceTheorems, TLAPS

-----------------------------------------------------------------------------
(***************************************************************************)
(* Stacks                                                                  *)
(***************************************************************************)

\* What At and Callback build is a call.
LEMMA CallsAreCalls ==
    /\ \A p \in Pipe :
        \A s \in {"result", "read", "ReadFile", "forget", "DisconnectNamedPipe",
                  "ConnectNamedPipe", "sync", "pend", "lock", "WriteFile", "wait"} :
            At(s, p) \in Call
    /\ \A p \in 0 .. NPipes : At("broadcast", p) \in Call
    /\ \A p \in Pipe, e \in {"connect", "message", "disconnect"}, w \in BOOLEAN :
            Callback(e, p, w) \in Call
BY DEF Call, At, Callback

\* The call at the top of a stack, as its first element, and its pipe.
LEMMA Top ==
    ASSUME TypeOK, NEW t \in Thread, Busy(t)
    PROVE  /\ Len(todo[t]) \in Nat \ {0}
           /\ Head(todo[t]) = todo[t][1] /\ todo[t][1] \in Call
           /\ ~Is(t, "broadcast") => On(t) \in Pipe
           /\ Is(t, "broadcast") => On(t) \in 0 .. NPipes
<1>1. todo[t] \in Seq(Call) /\ todo[t] # <<>>
    BY DEF TypeOK, Busy
<1>2. Len(todo[t]) \in Nat \ {0}
    BY <1>1, EmptySeq
<1>3. Head(todo[t]) = todo[t][1] /\ todo[t][1] \in Call
    BY <1>1, <1>2
<1> QED BY <1>2, <1>3 DEF Is, On, Call, Busy

\* In a step of t, calls take the place of the d calls at its top.
Turns(t, calls, d) ==
    /\ \A u \in Thread \ {t} : todo'[u] = todo[u]
    /\ Len(todo'[t]) = Len(calls) + Len(todo[t]) - d
    /\ \A i \in 1 .. Len(calls) : todo'[t][i] = calls[i]
    /\ \A k \in 1 + d .. Len(todo[t]) : todo'[t][Len(calls) + k - d] = todo[t][k]

\* A call that goes on with others takes itself off the stack.
LEMMA GoesTurns ==
    ASSUME TypeOK, NEW t \in Thread, Busy(t), NEW calls \in Seq(Call), Goes(t, calls)
    PROVE  /\ todo' \in [Thread -> Seq(Call)]
           /\ Turns(t, calls, 1)
<1>1. todo[t] \in Seq(Call) /\ todo[t] # <<>> /\ todo \in [Thread -> Seq(Call)]
    BY DEF TypeOK, Busy
<1> DEFINE rest == Tail(todo[t])
<1>2. /\ rest \in Seq(Call) /\ Len(rest) = Len(todo[t]) - 1
      /\ \A i \in 1 .. Len(rest) : rest[i] = todo[t][i + 1]
    BY <1>1, HeadTailProperties
<1>3. /\ todo'[t] = calls \o rest
      /\ \A u \in Thread \ {t} : todo'[u] = todo[u]
      /\ calls \o rest \in Seq(Call)
    BY <1>1, <1>2 DEF Goes
<1>4. todo' \in [Thread -> Seq(Call)]
    BY <1>1, <1>3 DEF Goes
<1>5. /\ Len(calls) \in Nat /\ Len(todo[t]) \in Nat
      /\ Len(calls \o rest) = Len(calls) + Len(rest)
      /\ \A i \in 1 .. Len(calls) + Len(rest) :
            (calls \o rest)[i] = IF i <= Len(calls) THEN calls[i] ELSE rest[i - Len(calls)]
    BY <1>1, <1>2, ConcatProperties
<1> HIDE DEF rest
<1>6. ASSUME NEW k \in 2 .. Len(todo[t])
      PROVE  todo'[t][Len(calls) + k - 1] = todo[t][k]
    <2>1. /\ Len(calls) + k - 1 \in 1 .. Len(calls) + Len(rest)
          /\ ~(Len(calls) + k - 1 <= Len(calls))
          /\ Len(calls) + k - 1 - Len(calls) = k - 1
          /\ k - 1 \in 1 .. Len(rest) /\ k - 1 + 1 = k
        BY <1>2, <1>5
    <2>2. todo'[t][Len(calls) + k - 1] = rest[k - 1]
        BY SMTT(30), <2>1, <1>3, <1>5
    <2> QED BY <2>1, <2>2, <1>2
<1>7. \A i \in 1 .. Len(calls) : todo'[t][i] = calls[i]
    BY <1>2, <1>3, <1>5
<1>8. Len(todo'[t]) = Len(calls) + Len(todo[t]) - 1
    BY <1>2, <1>3, <1>5
<1> QED BY <1>3, <1>4, <1>6, <1>7, <1>8 DEF Turns

\* A call of the host comes on top of what is there.
LEMMA PushTurns ==
    ASSUME TypeOK, NEW t \in Thread, NEW calls \in Seq(Call),
           todo' = [todo EXCEPT ![t] = calls \o @]
    PROVE  /\ todo' \in [Thread -> Seq(Call)]
           /\ Turns(t, calls, 0)
<1>1. todo[t] \in Seq(Call) /\ todo \in [Thread -> Seq(Call)]
    BY DEF TypeOK
<1>2. /\ calls \o todo[t] \in Seq(Call)
      /\ Len(calls) \in Nat /\ Len(todo[t]) \in Nat
      /\ Len(calls \o todo[t]) = Len(calls) + Len(todo[t])
      /\ \A i \in 1 .. Len(calls) + Len(todo[t]) :
            (calls \o todo[t])[i] =
                IF i <= Len(calls) THEN calls[i] ELSE todo[t][i - Len(calls)]
    BY <1>1, ConcatProperties
<1>3. /\ todo'[t] = calls \o todo[t]
      /\ \A u \in Thread \ {t} : todo'[u] = todo[u]
    BY <1>1
<1>4. todo' \in [Thread -> Seq(Call)]
    BY <1>1, <1>2
<1>5. ASSUME NEW k \in 1 .. Len(todo[t])
      PROVE  todo'[t][Len(calls) + k - 0] = todo[t][k]
    <2>1. /\ Len(calls) + k - 0 \in 1 .. Len(calls) + Len(todo[t])
          /\ ~(Len(calls) + k - 0 <= Len(calls))
          /\ Len(calls) + k - 0 - Len(calls) = k
        BY <1>2
    <2> QED BY <2>1, <1>2, <1>3
<1> QED BY <1>2, <1>3, <1>4, <1>5 DEF Turns

\* One call followed by another.
LEMMA PairOfOnes == \A f, g : <<f>> \o <<g>> = <<f, g>>
<1> TAKE f, g
<1> DEFINE both == <<f>> \o <<g>>
<1>1. <<f>> \in Seq({f, g}) /\ <<g>> \in Seq({f, g}) /\ <<f, g>> \in Seq({f, g})
    OBVIOUS
<1>2. /\ both \in Seq({f, g}) /\ Len(both) = 2
      /\ both[1] = f /\ both[2] = g
    BY <1>1, ConcatProperties
<1> HIDE DEF both
<1>3. Len(<<f, g>>) = 2 /\ <<f, g>>[1] = f /\ <<f, g>>[2] = g
    OBVIOUS
<1>4. \A i \in 1 .. 2 : both[i] = <<f, g>>[i]
    BY <1>2, <1>3
<1> QED BY <1>1, <1>2, <1>3, <1>4, SeqEqual DEF both

\* The lists of calls a step can leave behind.
LEMMA ListsAreLists ==
    /\ <<>> \in Seq(Call)
    /\ \A f \in Call : <<f>> \in Seq(Call)
    /\ \A f, g \in Call : <<f, g>> \in Seq(Call)
    /\ \A p \in Pipe : DisconnectAndReconnect(p) \in Seq(Call)
<1>1. \A f, g, h \in Call : <<f, g, h>> \in Seq(Call)
    OBVIOUS
<1>2. \A p \in Pipe : DisconnectAndReconnect(p) \in Seq(Call)
    BY <1>1, CallsAreCalls DEF DisconnectAndReconnect
<1>3. \A f \in Call : <<f>> \in Seq(Call)
    OBVIOUS
<1>4. \A f, g \in Call : <<f, g>> \in Seq(Call)
    OBVIOUS
<1> QED BY <1>2, <1>3, <1>4

-----------------------------------------------------------------------------
(***************************************************************************)
(* Type correctness                                                        *)
(***************************************************************************)

\* The server starts in a state of the right type.
LEMMA InitType == Init => TypeOK
<1> SUFFICES ASSUME Init PROVE TypeOK
    OBVIOUS
<1>1. 0 \in 0 .. OutCap
    BY BoundsAssumption
<1>2. outq \in [Client -> 0 .. OutCap]
    BY <1>1 DEF Init
<1>3. Server \in Thread
    BY DEF Thread
<1> QED BY <1>2, <1>3 DEF Init, TypeOK, Length

\* A message that has arrived on a pipe.
LEMMA IncomingType ==
    ASSUME TypeOK, NEW p \in Pipe
    PROVE  /\ Incoming(p) \in Seq(Length)
           /\ Incoming(p) # <<>> => link[p] \in Client /\ Head(Incoming(p)) \in Length
                                       /\ Tail(Incoming(p)) \in Seq(Length)
<1>1. CASE link[p] = NoClient
    BY <1>1 DEF Incoming
<1>2. CASE link[p] # NoClient
    <2>1. link[p] \in Client /\ Incoming(p) = inq[link[p]] /\ inq[link[p]] \in Seq(Length)
        BY <1>2 DEF TypeOK, Incoming
    <2> QED BY <2>1
<1> QED BY <1>1, <1>2

\* A step of the kernel or of a client keeps the type.
LEMMA ClientType == TypeOK /\ ClientNext => TypeOK'
<1> SUFFICES ASSUME TypeOK, ClientNext PROVE TypeOK'
    OBVIOUS
<1>1. ASSUME NEW c \in Client, NEW p \in Pipe, ClientConnect(c, p) PROVE TypeOK'
    BY <1>1 DEF TypeOK, ClientConnect, Completes, ioVars, fieldVars
<1>2. ASSUME NEW p \in Pipe, NEW m \in Sends, ClientWrite(p, m) PROVE TypeOK'
    <2>1. m \in Length
        BY SendsAssumption
    <2>2. CASE p \in reading
        <3>1. overlap' \in [Pipe -> {"pending", "connected", "failed"} \cup Length]
            <4>1. (IF m = "long" THEN "failed" ELSE m) \in {"failed"} \cup Length
                BY <2>1
            <4>2. overlap' = [overlap EXCEPT ![p] = IF m = "long" THEN "failed" ELSE m]
                BY <1>2, <2>2 DEF ClientWrite, Completes
            <4>3. overlap \in [Pipe -> {"pending", "connected", "failed"} \cup Length]
                BY DEF TypeOK
            <4> QED BY <4>1, <4>2, <4>3
        <3>2. buffer' \in [Pipe -> Length \cup {"none"}] /\ event' \in [Pipe -> BOOLEAN]
            BY <1>2, <2>1, <2>2 DEF TypeOK, ClientWrite, Completes
        <3> QED BY <1>2, <2>2, <3>1, <3>2 DEF TypeOK, ClientWrite
    <2>3. CASE p \notin reading
        <3>1. <<m>> \in Seq(Length)
            BY <2>1
        <3>2. inq' \in [Client -> Seq(Length)]
            BY <1>2, <2>3, <3>1 DEF TypeOK, ClientWrite
        <3> QED BY <1>2, <2>3, <3>2 DEF TypeOK, ClientWrite, ioVars
    <2> QED BY <2>2, <2>3
<1>3. ASSUME NEW c \in Client, ClientRead(c) PROVE TypeOK'
    <2>1. outq[c] - 1 \in 0 .. OutCap
        BY <1>3, BoundsAssumption DEF TypeOK, ClientRead
    <2>2. outq' \in [Client -> 0 .. OutCap]
        BY <1>3, <2>1 DEF TypeOK, ClientRead
    <2> QED BY <1>3, <2>2 DEF TypeOK, ClientRead, ioVars, fieldVars
<1>4. ASSUME NEW p \in Pipe, ClientClose(p) PROVE TypeOK'
    <2>1. link[p] \in Client
        BY <1>4 DEF TypeOK, ClientClose, Open
    <2>2. outq' \in [Client -> 0 .. OutCap]
        <3>1. 0 \in 0 .. OutCap
            BY BoundsAssumption
        <3> QED BY <1>4, <2>1, <3>1 DEF TypeOK, ClientClose
    <2>3. overlap' \in [Pipe -> {"pending", "connected", "failed"} \cup Length]
            /\ event' \in [Pipe -> BOOLEAN]
        BY <1>4 DEF TypeOK, ClientClose, Completes, ioVars
    <2> QED BY <1>4, <2>1, <2>2, <2>3 DEF TypeOK, ClientClose, fieldVars
<1> QED BY <1>1, <1>2, <1>3, <1>4 DEF ClientNext

\* The end of a thread of the host keeps the type.
LEMMA HostExitsType == ASSUME TypeOK, NEW h \in Host, HostExits(h) PROVE TypeOK'
<1>1. /\ connecting' \in [Pipe -> Thread \cup {"nobody"}]
      /\ overlap' \in [Pipe -> {"pending", "connected", "failed"} \cup Length]
      /\ event' \in [Pipe -> BOOLEAN]
    BY DEF TypeOK, HostExits
<1> QED BY <1>1 DEF TypeOK, HostExits, fieldVars

\* So does a step of a thread within the server, or in a callback.
LEMMA ThreadType ==
    ASSUME TypeOK, NEW t \in Thread, Continues(t) \/ CallbackReturns(t)
    PROVE  TypeOK'
<1> DEFINE p == On(t)
<1>a. ASSUME NEW calls \in Seq(Call), Busy(t), Goes(t, calls)
      PROVE  todo' \in [Thread -> Seq(Call)]
    BY <1>a, GoesTurns
<1>b. \A s : Is(t, s) => Busy(t) /\ (s # "broadcast" => p \in Pipe)
                                 /\ (s = "broadcast" => p \in 0 .. NPipes)
    BY Top DEF Is
<1> HIDE DEF p
<1>1. CASE FindsFailure(t)
    <2>1. p \in Pipe /\ Busy(t) /\ Goes(t, DisconnectAndReconnect(p))
        BY <1>1, <1>b DEF FindsFailure, p
    <2>2. todo' \in [Thread -> Seq(Call)]
        BY <2>1, <1>a, ListsAreLists, CallsAreCalls
    <2> QED BY <1>1, <2>1, <2>2 DEF FindsFailure, TypeOK, p, kernelVars, ioVars, fieldVars
<1>2. CASE FindsClient(t)
    <2>1. p \in Pipe /\ Busy(t) /\ Goes(t, <<Callback("connect", p, TRUE), At("read", p)>>)
        BY <1>2, <1>b DEF FindsClient, p
    <2>2. todo' \in [Thread -> Seq(Call)]
        BY <2>1, <1>a, ListsAreLists, CallsAreCalls
    <2> QED BY <1>2, <2>1, <2>2 DEF FindsClient, TypeOK, p, kernelVars, ioVars, fieldVars
<1>3. CASE FindsMessage(t)
    <2> DEFINE whole == mBytesRead'[p] = buffer[p]
    <2>1. p \in Pipe /\ Busy(t) /\ Succeeded(p)
        BY <1>3, <1>b DEF FindsMessage, p
    <2>2. <<Callback("message", p, whole)>> \o AfterMessage(p)
              = <<Callback("message", p, whole), At("read", p)>>
        BY PairOfOnes DEF AfterMessage
    <2>3. Goes(t, <<Callback("message", p, whole), At("read", p)>>)
        BY <1>3, <2>2 DEF FindsMessage, p
    <2>4. whole \in BOOLEAN
        OBVIOUS
    <2> HIDE DEF whole
    <2>5. Callback("message", p, whole) \in Call /\ At("read", p) \in Call
        BY <2>1, <2>4, CallsAreCalls
    <2>6. todo' \in [Thread -> Seq(Call)]
        BY <2>1, <2>3, <2>5, <1>a, ListsAreLists
    <2>7. mBytesRead' \in [Pipe -> Length]
        <3>1. CASE mPendingIO[p]
            <4>1. Transferred(p) \in Length
                BY <2>1, <3>1 DEF Succeeded, Transferred, Length
            <4> QED BY <4>1, <3>1, <1>3 DEF FindsMessage, TypeOK, p
        <3>2. CASE ~mPendingIO[p]
            BY <3>2, <1>3 DEF FindsMessage, TypeOK, p
        <3> QED BY <3>1, <3>2
    <2> QED BY <1>3, <2>6, <2>7 DEF FindsMessage, TypeOK, kernelVars, ioVars
<1>4. CASE BeginsRead(t)
    <2>1. p \in Pipe /\ Busy(t) /\ Goes(t, <<At("ReadFile", p)>>)
        BY <1>4, <1>b DEF BeginsRead, p
    <2>2. todo' \in [Thread -> Seq(Call)]
        BY <2>1, <1>a, ListsAreLists, CallsAreCalls
    <2> QED BY <1>4, <2>1, <2>2 DEF BeginsRead, TypeOK, p, kernelVars, ioVars, fieldVars
<1>5. CASE ReadFails(t)
    <2>1. p \in Pipe /\ Busy(t) /\ Goes(t, DisconnectAndReconnect(p))
        BY <1>5, <1>b DEF ReadFails, p, AfterReadError
    <2>2. todo' \in [Thread -> Seq(Call)]
        BY <2>1, <1>a, ListsAreLists, CallsAreCalls
    <2> QED BY <1>5, <2>1, <2>2 DEF ReadFails, TypeOK, p, kernelVars, Length
<1>6. CASE ReadPends(t)
    <2>1. p \in Pipe /\ Busy(t) /\ Goes(t, <<At("pend", p)>>)
        BY <1>6, <1>b DEF ReadPends, p
    <2>2. todo' \in [Thread -> Seq(Call)]
        BY <2>1, <1>a, ListsAreLists, CallsAreCalls
    <2> QED BY <1>6, <2>1, <2>2 DEF ReadPends, TypeOK, p, Length
<1>7. CASE ReadSucceeds(t)
    <2> DEFINE m == Head(Incoming(p))
    <2>1. p \in Pipe /\ Busy(t) /\ Incoming(p) # <<>>
        BY <1>7, <1>b DEF ReadSucceeds, p
    <2>2. m \in Length /\ link[p] \in Client
        BY <2>1, IncomingType
    <2>3. Tail(inq[link[p]]) \in Seq(Length)
        BY <2>1, <2>2, IncomingType, NamesAssumption DEF Incoming
    <2>4. todo' \in [Thread -> Seq(Call)]
        <3>1. CASE m = "fits"
            <4>1. Goes(t, <<At("sync", p)>>)
                BY <1>7, <3>1 DEF ReadSucceeds, p
            <4> QED BY <4>1, <2>1, <1>a, ListsAreLists, CallsAreCalls
        <3>2. CASE m = "long"
            <4>1. Goes(t, <<At("pend", p)>>)
                BY <1>7, <3>2 DEF ReadSucceeds, p
            <4> QED BY <4>1, <2>1, <1>a, ListsAreLists, CallsAreCalls
        <3>3. CASE m = "empty"
            <4>1. Goes(t, DisconnectAndReconnect(p))
                BY <1>7, <3>3 DEF ReadSucceeds, AfterReadError, p
            <4> QED BY <4>1, <2>1, <1>a, ListsAreLists
        <3> QED BY <2>2, <3>1, <3>2, <3>3 DEF Length
    <2> HIDE DEF m
    <2>5. overlap' \in [Pipe -> {"pending", "connected", "failed"} \cup Length]
        <3>1. (IF m = "long" THEN "failed" ELSE m) \in {"failed"} \cup Length
            BY <2>2
        <3> QED BY <3>1, <1>7 DEF ReadSucceeds, TypeOK, Completes, p, m
    <2>6. inq' \in [Client -> Seq(Length)]
        BY <1>7, <2>2, <2>3 DEF ReadSucceeds, TypeOK, p
    <2>7. /\ buffer' \in [Pipe -> Length \cup {"none"}] /\ mBytesRead' \in [Pipe -> Length]
          /\ event' \in [Pipe -> BOOLEAN]
        BY <1>7, <2>2 DEF ReadSucceeds, TypeOK, Completes, BytesReadAtOnce, p, m
    <2> QED BY <1>7, <2>4, <2>5, <2>6, <2>7 DEF ReadSucceeds, TypeOK
<1>8. CASE NotesSync(t)
    <2>1. p \in Pipe /\ Busy(t) /\ Goes(t, <<>>)
        BY <1>8, <1>b DEF NotesSync, p, Returns
    <2>2. todo' \in [Thread -> Seq(Call)]
        BY <2>1, <1>a, ListsAreLists, CallsAreCalls
    <2> QED BY <1>8, <2>1, <2>2 DEF NotesSync, TypeOK, p, kernelVars, ioVars, fieldVars, Returns
<1>9. CASE NotesPending(t)
    <2>1. p \in Pipe /\ Busy(t) /\ Goes(t, <<>>)
        BY <1>9, <1>b DEF NotesPending, p, Returns
    <2>2. todo' \in [Thread -> Seq(Call)]
        BY <2>1, <1>a, ListsAreLists, CallsAreCalls
    <2> QED BY <1>9, <2>1, <2>2 DEF NotesPending, TypeOK, p, kernelVars, ioVars, fieldVars, Returns
<1>10. CASE Forgets(t)
    <2>1. p \in Pipe /\ Busy(t) /\ Goes(t, <<>>)
        BY <1>10, <1>b DEF Forgets, p, Returns
    <2>2. todo' \in [Thread -> Seq(Call)]
        BY <2>1, <1>a, ListsAreLists, CallsAreCalls
    <2> QED BY <1>10, <2>1, <2>2 DEF Forgets, TypeOK, p, kernelVars, ioVars, StateAfterDisconnect
<1>11. CASE Disconnects(t)
    <2>1. p \in Pipe /\ Busy(t) /\ Goes(t, <<At("ConnectNamedPipe", p)>>)
        BY <1>11, <1>b DEF Disconnects, AfterDisconnect, p
    <2>2. todo' \in [Thread -> Seq(Call)]
        BY <2>1, <1>a, ListsAreLists, CallsAreCalls
    <2>3. closed' \subseteq Client /\ inq' \in [Client -> Seq(Length)] /\ outq' \in [Client -> 0 .. OutCap]
        <3>1. CASE link[p] = NoClient
            BY <3>1, <1>11 DEF Disconnects, TypeOK, p
        <3>2. CASE link[p] # NoClient
            <4>1. link[p] \in Client
                BY <2>1, <3>2 DEF TypeOK
            <4>2. 0 \in 0 .. OutCap /\ <<>> \in Seq(Length)
                BY BoundsAssumption
            <4>3. /\ closed' = closed \ {link[p]}
                  /\ inq' = [inq EXCEPT ![link[p]] = <<>>]
                  /\ outq' = [outq EXCEPT ![link[p]] = 0]
                BY <3>2, <1>11 DEF Disconnects, p
            <4> QED BY <4>1, <4>2, <4>3 DEF TypeOK
        <3> QED BY <3>1, <3>2
    <2>4. /\ overlap' \in [Pipe -> {"pending", "connected", "failed"} \cup Length]
          /\ event' \in [Pipe -> BOOLEAN]
        BY <1>11 DEF Disconnects, TypeOK, Completes, ioVars, p
    <2>5. /\ link' \in [Pipe -> Client \cup {NoClient}] /\ connecting' \in [Pipe -> Thread \cup {"nobody"}]
          /\ listening' \subseteq Pipe /\ reading' \subseteq Pipe /\ writing' \subseteq Pipe
        BY <1>11 DEF Disconnects, TypeOK, p
    <2> QED BY <1>11, <2>2, <2>3, <2>4, <2>5 DEF Disconnects, TypeOK, fieldVars
<1>12. CASE DisconnectFails(t)
    <2>1. p \in Pipe /\ Busy(t) /\ Goes(t, <<>>)
        BY <1>12, <1>b DEF DisconnectFails, p, AfterFailedDisconnect
    <2>2. todo' \in [Thread -> Seq(Call)]
        BY <2>1, <1>a, ListsAreLists, CallsAreCalls
    <2> QED BY <1>12, <2>1, <2>2 DEF DisconnectFails, TypeOK, p, kernelVars, ioVars, fieldVars, AfterFailedDisconnect
<1>13. CASE Connects(t)
    <2>1. p \in Pipe /\ Busy(t) /\ Goes(t, <<At("sync", p), At("pend", p)>>)
        BY <1>13, <1>b DEF Connects, p
    <2>2. todo' \in [Thread -> Seq(Call)]
        BY <2>1, <1>a, ListsAreLists, CallsAreCalls
    <2> QED BY <1>13, <2>1, <2>2 DEF Connects, TypeOK, p, kernelVars, ioVars, fieldVars
<1>14. CASE Locks(t)
    <2>1. p \in Pipe /\ Busy(t) /\ Goes(t, <<At("WriteFile", p)>>)
        BY <1>14, <1>b DEF Locks, p
    <2>2. todo' \in [Thread -> Seq(Call)]
        BY <2>1, <1>a, ListsAreLists, CallsAreCalls
    <2> QED BY <1>14, <2>1, <2>2 DEF Locks, TypeOK, p, kernelVars, ioVars, fieldVars
<1>15. CASE WritePends(t)
    <2>1. p \in Pipe /\ Busy(t) /\ Goes(t, <<At("wait", p)>>)
        BY <1>15, <1>b DEF WritePends, p
    <2>2. todo' \in [Thread -> Seq(Call)]
        BY <2>1, <1>a, ListsAreLists, CallsAreCalls
    <2> QED BY <1>15, <2>1, <2>2 DEF WritePends, TypeOK, p, kernelVars, ioVars, fieldVars
<1>16. CASE WriteSucceeds(t)
    <2>1. p \in Pipe /\ Busy(t) /\ Goes(t, <<>>)
        BY <1>16, <1>b DEF WriteSucceeds, Returns, p
    <2>2. todo' \in [Thread -> Seq(Call)]
        BY <2>1, <1>a, ListsAreLists
    <2>3. outq' \in [Client -> 0 .. OutCap]
        <3>1. CASE link[p] \in Client
            <4>1. outq[link[p]] + 1 \in 0 .. OutCap
                BY <3>1, <1>16, BoundsAssumption DEF WriteSucceeds, HasRoom, TypeOK, p
            <4> QED BY <4>1, <1>16 DEF WriteSucceeds, TypeOK, p
        <3>2. CASE link[p] \notin Client
            BY <3>2, <1>16 DEF WriteSucceeds, TypeOK, p
        <3> QED BY <3>1, <3>2
    <2> QED BY <1>16, <2>2, <2>3 DEF WriteSucceeds, TypeOK, ioVars, fieldVars
<1>17. CASE WriteFails(t)
    <2>1. p \in Pipe /\ Busy(t) /\ Goes(t, DisconnectAndReconnect(p))
        BY <1>17, <1>b DEF WriteFails, p, MutexAfterFailure
    <2>2. todo' \in [Thread -> Seq(Call)]
        BY <2>1, <1>a, ListsAreLists, CallsAreCalls
    <2> QED BY <1>17, <2>1, <2>2 DEF WriteFails, TypeOK, p, kernelVars, ioVars, fieldVars, MutexAfterFailure
<1>18. CASE BroadcastsNext(t)
    <2>1. p \in Pipe /\ p + 1 \in 0 .. NPipes /\ Busy(t)
        BY <1>18, <1>b, PipesAssumption DEF BroadcastsNext, Pipe, p
    <2>2. \/ Goes(t, <<At("lock", p), At("broadcast", p + 1)>>)
          \/ Goes(t, <<At("broadcast", p + 1)>>)
        BY <1>18 DEF BroadcastsNext, p
    <2>3. At("lock", p) \in Call /\ At("broadcast", p + 1) \in Call
        BY <2>1, CallsAreCalls
    <2>4. todo' \in [Thread -> Seq(Call)]
        BY <2>1, <2>2, <2>3, <1>a, ListsAreLists
    <2> QED BY <1>18, <2>4 DEF BroadcastsNext, TypeOK, kernelVars, ioVars, fieldVars
<1>19. CASE BroadcastEnds(t)
    <2>1. TRUE /\ Busy(t) /\ Goes(t, <<>>)
        BY <1>19, <1>b DEF BroadcastEnds, p, Returns
    <2>2. todo' \in [Thread -> Seq(Call)]
        BY <2>1, <1>a, ListsAreLists, CallsAreCalls
    <2> QED BY <1>19, <2>1, <2>2 DEF BroadcastEnds, TypeOK, p, kernelVars, ioVars, fieldVars, Returns
<1>20. CASE CallbackReturns(t)
    <2>1. TRUE /\ Busy(t) /\ Goes(t, <<>>)
        BY <1>20, <1>b DEF CallbackReturns, p, Returns
    <2>2. todo' \in [Thread -> Seq(Call)]
        BY <2>1, <1>a, ListsAreLists, CallsAreCalls
    <2> QED BY <1>20, <2>1, <2>2 DEF CallbackReturns, TypeOK, p, kernelVars, ioVars, fieldVars, Returns
<1> QED BY <1>1, <1>2, <1>3, <1>4, <1>5, <1>6, <1>7, <1>8, <1>9, <1>10, <1>11, <1>12, <1>13, <1>14, <1>15, <1>16, <1>17, <1>18, <1>19, <1>20 DEF Continues

\* Every step keeps the type.
LEMMA TypeStep == TypeOK /\ [Next]_vars => TypeOK'
<1> SUFFICES ASSUME TypeOK, [Next]_vars PROVE TypeOK'
    OBVIOUS
<1>1. ASSUME NEW t \in Thread, NEW calls \in Seq(Call), Calls(t, calls) PROVE TypeOK'
    <2>1. todo' \in [Thread -> Seq(Call)]
        BY <1>1, PushTurns DEF Calls
    <2> QED BY <1>1, <2>1 DEF Calls, TypeOK, kernelVars, ioVars, fieldVars
<1>2. CASE HostNext
    <2>1. ASSUME NEW h \in Host, HostExits(h) PROVE TypeOK'
        BY <2>1, HostExitsType
    <2>2. ASSUME NEW t \in Thread, NEW p \in Pipe, CallsSend(t, p) PROVE TypeOK'
        BY <2>2, <1>1, CallsAreCalls, ListsAreLists DEF CallsSend
    <2>3. ASSUME NEW t \in Thread, NEW p \in Pipe, CallsDisconnect(t, p) PROVE TypeOK'
        BY <2>3, <1>1, ListsAreLists DEF CallsDisconnect
    <2>4. ASSUME NEW t \in Thread, CallsBroadcast(t) PROVE TypeOK'
        <3>1. 0 \in 0 .. NPipes
            BY PipesAssumption
        <3> QED BY <2>4, <3>1, <1>1, CallsAreCalls, ListsAreLists DEF CallsBroadcast
    <2> QED BY <1>2, <2>1, <2>2, <2>3, <2>4 DEF HostNext
<1>3. ASSUME NEW p \in Pipe, Wakes(p) PROVE TypeOK'
    <2>1. <<At("result", p)>> \in Seq(Call)
        BY CallsAreCalls, ListsAreLists
    <2> QED BY <1>3, <2>1 DEF Wakes, TypeOK, kernelVars, ioVars, fieldVars
<1>4. CASE UNCHANGED vars
    BY <1>4 DEF vars, TypeOK, kernelVars, ioVars, fieldVars
<1> QED BY <1>2, <1>3, <1>4, ClientType, ThreadType DEF Next

-----------------------------------------------------------------------------
(***************************************************************************)
(* What a step does to the calls of a stack                                *)
(***************************************************************************)

\* The place in a stack of b calls of the j-th call once a new ones are on it
\* and d of them have gone.
LEMMA Shift ==
    ASSUME NEW a \in Nat, NEW b \in Nat, NEW d \in {0, 1},
           NEW j \in 1 .. (a + b - d), j \notin 1 .. a
    PROVE  j - a + d \in 1 + d .. b /\ j = a + (j - a + d) - d
<1>1. j \in Int /\ 1 <= j /\ j <= a + b - d /\ j > a
    OBVIOUS
<1> QED BY <1>1

\* Each call on t's stack after its step is a new one or one that was there.
LEMMA CallsAfter ==
    ASSUME TypeOK, TypeOK', NEW t \in Thread, NEW calls \in Seq(Call),
           NEW d \in {0, 1}, d <= Len(todo[t]), Turns(t, calls, d)
    PROVE  /\ Len(calls) \in Nat /\ Len(todo[t]) \in Nat
           /\ DOMAIN todo'[t] = 1 .. (Len(calls) + Len(todo[t]) - d)
           /\ DOMAIN todo[t] = 1 .. Len(todo[t])
           /\ \A j \in DOMAIN todo'[t] :
                \/ j \in 1 .. Len(calls) /\ todo'[t][j] = calls[j]
                \/ \E k \in 1 + d .. Len(todo[t]) :
                      j = Len(calls) + k - d /\ todo'[t][j] = todo[t][k]
<1>1. /\ todo[t] \in Seq(Call) /\ todo'[t] \in Seq(Call)
      /\ Len(calls) \in Nat /\ Len(todo[t]) \in Nat
    BY LenProperties DEF TypeOK
<1>2. /\ DOMAIN todo'[t] = 1 .. (Len(calls) + Len(todo[t]) - d)
      /\ DOMAIN todo[t] = 1 .. Len(todo[t])
    BY <1>1 DEF Turns
<1>3. ASSUME NEW j \in DOMAIN todo'[t], j \notin 1 .. Len(calls)
      PROVE  \E k \in 1 + d .. Len(todo[t]) :
                j = Len(calls) + k - d /\ todo'[t][j] = todo[t][k]
    <2> DEFINE k == j - Len(calls) + d
    <2>1. j \in 1 .. (Len(calls) + Len(todo[t]) - d)
        BY <1>2, <1>3
    <2>2. k \in 1 + d .. Len(todo[t]) /\ j = Len(calls) + k - d
        BY <1>1, <1>3, <2>1, Shift
    <2> QED BY <2>2 DEF Turns
<1> QED BY <1>1, <1>2, <1>3 DEF Turns

\* The call at the top of each stack after t's step.
LEMMA TopAfter ==
    ASSUME TypeOK, TypeOK', NEW t \in Thread, NEW calls \in Seq(Call),
           NEW d \in {0, 1}, d <= Len(todo[t]), Turns(t, calls, d)
    PROVE  /\ \A u \in Thread \ {t} : todo'[u] = todo[u]
           /\ calls # <<>> => Busy(t)' /\ Head(todo'[t]) = calls[1]
           /\ calls = <<>> /\ Busy(t)' =>
                    1 + d \in 1 .. Len(todo[t]) /\ Head(todo'[t]) = todo[t][1 + d]
<1>1. /\ todo[t] \in Seq(Call) /\ todo'[t] \in Seq(Call)
      /\ Len(calls) \in Nat /\ Len(todo[t]) \in Nat
    BY LenProperties DEF TypeOK
<1>2. Len(todo'[t]) = Len(calls) + Len(todo[t]) - d
    BY DEF Turns
<1>3. CASE calls # <<>>
    <2>1. Len(calls) >= 1
        BY <1>1, <1>3, EmptySeq
    <2>2. todo'[t] # <<>> /\ Head(todo'[t]) = todo'[t][1]
        BY <1>1, <1>2, <2>1
    <2> QED BY <1>1, <1>3, <2>1, <2>2 DEF Turns, Busy
<1>4. CASE calls = <<>> /\ Busy(t)'
    <2>1. Len(calls) = 0 /\ Len(todo'[t]) >= 1 /\ Head(todo'[t]) = todo'[t][1]
        BY <1>1, <1>4, EmptySeq DEF Busy
    <2>2. 1 + d \in 1 + d .. Len(todo[t]) /\ Len(calls) + (1 + d) - d = 1
        BY <1>1, <1>2, <2>1
    <2> QED BY <1>1, <1>4, <2>1, <2>2 DEF Turns
<1> QED BY <1>3, <1>4 DEF Turns

-----------------------------------------------------------------------------
(***************************************************************************)
(* The inductive invariant                                                 *)
(***************************************************************************)

\* ConnectNamedPipe comes right after DisconnectNamedPipe: nothing is ever on
\* top of it.
ConnectOnTop ==
    \A t \in Thread : \A k \in DOMAIN todo[t] :
        k # 1 => todo[t][k].step # "ConnectNamedPipe"

\* Only the server thread reads, once for each return of its wait.
ReadStep == {"result", "read", "ReadFile"}
ReadsLast ==
    \A t \in Thread : \A k \in DOMAIN todo[t] :
        todo[t][k].step \in ReadStep => t = Server /\ k = Len(todo[t])

\* A pipe waits for a client only while it has none, and a client has one pipe.
LinksAgree ==
    /\ \A p \in Pipe : p \in listening \/ connecting[p] # "nobody" => link[p] = NoClient
    /\ \A p, q \in Pipe : link[p] = link[q] /\ link[p] # NoClient => p = q

\* A ReadFile under way has a client, has not been signalled, and the server
\* thread is not about to handle its end or to start another.
ReadingQuiet ==
    \A p \in reading :
        /\ Open(p) /\ ~event[p]
        /\ \A t \in Thread : \A k \in DOMAIN todo[t] :
             todo[t][k].step \in ReadStep => todo[t][k].pipe # p

\* The steps that work on a pipe, and what else keeps it from being lost.
WorkStep == {"read", "ReadFile", "DisconnectNamedPipe", "ConnectNamedPipe"}
Served(p) == connecting[p] # "nobody" \/ p \in reading \/ event[p]

\* What is true of the pipes and the stacks together.
PipesSafe ==
    /\ ConnectOnTop
    /\ OneReconnects
    /\ ReadsLast
    /\ LinksAgree
    /\ ReadingQuiet
    /\ NoPipeLost

IInv == TypeOK /\ PipesSafe /\ NoCallbackUnderMutex

-----------------------------------------------------------------------------
(***************************************************************************)
(* How a step of a thread keeps each part                                  *)
(***************************************************************************)

\* t has no ConnectNamedPipe, gets none, and no pipe goes down or comes up.
LEMMA ConnectAfter ==
    ASSUME TypeOK, TypeOK', NEW t \in Thread, NEW calls \in Seq(Call),
           NEW d \in {0, 1}, d <= Len(todo[t]), Turns(t, calls, d),
           ConnectOnTop, OneReconnects, ~Is(t, "ConnectNamedPipe"),
           \A i \in 1 .. Len(calls) : calls[i].step # "ConnectNamedPipe",
           \A p \in Pipe : Down(p)' <=> Down(p)
    PROVE  ConnectOnTop' /\ OneReconnects'
<1>1. \A k \in DOMAIN todo[t] : todo[t][k].step # "ConnectNamedPipe"
    <2>1. ASSUME NEW k \in DOMAIN todo[t], k = 1
          PROVE  todo[t][k].step # "ConnectNamedPipe"
        <3>1. Busy(t) /\ Head(todo[t]) = todo[t][1]
            BY <2>1, CallsAfter DEF TypeOK, Busy
        <3> QED BY <3>1, <2>1 DEF Is
    <2> QED BY <2>1 DEF ConnectOnTop
<1>2. ASSUME NEW j \in DOMAIN todo'[t] PROVE todo'[t][j].step # "ConnectNamedPipe"
    <2>1. CASE j \in 1 .. Len(calls) /\ todo'[t][j] = calls[j]
        BY <2>1
    <2>2. CASE \E k \in 1 + d .. Len(todo[t]) : todo'[t][j] = todo[t][k]
        <3>1. PICK k \in 1 + d .. Len(todo[t]) : todo'[t][j] = todo[t][k]
            BY <2>2
        <3>2. k \in DOMAIN todo[t]
            BY <3>1, CallsAfter
        <3> QED BY <3>1, <3>2, <1>1
    <2>3. \/ j \in 1 .. Len(calls) /\ todo'[t][j] = calls[j]
          \/ \E k \in 1 + d .. Len(todo[t]) : todo'[t][j] = todo[t][k]
        BY CallsAfter
    <2> QED BY <2>1, <2>2, <2>3
<1>3. ConnectOnTop'
    BY <1>2 DEF ConnectOnTop, Turns
<1>4. ~Is(t, "ConnectNamedPipe")'
    <2>1. Busy(t)' => 1 \in DOMAIN todo'[t] /\ Head(todo'[t]) = todo'[t][1]
        BY DEF TypeOK, Busy
    <2> QED BY <2>1, <1>2 DEF Is
<1>5. \A u \in Thread \ {t} :
        /\ Is(u, "ConnectNamedPipe")' <=> Is(u, "ConnectNamedPipe")
        /\ On(u)' = On(u)
    BY DEF Turns, Is, On, Busy
<1> QED BY <1>3, <1>4, <1>5 DEF OneReconnects

\* t leaves no call that reads, or only the last on the server thread's stack.
LEMMA ReadsAfter ==
    ASSUME TypeOK, TypeOK', NEW t \in Thread, NEW calls \in Seq(Call),
           NEW d \in {0, 1}, d <= Len(todo[t]), Turns(t, calls, d), ReadsLast,
           \A i \in 1 .. Len(calls) : calls[i].step \in ReadStep =>
               t = Server /\ Len(todo[t]) = d /\ i = Len(calls)
    PROVE  ReadsLast'
<1>1. ASSUME NEW j \in DOMAIN todo'[t], todo'[t][j].step \in ReadStep
      PROVE  t = Server /\ j = Len(todo'[t])
    <2>1. CASE j \in 1 .. Len(calls) /\ todo'[t][j] = calls[j]
        BY <1>1, <2>1, CallsAfter DEF Turns
    <2>2. CASE \E k \in 1 + d .. Len(todo[t]) :
                    j = Len(calls) + k - d /\ todo'[t][j] = todo[t][k]
        <3>1. PICK k \in 1 + d .. Len(todo[t]) :
                    j = Len(calls) + k - d /\ todo'[t][j] = todo[t][k]
            BY <2>2
        <3>2. k \in DOMAIN todo[t]
            BY <3>1, CallsAfter
        <3>3. t = Server /\ k = Len(todo[t])
            BY <1>1, <3>1, <3>2 DEF ReadsLast
        <3> QED BY <3>1, <3>3 DEF Turns
    <2>3. \/ j \in 1 .. Len(calls) /\ todo'[t][j] = calls[j]
          \/ \E k \in 1 + d .. Len(todo[t]) :
                j = Len(calls) + k - d /\ todo'[t][j] = todo[t][k]
        BY CallsAfter
    <2> QED BY <2>1, <2>2, <2>3
<1> QED BY <1>1 DEF ReadsLast, Turns

\* No read begins, none that is under way ends, and no call comes to read.
LEMMA QuietAfter ==
    ASSUME TypeOK, TypeOK', NEW t \in Thread, NEW calls \in Seq(Call),
           NEW d \in {0, 1}, d <= Len(todo[t]), Turns(t, calls, d), ReadingQuiet,
           \A i \in 1 .. Len(calls) :
               calls[i].step \in ReadStep => calls[i].pipe \notin reading',
           \A p \in reading' : p \in reading /\ Open(p)' /\ ~event'[p]
    PROVE  ReadingQuiet'
<1> SUFFICES ASSUME NEW p \in reading', NEW u \in Thread, NEW j \in DOMAIN todo'[u],
                    todo'[u][j].step \in ReadStep, todo'[u][j].pipe = p
             PROVE  FALSE
    BY DEF ReadingQuiet
<1>1. p \in reading
    OBVIOUS
<1>2. CASE u # t
    BY <1>1, <1>2 DEF ReadingQuiet, Turns
<1>3. CASE u = t
    <2>1. CASE j \in 1 .. Len(calls) /\ todo'[t][j] = calls[j]
        BY <1>3, <2>1
    <2>2. CASE \E k \in 1 + d .. Len(todo[t]) : todo'[t][j] = todo[t][k]
        <3>1. PICK k \in 1 + d .. Len(todo[t]) : todo'[t][j] = todo[t][k]
            BY <2>2
        <3>2. k \in DOMAIN todo[t]
            BY <3>1, CallsAfter
        <3> QED BY <1>1, <1>3, <3>1, <3>2 DEF ReadingQuiet
    <2> QED BY <1>3, <2>1, <2>2, CallsAfter
<1> QED BY <1>2, <1>3

\* A thread at work on a pipe stays so unless that call ends; a new call to
\* work on it counts as well.
LEMMA WorkAfter ==
    ASSUME TypeOK, TypeOK', NEW t \in Thread, NEW calls \in Seq(Call),
           NEW d \in {0, 1}, d <= Len(todo[t]), Turns(t, calls, d), NEW p \in Pipe
    PROVE  /\ AtWork(p) /\ (d = 1 => todo[t][1].step \notin WorkStep
                                        \/ todo[t][1].pipe # p) => AtWork(p)'
           /\ \A i \in 1 .. Len(calls) :
                calls[i].step \in WorkStep /\ calls[i].pipe = p => AtWork(p)'
<1>1. ASSUME AtWork(p), d = 1 => todo[t][1].step \notin WorkStep \/ todo[t][1].pipe # p
      PROVE  AtWork(p)'
    <2>0. PICK u \in Thread : \E k \in DOMAIN todo[u] :
                todo[u][k].step \in WorkStep /\ todo[u][k].pipe = p
        BY <1>1 DEF AtWork, WorkStep
    <2>1. PICK k \in DOMAIN todo[u] : todo[u][k].step \in WorkStep /\ todo[u][k].pipe = p
        BY <2>0
    <2>2. CASE u # t
        BY <2>1, <2>2 DEF Turns, AtWork, WorkStep
    <2>3. CASE u = t
        <3>1. k \in 1 + d .. Len(todo[t])
            <4>1. k \in 1 .. Len(todo[t]) /\ Len(todo[t]) \in Nat
                BY <2>3, CallsAfter
            <4> QED BY <4>1, <1>1, <2>1, <2>3
        <3>2. todo'[t][Len(calls) + k - d] = todo[t][k]
            BY <3>1 DEF Turns
        <3>3. Len(calls) + k - d \in DOMAIN todo'[t]
            BY <3>1, CallsAfter
        <3> QED BY <2>1, <2>3, <3>2, <3>3 DEF AtWork, WorkStep
    <2> QED BY <2>2, <2>3
<1>2. ASSUME NEW i \in 1 .. Len(calls), calls[i].step \in WorkStep, calls[i].pipe = p
      PROVE  AtWork(p)'
    <2>1. i \in DOMAIN todo'[t] /\ todo'[t][i] = calls[i]
        BY SMTT(30), CallsAfter DEF Turns
    <2> QED BY <1>2, <2>1 DEF AtWork, WorkStep
<1> QED BY <1>1, <1>2

\* A pipe that is served or has a call to work on it when that call ends is
\* served or worked on afterwards.
LEMMA LostAfter ==
    ASSUME TypeOK, TypeOK', NEW t \in Thread, NEW calls \in Seq(Call),
           NEW d \in {0, 1}, d <= Len(todo[t]), Turns(t, calls, d), NoPipeLost,
           d = 0 => ~Is(t, "result"),
           \A p \in Pipe :
               Served(p) \/ (d = 1 /\ todo[t][1].step \in WorkStep \cup {"result"}
                                   /\ todo[t][1].pipe = p)
                   => Served(p)' \/ AtWork(p)'
    PROVE  NoPipeLost'
<1> SUFFICES ASSUME NEW p \in Pipe, ~Served(p)', ~AtWork(p)',
                    ~(Is(Server, "result") /\ On(Server) = p)'
             PROVE  FALSE
    BY DEF NoPipeLost, Served
<1>1. ~Served(p)
    OBVIOUS
<1>2. ~AtWork(p)
    <2>1. d = 1 => todo[t][1].step \notin WorkStep \/ todo[t][1].pipe # p
        OBVIOUS
    <2> QED BY <2>1, WorkAfter
<1>3. Is(Server, "result") /\ On(Server) = p
    BY <1>1, <1>2 DEF NoPipeLost, Served
<1>4. CASE t # Server
    BY <1>3, <1>4 DEF Turns, Is, On, Busy, Thread
<1>5. CASE t = Server
    <2>1. Head(todo[t]) = todo[t][1]
        BY <1>3, <1>5, Top DEF Is
    <2> QED BY <1>3, <1>5, <2>1 DEF Is, On
<1> QED BY <1>4, <1>5

\* What DisconnectAndReconnect has to do.
LEMMA DisconnectCalls ==
    ASSUME NEW p \in Pipe
    PROVE  /\ Len(DisconnectAndReconnect(p)) = 3
           /\ DisconnectAndReconnect(p)[3] = At("DisconnectNamedPipe", p)
           /\ \A i \in 1 .. 3 :
                /\ DisconnectAndReconnect(p)[i].step \notin ReadStep
                /\ DisconnectAndReconnect(p)[i].step # "ConnectNamedPipe"
BY DEF DisconnectAndReconnect, At, Callback, ReadStep

\* A step of t inside of the server that neither disconnects nor connects its
\* pipe and starts no read, if it leaves the pipe served or worked on.
LEMMA ThreadKeeps ==
    ASSUME TypeOK, TypeOK', PipesSafe, NEW t \in Thread, NEW s, Is(t, s), NEW p, On(t) = p,
           s # "ConnectNamedPipe",
           NEW calls \in Seq(Call), Goes(t, calls),
           \A i \in 1 .. Len(calls) :
               /\ calls[i].step # "ConnectNamedPipe"
               /\ calls[i].step \in ReadStep =>
                    s \in ReadStep /\ i = Len(calls) /\ calls[i].pipe = p,
           UNCHANGED <<link, closed, listening, connecting, reading>>,
           \A q \in Pipe : event'[q] = event[q] \/ (q = p /\ s \in ReadStep),
           s \in WorkStep \cup {"result"} => Served(p)' \/ AtWork(p)'
    PROVE  PipesSafe'
<1>1. Busy(t) /\ Turns(t, calls, 1) /\ 1 <= Len(todo[t]) /\ Len(todo[t]) \in Nat
    BY GoesTurns, Top DEF Is
<1>2. Head(todo[t]) = todo[t][1] /\ todo[t][1].step = s /\ todo[t][1].pipe = p
      /\ 1 \in DOMAIN todo[t]
    BY <1>1, Top, CallsAfter DEF Is, On
<1>3. s \in ReadStep => /\ t = Server /\ Len(todo[t]) = 1
                        /\ p \notin reading
    BY <1>2 DEF PipesSafe, ReadsLast, ReadingQuiet
<1>4. \A q \in Pipe : Down(q)' <=> Down(q)
    BY DEF Down
<1>5. ConnectOnTop' /\ OneReconnects'
    <2>1. ~Is(t, "ConnectNamedPipe") /\ ConnectOnTop /\ OneReconnects
        BY DEF Is, PipesSafe
    <2> QED BY <1>1, <1>4, <2>1, ConnectAfter
<1>6. ReadsLast'
    <2>1. ReadsLast
        BY DEF PipesSafe
    <2> QED BY <1>1, <1>3, <2>1, ReadsAfter
<1>7. LinksAgree'
    BY DEF PipesSafe, LinksAgree
<1>8. ReadingQuiet'
    <2>1. \A q \in reading' : q \in reading /\ Open(q)' /\ ~event'[q]
        BY <1>3 DEF PipesSafe, ReadingQuiet, Open, TypeOK
    <2>2. \A i \in 1 .. Len(calls) :
               calls[i].step \in ReadStep => calls[i].pipe \notin reading'
        BY <1>3
    <2>3. ReadingQuiet
        BY DEF PipesSafe
    <2> QED BY <1>1, <2>1, <2>2, <2>3, QuietAfter
<1>9. NoPipeLost'
    <2>1. \A q \in Pipe :
               Served(q) \/ (todo[t][1].step \in WorkStep \cup {"result"} /\ todo[t][1].pipe = q)
                   => Served(q)' \/ AtWork(q)'
        <3>1. ASSUME NEW q \in Pipe, Served(q), q # p \/ s \notin ReadStep
              PROVE  Served(q)'
            BY <3>1 DEF Served
        <3>2. \A q \in Pipe : q = p /\ s \in ReadStep => Served(q)' \/ AtWork(q)'
            BY DEF WorkStep, ReadStep
        <3> QED BY <1>2, <3>1, <3>2
    <2>2. NoPipeLost
        BY DEF PipesSafe
    <2> QED BY <1>1, <2>1, <2>2, LostAfter
<1> QED BY <1>5, <1>6, <1>7, <1>8, <1>9 DEF PipesSafe

\* A call of the host to the server.
LEMMA CallKeeps ==
    ASSUME TypeOK, TypeOK', PipesSafe, NEW t \in Thread,
           NEW calls \in Seq(Call), Calls(t, calls),
           \A i \in 1 .. Len(calls) :
               calls[i].step # "ConnectNamedPipe" /\ calls[i].step \notin ReadStep
    PROVE  PipesSafe'
<1>1. Turns(t, calls, 0) /\ 0 <= Len(todo[t]) /\ 0 \in {0, 1}
    <2>1. Len(todo[t]) \in Nat
        BY LenProperties DEF TypeOK
    <2>2. todo' = [todo EXCEPT ![t] = calls \o @]
        BY DEF Calls
    <2>3. Turns(t, calls, 0)
        BY <2>2, PushTurns
    <2> QED BY <2>1, <2>3
<1>2. ~Is(t, "ConnectNamedPipe") /\ ~Is(t, "result")
    BY DEF Calls, MayCall, Is
<1>3. UNCHANGED <<link, closed, listening, connecting, reading, event>>
    BY DEF Calls, kernelVars, ioVars
<1>5. ConnectOnTop' /\ OneReconnects'
    <2>1. \A q \in Pipe : Down(q)' <=> Down(q)
        BY <1>3 DEF Down
    <2> QED BY <1>1, <1>2, <2>1, ConnectAfter DEF PipesSafe
<1>6. ReadsLast'
    <2>1. ReadsLast
        BY DEF PipesSafe
    <2> QED BY <1>1, <2>1, ReadsAfter
<1>7. LinksAgree'
    BY <1>3 DEF PipesSafe, LinksAgree
<1>8. ReadingQuiet'
    <2>1. \A q \in reading' : q \in reading /\ Open(q)' /\ ~event'[q]
        BY <1>3 DEF PipesSafe, ReadingQuiet, Open
    <2>2. ReadingQuiet
        BY DEF PipesSafe
    <2> QED BY <1>1, <2>1, <2>2, QuietAfter
<1>9. NoPipeLost'
    <2>1. \A q \in Pipe : Served(q) => Served(q)'
        BY <1>3 DEF Served
    <2>2. NoPipeLost
        BY DEF PipesSafe
    <2> QED BY <1>1, <1>2, <2>1, <2>2, LostAfter
<1> QED BY <1>5, <1>6, <1>7, <1>8, <1>9 DEF PipesSafe

\* A step of a client or of the kernel, which changes no stack.
LEMMA KernelKeeps ==
    ASSUME PipesSafe, todo' = todo, LinksAgree',
           \A p \in Pipe : (Down(p)' <=> Down(p)) /\ (Served(p) => Served(p)'),
           \A p \in reading' : p \in reading /\ Open(p)' /\ ~event'[p]
    PROVE  PipesSafe'
<1>1. \A t \in Thread : /\ Busy(t)' = Busy(t) /\ On(t)' = On(t)
                        /\ \A s : Is(t, s)' = Is(t, s)
    BY DEF Busy, On, Is
<1>2. ConnectOnTop' /\ ReadsLast'
    BY DEF PipesSafe, ConnectOnTop, ReadsLast
<1>3. OneReconnects'
    BY <1>1 DEF PipesSafe, OneReconnects
<1>4. ReadingQuiet'
    BY DEF PipesSafe, ReadingQuiet
<1>5. NoPipeLost'
    <2>1. \A p \in Pipe : AtWork(p)' = AtWork(p)
        BY DEF AtWork
    <2>2. Server \in Thread
        BY DEF Thread
    <2> QED BY <1>1, <2>1, <2>2 DEF PipesSafe, NoPipeLost, Served
<1> QED BY <1>2, <1>3, <1>4, <1>5 DEF PipesSafe

-----------------------------------------------------------------------------
(***************************************************************************)
(* Each action keeps what is true of the pipes and the stacks              *)
(***************************************************************************)

\* The clients, whatever they do.
LEMMA ClientKeeps ==
    ASSUME TypeOK, TypeOK', PipesSafe, ClientNext PROVE PipesSafe'
<1>1. ASSUME NEW c \in Client, NEW p \in Pipe, ClientConnect(c, p) PROVE PipesSafe'
    <2>1. /\ p \in listening /\ c # NoClient /\ todo' = todo
          /\ link' = [link EXCEPT ![p] = c] /\ listening' = listening \ {p}
          /\ \A q \in Pipe : link[q] # c
          /\ connecting' = [connecting EXCEPT ![p] = "nobody"]
          /\ reading' = reading /\ closed' = closed
        BY <1>1, NamesAssumption DEF ClientConnect
    <2>2. link[p] = NoClient /\ p \notin reading
        BY <2>1 DEF PipesSafe, LinksAgree, ReadingQuiet, Open
    <2>3. /\ connecting[p] # "nobody" => event'[p]
          /\ \A q \in Pipe : event[q] => event'[q]
          /\ \A q \in Pipe \ {p} : event'[q] = event[q]
        BY <1>1 DEF ClientConnect, Completes, ioVars, TypeOK
    <2>4. \A q \in Pipe : link'[q] = (IF q = p THEN c ELSE link[q])
        BY <2>1 DEF TypeOK
    <2>5. \A q \in Pipe : connecting'[q] = (IF q = p THEN "nobody" ELSE connecting[q])
        BY <2>1 DEF TypeOK
    <2>6. LinksAgree'
        <3>1. ASSUME NEW q \in Pipe, q \in listening' \/ connecting'[q] # "nobody"
              PROVE  link'[q] = NoClient
            BY <3>1, <2>1, <2>4, <2>5 DEF PipesSafe, LinksAgree
        <3>2. ASSUME NEW q \in Pipe, NEW r \in Pipe, link'[q] = link'[r],
                     link'[q] # NoClient
              PROVE  q = r
            BY <3>2, <2>1, <2>4 DEF PipesSafe, LinksAgree
        <3> QED BY <3>1, <3>2 DEF LinksAgree
    <2>7. \A q \in Pipe : (Down(q)' <=> Down(q)) /\ (Served(q) => Served(q)')
        BY <2>1, <2>3, <2>4, <2>5 DEF Down, Served
    <2>8. \A q \in reading' : q \in reading /\ Open(q)' /\ ~event'[q]
        BY <2>1, <2>2, <2>3, <2>4 DEF PipesSafe, ReadingQuiet, Open, TypeOK
    <2> QED BY <2>1, <2>6, <2>7, <2>8, KernelKeeps
<1>2. ASSUME NEW p \in Pipe, NEW m \in Sends, ClientWrite(p, m) PROVE PipesSafe'
    <2>1. UNCHANGED <<todo, link, listening, connecting, closed>>
        BY <1>2 DEF ClientWrite
    <2>2. /\ \A q \in Pipe \ {p} : event'[q] = event[q] /\ (q \in reading' <=> q \in reading)
          /\ p \in reading => event'[p] /\ p \notin reading'
          /\ p \notin reading => reading' = reading /\ event' = event
        BY <1>2 DEF ClientWrite, Completes, ioVars, TypeOK
    <2>3. LinksAgree'
        BY <2>1 DEF PipesSafe, LinksAgree
    <2>4. \A q \in Pipe : (Down(q)' <=> Down(q)) /\ (Served(q) => Served(q)')
        BY <2>1, <2>2 DEF Down, Served
    <2>5. \A q \in reading' : q \in reading /\ Open(q)' /\ ~event'[q]
        BY <2>1, <2>2 DEF PipesSafe, ReadingQuiet, Open, TypeOK
    <2> QED BY <2>1, <2>3, <2>4, <2>5, KernelKeeps
<1>3. ASSUME NEW c \in Client, ClientRead(c) PROVE PipesSafe'
    <2>1. UNCHANGED <<todo, link, listening, connecting, closed, reading, event>>
        BY <1>3 DEF ClientRead, ioVars
    <2>2. LinksAgree'
        BY <2>1 DEF PipesSafe, LinksAgree
    <2>3. \A q \in Pipe : (Down(q)' <=> Down(q)) /\ (Served(q) => Served(q)')
        BY <2>1 DEF Down, Served
    <2>4. \A q \in reading' : q \in reading /\ Open(q)' /\ ~event'[q]
        BY <2>1 DEF PipesSafe, ReadingQuiet, Open
    <2> QED BY <2>1, <2>2, <2>3, <2>4, KernelKeeps
<1>4. ASSUME NEW p \in Pipe, ClientClose(p) PROVE PipesSafe'
    <2>1. /\ UNCHANGED <<todo, link, listening, connecting>>
          /\ closed' = closed \cup {link[p]} /\ reading' = reading \ {p}
          /\ link[p] # NoClient
        BY <1>4 DEF ClientClose, Open
    <2>2. /\ p \in reading => event'[p]
          /\ p \notin reading => event' = event
          /\ \A q \in Pipe \ {p} : event'[q] = event[q]
        BY <1>4 DEF ClientClose, Completes, ioVars, TypeOK
    <2>3. LinksAgree'
        BY <2>1 DEF PipesSafe, LinksAgree
    <2>4. \A q \in Pipe : (Down(q)' <=> Down(q)) /\ (Served(q) => Served(q)')
        BY <2>1, <2>2 DEF Down, Served
    <2>5. ASSUME NEW q \in reading' PROVE q \in reading /\ Open(q)' /\ ~event'[q]
        <3>1. q \in Pipe \ {p} /\ q \in reading
            BY <2>1 DEF TypeOK
        <3>2. link[q] # link[p]
            BY <3>1, <2>1 DEF PipesSafe, LinksAgree
        <3> QED BY <2>1, <2>2, <3>1, <3>2 DEF PipesSafe, ReadingQuiet, Open
    <2> QED BY <2>1, <2>3, <2>4, <2>5, KernelKeeps
<1> QED BY <1>1, <1>2, <1>3, <1>4 DEF ClientNext

\* The end of a thread of the host: its ConnectNamedPipe is cancelled, and the
\* event says so.
LEMMA HostExitKeeps ==
    ASSUME TypeOK, TypeOK', PipesSafe, NEW h \in Host, HostExits(h) PROVE PipesSafe'
<1>1. UNCHANGED <<todo, link, listening, closed, reading>>
    BY DEF HostExits
<1>2. \A q \in Pipe :
        \/ connecting'[q] = connecting[q] /\ event'[q] = event[q]
        \/ connecting[q] = h /\ connecting'[q] = "nobody" /\ event'[q]
    BY DEF HostExits, TypeOK
<1>3. h # "nobody"
    BY NamesAssumption DEF Thread
<1>4. LinksAgree'
    BY <1>1, <1>2, <1>3 DEF PipesSafe, LinksAgree
<1>5. \A q \in Pipe : (Down(q)' <=> Down(q)) /\ (Served(q) => Served(q)')
    BY <1>1, <1>2 DEF Down, Served
<1>6. ASSUME NEW q \in reading' PROVE q \in reading /\ Open(q)' /\ ~event'[q]
    <2>1. q \in Pipe /\ q \in reading /\ Open(q)
        BY <1>1 DEF TypeOK, PipesSafe, ReadingQuiet
    <2>2. connecting[q] = "nobody"
        BY <2>1 DEF PipesSafe, LinksAgree, Open
    <2> QED BY <1>1, <1>2, <1>3, <2>1, <2>2 DEF PipesSafe, ReadingQuiet, Open
<1> QED BY <1>1, <1>4, <1>5, <1>6, KernelKeeps

\* The server thread wakes.
LEMMA WakesKeeps ==
    ASSUME TypeOK, TypeOK', PipesSafe, NEW p \in Pipe, Wakes(p) PROVE PipesSafe'
<1> DEFINE calls == <<At("result", p)>>
<1>1. /\ calls \in Seq(Call) /\ Len(calls) = 1 /\ calls[1] = At("result", p)
      /\ At("result", p).step = "result" /\ At("result", p).pipe = p
    BY CallsAreCalls, ListsAreLists DEF At
<1>2. /\ todo[Server] = <<>> /\ event[p] /\ Server \in Thread
      /\ todo' = [todo EXCEPT ![Server] = calls]
      /\ UNCHANGED <<link, closed, listening, connecting, reading, event>>
    BY DEF Wakes, Busy, Thread, kernelVars, ioVars
<1> HIDE DEF calls
<1>3. Turns(Server, calls, 0) /\ 0 <= Len(todo[Server]) /\ Len(todo[Server]) = 0
    BY <1>1, <1>2 DEF Turns, TypeOK
<1>4. ~Is(Server, "ConnectNamedPipe") /\ ~Is(Server, "result")
    BY <1>2 DEF Is, Busy
<1>5. ConnectOnTop' /\ OneReconnects'
    <2>1. \A q \in Pipe : Down(q)' <=> Down(q)
        BY <1>2 DEF Down
    <2>2. \A i \in 1 .. Len(calls) : calls[i].step # "ConnectNamedPipe"
        BY <1>1
    <2>3. ConnectOnTop /\ OneReconnects
        BY DEF PipesSafe
    <2> QED BY <1>1, <1>2, <1>3, <1>4, <2>1, <2>2, <2>3, ConnectAfter
<1>6. ReadsLast'
    <2>1. ReadsLast
        BY DEF PipesSafe
    <2>2. \A i \in 1 .. Len(calls) : i = Len(calls)
        BY <1>1
    <2> QED BY <1>1, <1>2, <1>3, <2>1, <2>2, ReadsAfter
<1>7. LinksAgree'
    BY <1>2 DEF PipesSafe, LinksAgree
<1>8. ReadingQuiet'
    <2>1. \A q \in reading' : q \in reading /\ Open(q)' /\ ~event'[q]
        BY <1>2 DEF PipesSafe, ReadingQuiet, Open
    <2>2. \A i \in 1 .. Len(calls) :
               calls[i].step \in ReadStep => calls[i].pipe \notin reading'
        BY <1>1, <1>2, <2>1
    <2>3. ReadingQuiet
        BY DEF PipesSafe
    <2> QED BY <1>1, <1>2, <1>3, <2>1, <2>2, <2>3, QuietAfter
<1>9. NoPipeLost'
    <2>1. \A q \in Pipe : Served(q) => Served(q)'
        BY <1>2 DEF Served
    <2>2. NoPipeLost
        BY DEF PipesSafe
    <2> QED BY <1>1, <1>2, <1>3, <1>4, <2>1, <2>2, LostAfter
<1> QED BY <1>5, <1>6, <1>7, <1>8, <1>9 DEF PipesSafe

\* A ReadFile that pends is the server thread's, and its last call.
LEMMA ReadPendsKeeps ==
    ASSUME TypeOK, TypeOK', PipesSafe, NEW t \in Thread, ReadPends(t)
    PROVE  PipesSafe'
<1> DEFINE p == On(t)
           calls == <<At("pend", p)>>
<1>1. Busy(t) /\ p \in Pipe /\ p = On(t) /\ Is(t, "ReadFile") /\ Goes(t, calls)
    BY Top DEF ReadPends, Is
<1>2. /\ calls \in Seq(Call) /\ Len(calls) = 1 /\ calls[1] = At("pend", p)
      /\ At("pend", p).step = "pend"
    BY <1>1, CallsAreCalls, ListsAreLists DEF At
<1>3. /\ Open(p) /\ UNCHANGED <<link, closed, listening, connecting>>
      /\ event' = [event EXCEPT ![p] = FALSE] /\ reading' = reading \cup {p}
    BY DEF ReadPends
<1> HIDE DEF p, calls
<1>4. Turns(t, calls, 1) /\ 1 <= Len(todo[t]) /\ Len(todo[t]) \in Nat
    BY <1>1, <1>2, GoesTurns, Top
<1>5. /\ Head(todo[t]) = todo[t][1] /\ todo[t][1].step = "ReadFile"
      /\ todo[t][1].pipe = p /\ 1 \in DOMAIN todo[t]
    BY <1>1, <1>2, <1>4, Top, CallsAfter DEF Is, On
<1>6. t = Server /\ Len(todo[t]) = 1 /\ p \notin reading
    BY <1>5 DEF PipesSafe, ReadsLast, ReadingQuiet, ReadStep
<1>7. ConnectOnTop' /\ OneReconnects'
    <2>1. ~Is(t, "ConnectNamedPipe")
        BY <1>1 DEF Is
    <2>2. \A q \in Pipe : Down(q)' <=> Down(q)
        BY <1>3 DEF Down
    <2>3. \A i \in 1 .. Len(calls) : calls[i].step # "ConnectNamedPipe"
        BY <1>2
    <2>4. ConnectOnTop /\ OneReconnects
        BY DEF PipesSafe
    <2> QED BY <1>2, <1>4, <2>1, <2>2, <2>3, <2>4, ConnectAfter
<1>8. ReadsLast'
    <2>1. \A i \in 1 .. Len(calls) : calls[i].step \notin ReadStep
        BY <1>2 DEF ReadStep
    <2>2. ReadsLast
        BY DEF PipesSafe
    <2> QED BY <1>2, <1>4, <2>1, <2>2, ReadsAfter
<1>9. LinksAgree'
    BY <1>3 DEF PipesSafe, LinksAgree
<1>10. ReadingQuiet'
    <2>1. \A u \in Thread : \A k \in DOMAIN todo'[u] : todo'[u][k].step \notin ReadStep
        <3>1. ASSUME NEW u \in Thread \ {t}, NEW k \in DOMAIN todo'[u]
              PROVE  todo'[u][k].step \notin ReadStep
            BY <1>4, <1>6, <3>1 DEF Turns, PipesSafe, ReadsLast
        <3>2. ASSUME NEW k \in DOMAIN todo'[t] PROVE todo'[t][k].step \notin ReadStep
            <4>1. k = 1 /\ todo'[t][1] = calls[1]
                BY <1>2, <1>4, <1>6, CallsAfter DEF Turns
            <4> QED BY <1>2, <4>1 DEF ReadStep
        <3> QED BY <3>1, <3>2
    <2>2. \A q \in reading' : Open(q)' /\ ~event'[q]
        BY <1>1, <1>3 DEF PipesSafe, ReadingQuiet, Open, TypeOK
    <2> QED BY <2>1, <2>2 DEF ReadingQuiet
<1>11. NoPipeLost'
    <2>1. \A q \in Pipe : Served(q) \/ q = p => Served(q)'
        BY <1>3 DEF Served, TypeOK
    <2>2. NoPipeLost
        BY DEF PipesSafe
    <2> QED BY <1>2, <1>4, <1>5, <2>1, <2>2, LostAfter
<1> QED BY <1>7, <1>8, <1>9, <1>10, <1>11 DEF PipesSafe

\* DisconnectNamedPipe takes a pipe down that was not, and its caller goes on
\* to connect it.
LEMMA DisconnectsKeeps ==
    ASSUME TypeOK, TypeOK', PipesSafe, NEW t \in Thread, Disconnects(t)
    PROVE  PipesSafe'
<1>a. Busy(t) /\ On(t) \in Pipe
    BY Top DEF Disconnects, Is
<1>b. PICK p \in Pipe : p = On(t)
    BY <1>a
<1> DEFINE calls == <<At("ConnectNamedPipe", p)>>
<1>1. Busy(t) /\ p = On(t) /\ Is(t, "DisconnectNamedPipe") /\ Goes(t, calls)
    BY <1>a, <1>b DEF Disconnects, AfterDisconnect
<1>2. /\ calls \in Seq(Call) /\ Len(calls) = 1 /\ calls[1] = At("ConnectNamedPipe", p)
      /\ At("ConnectNamedPipe", p).step = "ConnectNamedPipe"
      /\ At("ConnectNamedPipe", p).pipe = p /\ calls # <<>>
    BY <1>1, CallsAreCalls, ListsAreLists DEF At
<1>3. /\ ~Down(p) /\ link' = [link EXCEPT ![p] = NoClient]
      /\ listening' = listening \ {p} /\ reading' = reading \ {p}
      /\ connecting' = [connecting EXCEPT ![p] = "nobody"]
      /\ closed' = closed \/ closed' = closed \ {link[p]}
    BY <1>b DEF Disconnects
<1>4. \A q \in Pipe : event'[q] = event[q] \/ q = p
    BY <1>b DEF Disconnects, Completes, ioVars, TypeOK
<1> HIDE DEF calls
<1>5. Turns(t, calls, 1) /\ 1 <= Len(todo[t]) /\ Len(todo[t]) \in Nat
    BY <1>1, <1>2, GoesTurns, Top
<1>6. Head(todo[t]) = todo[t][1] /\ todo[t][1].step = "DisconnectNamedPipe"
      /\ todo[t][1].pipe = p
    BY <1>1, Top DEF Is, On
<1>7. /\ \A q \in Pipe \ {p} : link'[q] = link[q] /\ connecting'[q] = connecting[q]
      /\ link'[p] = NoClient /\ connecting'[p] = "nobody"
    BY <1>1, <1>3 DEF TypeOK
<1>8. Down(p)' /\ \A q \in Pipe \ {p} : Down(q)' <=> Down(q)
    BY <1>3, <1>7 DEF Down
<1>9. ConnectOnTop'
    <2>1. \A k \in DOMAIN todo[t] : todo[t][k].step # "ConnectNamedPipe"
        <3>1. \A k \in DOMAIN todo[t] : k # 1 => todo[t][k].step # "ConnectNamedPipe"
            BY DEF PipesSafe, ConnectOnTop
        <3>2. todo[t][1].step # "ConnectNamedPipe"
            BY <1>6
        <3> QED BY <3>1, <3>2
    <2>2. ASSUME NEW j \in DOMAIN todo'[t], j # 1
          PROVE  todo'[t][j].step # "ConnectNamedPipe"
        <3>1. j \notin 1 .. Len(calls)
            BY <1>2, <2>2
        <3>2. PICK k \in 1 + 1 .. Len(todo[t]) : todo'[t][j] = todo[t][k]
            BY <3>1, <1>2, <1>5, CallsAfter
        <3>3. k \in DOMAIN todo[t]
            BY <3>2, <1>2, <1>5, CallsAfter
        <3> QED BY <2>1, <3>2, <3>3
    <2> QED BY <1>5, <2>2 DEF PipesSafe, ConnectOnTop, Turns
<1>10. OneReconnects'
    <2>1. \A u \in Thread : ~(Is(u, "ConnectNamedPipe") /\ On(u) = p)
        BY <1>1, <1>3 DEF PipesSafe, OneReconnects
    <2>2. Is(t, "ConnectNamedPipe")' /\ On(t)' = p
        <3>1. Busy(t)' /\ Head(todo'[t]) = calls[1]
            BY <1>2, <1>5, TopAfter
        <3> QED BY <1>2, <3>1 DEF Is, On, Busy
    <2>3. \A u \in Thread \ {t} :
            /\ Is(u, "ConnectNamedPipe")' <=> Is(u, "ConnectNamedPipe")
            /\ On(u)' = On(u)
        BY <1>5 DEF Turns, Is, On, Busy
    <2>4. ~Is(t, "ConnectNamedPipe")
        BY <1>1 DEF Is
    <2>5. ASSUME NEW q \in Pipe, q = p
          PROVE  /\ \E u \in Thread : Is(u, "ConnectNamedPipe")' /\ On(u)' = q
                 /\ \A u \in Thread : Is(u, "ConnectNamedPipe")' /\ On(u)' = q => u = t
        BY <2>1, <2>2, <2>3, <2>5
    <2>6. ASSUME NEW q \in Pipe, q # p, NEW u \in Thread,
                 Is(u, "ConnectNamedPipe")', On(u)' = q
          PROVE  /\ Down(q)' /\ u # t
                 /\ \A v \in Thread : Is(v, "ConnectNamedPipe")' /\ On(v)' = q => v = u
        <3>1. u # t /\ Is(u, "ConnectNamedPipe") /\ On(u) = q
            BY <2>2, <2>3, <2>6
        <3>2. \A v \in Thread : Is(v, "ConnectNamedPipe")' /\ On(v)' = q =>
                    Is(v, "ConnectNamedPipe") /\ On(v) = q
            BY <2>2, <2>3, <2>6
        <3> QED BY <1>8, <2>6, <3>1, <3>2 DEF PipesSafe, OneReconnects
    <2>7. ASSUME NEW q \in Pipe, q # p, Down(q)'
          PROVE  \E u \in Thread : Is(u, "ConnectNamedPipe")' /\ On(u)' = q
        <3>1. PICK u \in Thread : Is(u, "ConnectNamedPipe") /\ On(u) = q
            BY <1>8, <2>7 DEF PipesSafe, OneReconnects
        <3> QED BY <2>3, <2>4, <3>1
    <2> QED BY <1>8, <2>5, <2>6, <2>7 DEF OneReconnects
<1>11. ReadsLast'
    <2>1. \A i \in 1 .. Len(calls) : calls[i].step \notin ReadStep
        BY <1>2 DEF ReadStep
    <2>2. ReadsLast
        BY DEF PipesSafe
    <2> QED BY <1>2, <1>5, <2>1, <2>2, ReadsAfter
<1>12. LinksAgree'
    <2>1. ASSUME NEW q \in Pipe, q \in listening' \/ connecting'[q] # "nobody"
          PROVE  link'[q] = NoClient
        BY <1>3, <1>7, <2>1 DEF PipesSafe, LinksAgree
    <2>2. ASSUME NEW q \in Pipe, NEW r \in Pipe, link'[q] = link'[r], link'[q] # NoClient
          PROVE  q = r
        BY <1>7, <2>2 DEF PipesSafe, LinksAgree
    <2> QED BY <2>1, <2>2 DEF LinksAgree
<1>13. ReadingQuiet'
    <2>1. ASSUME NEW q \in reading' PROVE q \in reading /\ Open(q)' /\ ~event'[q]
        <3>1. q \in reading /\ q \in Pipe \ {p} /\ Open(q) /\ ~event[q]
            BY <1>3 DEF TypeOK, PipesSafe, ReadingQuiet
        <3> QED BY <1>3, <1>4, <1>7, <3>1 DEF Open
    <2>2. \A i \in 1 .. Len(calls) : calls[i].step \notin ReadStep
        BY <1>2 DEF ReadStep
    <2>3. ReadingQuiet
        BY DEF PipesSafe
    <2> QED BY <1>2, <1>5, <2>1, <2>2, <2>3, QuietAfter
<1>14. NoPipeLost'
    <2>1. AtWork(p)'
        <3>1. calls[1].step \in WorkStep /\ calls[1].pipe = p /\ 1 \in 1 .. Len(calls)
            BY <1>2 DEF WorkStep
        <3> QED BY <1>1, <1>2, <1>5, <3>1, WorkAfter
    <2>2. \A q \in Pipe : Served(q) /\ q # p => Served(q)'
        BY <1>3, <1>4, <1>7 DEF Served
    <2>3. NoPipeLost
        BY DEF PipesSafe
    <2> QED BY <1>2, <1>5, <1>6, <2>1, <2>2, <2>3, LostAfter
<1> QED BY <1>9, <1>10, <1>11, <1>12, <1>13, <1>14 DEF PipesSafe

\* ConnectNamedPipe is called for a pipe that is down, and by the only thread
\* to do so.
LEMMA ConnectsKeeps ==
    ASSUME TypeOK, TypeOK', PipesSafe, NEW t \in Thread, Connects(t)
    PROVE  PipesSafe'
<1>a. Busy(t) /\ On(t) \in Pipe
    BY Top DEF Connects, Is
<1>b. PICK p \in Pipe : p = On(t)
    BY <1>a
<1> DEFINE calls == <<At("sync", p), At("pend", p)>>
<1>1. Busy(t) /\ p = On(t) /\ Is(t, "ConnectNamedPipe") /\ Goes(t, calls)
    BY <1>a, <1>b DEF Connects
<1>2. /\ calls \in Seq(Call) /\ Len(calls) = 2
      /\ calls[1].step = "sync" /\ calls[2].step = "pend"
    BY <1>1, CallsAreCalls, ListsAreLists DEF At
<1>3. /\ UNCHANGED <<link, closed, reading>> /\ listening' = listening \cup {p}
      /\ connecting' = [connecting EXCEPT ![p] = t] /\ event' = [event EXCEPT ![p] = FALSE]
    BY <1>b DEF Connects
<1> HIDE DEF calls
<1>4. Turns(t, calls, 1) /\ 1 <= Len(todo[t]) /\ Len(todo[t]) \in Nat
    BY <1>1, <1>2, GoesTurns, Top
<1>5. Head(todo[t]) = todo[t][1] /\ todo[t][1].step = "ConnectNamedPipe"
      /\ todo[t][1].pipe = p
    BY <1>1, Top DEF Is, On
<1>6. \A i \in 1 .. Len(calls) : calls[i].step \in {"sync", "pend"}
    BY <1>2
<1>7. /\ Down(p) /\ link[p] = NoClient /\ ~Down(p)'
      /\ \A u \in Thread \ {t} : ~(Is(u, "ConnectNamedPipe") /\ On(u) = p)
      /\ \A q \in Pipe \ {p} : Down(q)' <=> Down(q)
    BY <1>1, <1>3 DEF PipesSafe, OneReconnects, Down
<1>8. \A j \in DOMAIN todo'[t] : todo'[t][j].step # "ConnectNamedPipe"
    <2>1. ASSUME NEW j \in DOMAIN todo'[t], j \notin 1 .. Len(calls)
          PROVE  todo'[t][j].step # "ConnectNamedPipe"
        <3>1. PICK k \in 1 + 1 .. Len(todo[t]) : todo'[t][j] = todo[t][k]
            BY <2>1, <1>2, <1>4, CallsAfter
        <3>2. k \in DOMAIN todo[t] /\ k # 1
            BY <3>1, <1>2, <1>4, CallsAfter
        <3> QED BY <3>1, <3>2 DEF PipesSafe, ConnectOnTop
    <2>2. ASSUME NEW j \in DOMAIN todo'[t], j \in 1 .. Len(calls)
          PROVE  todo'[t][j].step # "ConnectNamedPipe"
        BY <2>2, <1>4, <1>6 DEF Turns
    <2> QED BY <2>1, <2>2
<1>9. ConnectOnTop'
    BY <1>4, <1>8 DEF PipesSafe, ConnectOnTop, Turns
<1>10. OneReconnects'
    <2>1. ~Is(t, "ConnectNamedPipe")'
        <3>1. Busy(t)' => Head(todo'[t]) = todo'[t][1] /\ 1 \in DOMAIN todo'[t]
            BY DEF TypeOK, Busy
        <3> QED BY <3>1, <1>8 DEF Is
    <2>2. \A u \in Thread \ {t} :
            /\ Is(u, "ConnectNamedPipe")' <=> Is(u, "ConnectNamedPipe")
            /\ On(u)' = On(u)
        BY <1>4 DEF Turns, Is, On, Busy
    <2>3. ASSUME NEW q \in Pipe, NEW u \in Thread, Is(u, "ConnectNamedPipe")', On(u)' = q
          PROVE  /\ Down(q)'
                 /\ \A v \in Thread : Is(v, "ConnectNamedPipe")' /\ On(v)' = q => v = u
        <3>1. u # t /\ Is(u, "ConnectNamedPipe") /\ On(u) = q /\ q # p
            BY <1>7, <2>1, <2>2, <2>3
        <3>2. \A v \in Thread : Is(v, "ConnectNamedPipe")' /\ On(v)' = q =>
                    Is(v, "ConnectNamedPipe") /\ On(v) = q
            BY <2>1, <2>2
        <3> QED BY <1>7, <3>1, <3>2 DEF PipesSafe, OneReconnects
    <2>4. ASSUME NEW q \in Pipe, Down(q)'
          PROVE  \E u \in Thread : Is(u, "ConnectNamedPipe")' /\ On(u)' = q
        <3>1. q # p /\ Down(q)
            BY <1>7, <2>4
        <3>2. PICK u \in Thread : Is(u, "ConnectNamedPipe") /\ On(u) = q
            BY <3>1 DEF PipesSafe, OneReconnects
        <3> QED BY <1>1, <2>2, <3>1, <3>2
    <2> QED BY <2>3, <2>4 DEF OneReconnects
<1>11. ReadsLast'
    <2>1. ReadsLast /\ \A i \in 1 .. Len(calls) : calls[i].step \notin ReadStep
        BY <1>6 DEF PipesSafe, ReadStep
    <2> QED BY <1>2, <1>4, <2>1, ReadsAfter
<1>12. LinksAgree'
    <2>1. ASSUME NEW q \in Pipe, q \in listening' \/ connecting'[q] # "nobody"
          PROVE  link'[q] = NoClient
        BY <1>3, <1>7, <2>1 DEF PipesSafe, LinksAgree, TypeOK
    <2> QED BY <1>3, <2>1 DEF PipesSafe, LinksAgree
<1>13. ReadingQuiet'
    <2>1. \A q \in reading' : q \in reading /\ Open(q)' /\ ~event'[q]
        BY <1>3 DEF PipesSafe, ReadingQuiet, Open, TypeOK
    <2>2. ReadingQuiet /\ \A i \in 1 .. Len(calls) : calls[i].step \notin ReadStep
        BY <1>6 DEF PipesSafe, ReadStep
    <2> QED BY <1>2, <1>4, <2>1, <2>2, QuietAfter
<1>14. NoPipeLost'
    <2>1. t # "nobody"
        BY NamesAssumption
    <2>2. \A q \in Pipe : Served(q) \/ q = p => Served(q)'
        BY <1>3, <2>1 DEF Served, TypeOK
    <2>3. NoPipeLost
        BY DEF PipesSafe
    <2> QED BY <1>2, <1>4, <1>5, <2>2, <2>3, LostAfter
<1> QED BY <1>9, <1>10, <1>11, <1>12, <1>13, <1>14 DEF PipesSafe

\* Every other step inside of the server.
LEMMA InsideKeeps ==
    ASSUME TypeOK, TypeOK', PipesSafe, NEW t \in Thread,
           Continues(t) \/ CallbackReturns(t),
           ~ReadPends(t), ~Disconnects(t), ~Connects(t)
    PROVE  PipesSafe'
<1>1. PICK p : p = On(t)
    OBVIOUS
<1>a. \A s : Is(t, s) => Busy(t) /\ (s # "broadcast" => p \in Pipe)
                                 /\ (s = "broadcast" => p \in 0 .. NPipes)
    BY <1>1, Top DEF Is
\* Steps that end a call that is none of the pipe's work.
<1>b. ASSUME NEW s, Is(t, s), s \notin WorkStep \cup {"result"}, NEW calls \in Seq(Call),
             Goes(t, calls),
             \A i \in 1 .. Len(calls) :
                 calls[i].step # "ConnectNamedPipe" /\ calls[i].step \notin ReadStep,
             UNCHANGED <<link, closed, listening, connecting, reading, event>>
      PROVE  PipesSafe'
    <2>1. s # "ConnectNamedPipe"
        BY <1>b DEF WorkStep
    <2> QED BY <1>1, <1>b, <2>1, ThreadKeeps
<1>2. CASE NotesSync(t) \/ NotesPending(t) \/ Forgets(t) \/ WriteSucceeds(t)
                \/ BroadcastEnds(t) \/ CallbackReturns(t)
    <2>1. PICK s \in {"sync", "pend", "forget", "WriteFile", "wait", "broadcast", "callback"} :
                Is(t, s)
        BY <1>2 DEF NotesSync, NotesPending, Forgets, WriteSucceeds, BroadcastEnds,
                    CallbackReturns
    <2>2. PICK calls \in Seq(Call) : calls = <<>>
        BY ListsAreLists
    <2>3. Goes(t, calls) /\ UNCHANGED <<link, closed, listening, connecting, reading, event>>
        BY <1>2, <2>2 DEF NotesSync, NotesPending, Forgets, WriteSucceeds, BroadcastEnds,
                    CallbackReturns, Returns, kernelVars, ioVars
    <2>4. s \notin WorkStep \cup {"result"} /\ \A i \in 1 .. Len(calls) : FALSE
        BY <2>2 DEF WorkStep
    <2> QED BY <1>b, <2>1, <2>3, <2>4
<1>3. CASE Locks(t) \/ WritePends(t)
    <2>1. PICK s \in {"lock", "WriteFile"} : Is(t, s)
        BY <1>3 DEF Locks, WritePends
    <2>2. p \in Pipe
        BY <1>a, <2>1
    <2>3. PICK f \in Call : f.step \in {"WriteFile", "wait"} /\ Goes(t, <<f>>)
        BY <1>1, <1>3, <2>2, CallsAreCalls DEF Locks, WritePends, At
    <2>4. PICK calls \in Seq(Call) : calls = <<f>>
        BY ListsAreLists
    <2>5. Goes(t, calls) /\ UNCHANGED <<link, closed, listening, connecting, reading, event>>
        BY <1>3, <2>3, <2>4 DEF Locks, WritePends, kernelVars, ioVars
    <2>6. \A i \in 1 .. Len(calls) :
                calls[i].step # "ConnectNamedPipe" /\ calls[i].step \notin ReadStep
        BY <2>3, <2>4 DEF ReadStep
    <2>7. s \notin WorkStep \cup {"result"}
        BY DEF WorkStep
    <2> QED BY <1>b, <2>1, <2>5, <2>6, <2>7
<1>4. CASE WriteFails(t)
    <2>1. PICK s \in {"WriteFile", "wait"} : Is(t, s)
        BY <1>4 DEF WriteFails
    <2>2. p \in Pipe
        BY <1>a, <2>1
    <2>3. PICK calls \in Seq(Call) : calls = DisconnectAndReconnect(p)
        BY <2>2, ListsAreLists
    <2>4. Goes(t, calls) /\ UNCHANGED <<link, closed, listening, connecting, reading, event>>
        BY <1>1, <1>4, <2>3 DEF WriteFails, kernelVars, ioVars
    <2>5. \A i \in 1 .. Len(calls) :
                calls[i].step # "ConnectNamedPipe" /\ calls[i].step \notin ReadStep
        BY <2>2, <2>3, DisconnectCalls
    <2>6. s \notin WorkStep \cup {"result"}
        BY DEF WorkStep
    <2> QED BY <1>b, <2>1, <2>4, <2>5, <2>6
<1>5. CASE BroadcastsNext(t)
    <2>1. /\ p \in Pipe /\ p + 1 \in 0 .. NPipes /\ Is(t, "broadcast")
          /\ UNCHANGED <<link, closed, listening, connecting, reading, event>>
        BY <1>1, <1>5, <1>a, PipesAssumption DEF BroadcastsNext, Pipe, kernelVars, ioVars
    <2>2. PICK f \in Call : f = At("lock", p)
        BY <2>1, CallsAreCalls
    <2>3. PICK g \in Call : g = At("broadcast", p + 1)
        BY <2>1, CallsAreCalls
    <2>4. f.step = "lock" /\ g.step = "broadcast"
        BY <2>2, <2>3 DEF At
    <2>5. PICK calls \in Seq(Call) : Goes(t, calls) /\ calls \in {<<f, g>>, <<g>>}
        BY <1>1, <1>5, <2>2, <2>3, ListsAreLists DEF BroadcastsNext
    <2>6. \A i \in 1 .. Len(calls) :
                calls[i].step # "ConnectNamedPipe" /\ calls[i].step \notin ReadStep
        BY <2>4, <2>5 DEF ReadStep
    <2>7. "broadcast" \notin WorkStep \cup {"result"}
        BY DEF WorkStep
    <2> QED BY <1>b, <2>1, <2>5, <2>6, <2>7
\* Steps that end a part of the pipe's work and go on with another.
<1>c. ASSUME NEW s, Is(t, s), s # "ConnectNamedPipe", p \in Pipe, NEW calls \in Seq(Call),
             Goes(t, calls),
             \A i \in 1 .. Len(calls) :
                 /\ calls[i].step # "ConnectNamedPipe"
                 /\ calls[i].step \in ReadStep =>
                      s \in ReadStep /\ i = Len(calls) /\ calls[i].pipe = p,
             UNCHANGED <<link, closed, listening, connecting, reading>>,
             \A q \in Pipe : event'[q] = event[q] \/ (q = p /\ s \in ReadStep),
             \/ event'[p]
             \/ \E i \in 1 .. Len(calls) : calls[i].step \in WorkStep /\ calls[i].pipe = p
      PROVE  PipesSafe'
    <2>1. Turns(t, calls, 1) /\ 1 <= Len(todo[t])
        BY <1>c, GoesTurns, Top DEF Is
    <2>2. AtWork(p)' \/ Served(p)'
        <3>1. CASE event'[p]
            BY <3>1 DEF Served
        <3>2. CASE \E i \in 1 .. Len(calls) : calls[i].step \in WorkStep /\ calls[i].pipe = p
            BY <3>2, <1>c, <2>1, WorkAfter
        <3> QED BY <1>c, <3>1, <3>2
    <2> QED BY <1>1, <1>c, <2>2, ThreadKeeps
<1>6. CASE FindsFailure(t)
    <2>1. Is(t, "result") /\ p \in Pipe
        BY <1>6, <1>a DEF FindsFailure
    <2>2. PICK calls \in Seq(Call) : calls = DisconnectAndReconnect(p)
        BY <2>1, ListsAreLists
    <2>3. Goes(t, calls) /\ UNCHANGED <<link, closed, listening, connecting, reading, event>>
        BY <1>1, <1>6, <2>2 DEF FindsFailure, kernelVars, ioVars
    <2>4. \A i \in 1 .. Len(calls) :
                calls[i].step # "ConnectNamedPipe" /\ calls[i].step \notin ReadStep
        BY <2>1, <2>2, DisconnectCalls
    <2>a. 3 \in 1 .. Len(calls) /\ calls[3].step \in WorkStep /\ calls[3].pipe = p
        <3>1. Len(calls) = 3 /\ calls[3] = At("DisconnectNamedPipe", p)
            BY <2>1, <2>2, DisconnectCalls
        <3> QED BY <3>1 DEF At, WorkStep
    <2> QED BY <1>c, <2>1, <2>3, <2>4, <2>a
<1>7. CASE FindsClient(t) \/ FindsMessage(t)
    <2>1. Is(t, "result") /\ p \in Pipe
        BY <1>7, <1>a DEF FindsClient, FindsMessage
    <2>2. PICK f \in Call : f.step = "callback" /\ Goes(t, <<f, At("read", p)>>)
        <3>1. CASE FindsClient(t)
            BY <1>1, <2>1, <3>1, CallsAreCalls DEF FindsClient, Callback
        <3>2. CASE FindsMessage(t)
            <4>1. PICK w \in BOOLEAN : w = (mBytesRead'[p] = buffer[p])
                OBVIOUS
            <4>2. PICK f \in Call : f = Callback("message", p, w)
                BY <2>1, CallsAreCalls
            <4>3. Goes(t, <<f>> \o <<At("read", p)>>)
                BY <1>1, <3>2, <4>1, <4>2 DEF FindsMessage, AfterMessage
            <4> QED BY <4>2, <4>3, PairOfOnes DEF Callback
        <3> QED BY <1>7, <3>1, <3>2
    <2>3. PICK g \in Call : g = At("read", p)
        BY <2>1, CallsAreCalls
    <2>4. PICK calls \in Seq(Call) : calls = <<f, g>>
        BY ListsAreLists
    <2>5. Goes(t, calls) /\ UNCHANGED <<link, closed, listening, connecting, reading, event>>
        BY <1>7, <2>2, <2>3, <2>4 DEF FindsClient, FindsMessage, kernelVars, ioVars
    <2>6. /\ Len(calls) = 2 /\ calls[1].step = "callback"
          /\ calls[2].step = "read" /\ calls[2].pipe = p
        BY <2>2, <2>3, <2>4 DEF At
    <2>7. /\ "callback" \notin ReadStep /\ "result" \in ReadStep
          /\ "read" \in WorkStep
        BY DEF ReadStep, WorkStep
    <2>8. \A i \in 1 .. Len(calls) :
             /\ calls[i].step # "ConnectNamedPipe"
             /\ calls[i].step \in ReadStep =>
                  "result" \in ReadStep /\ i = Len(calls) /\ calls[i].pipe = p
        BY <2>6, <2>7
    <2>9. 2 \in 1 .. Len(calls) /\ calls[2].step \in WorkStep
        BY <2>6, <2>7
    <2> QED BY <1>c, <2>1, <2>5, <2>6, <2>8, <2>9
<1>8. CASE BeginsRead(t)
    <2>1. Is(t, "read") /\ p \in Pipe
        BY <1>8, <1>a DEF BeginsRead
    <2>2. PICK f \in Call : f = At("ReadFile", p)
        BY <2>1, CallsAreCalls
    <2>3. PICK calls \in Seq(Call) : calls = <<f>>
        BY ListsAreLists
    <2>4. Goes(t, calls) /\ UNCHANGED <<link, closed, listening, connecting, reading, event>>
        BY <1>1, <1>8, <2>2, <2>3 DEF BeginsRead, kernelVars, ioVars
    <2>5. /\ Len(calls) = 1 /\ calls[1].step = "ReadFile" /\ calls[1].pipe = p
          /\ "read" \in ReadStep /\ "ReadFile" \in WorkStep /\ 1 \in 1 .. Len(calls)
        BY <2>2, <2>3 DEF At, ReadStep, WorkStep
    <2>6. \A i \in 1 .. Len(calls) :
             /\ calls[i].step # "ConnectNamedPipe"
             /\ calls[i].step \in ReadStep =>
                  "read" \in ReadStep /\ i = Len(calls) /\ calls[i].pipe = p
        BY <2>5
    <2>7. \E i \in 1 .. Len(calls) : calls[i].step \in WorkStep /\ calls[i].pipe = p
        BY <2>5
    <2> QED BY <1>c, <2>1, <2>4, <2>6, <2>7
<1>9. CASE ReadFails(t)
    <2>1. Is(t, "ReadFile") /\ p \in Pipe
        BY <1>9, <1>a DEF ReadFails
    <2>2. PICK calls \in Seq(Call) : calls = DisconnectAndReconnect(p)
        BY <2>1, ListsAreLists
    <2>3. /\ Goes(t, calls) /\ UNCHANGED <<link, closed, listening, connecting, reading>>
          /\ event' = [event EXCEPT ![p] = FALSE] /\ "ReadFile" \in ReadStep
        BY <1>1, <1>9, <2>2 DEF ReadFails, AfterReadError, kernelVars, ReadStep
    <2>4. \A i \in 1 .. Len(calls) :
                calls[i].step # "ConnectNamedPipe" /\ calls[i].step \notin ReadStep
        BY <2>1, <2>2, DisconnectCalls
    <2>a. 3 \in 1 .. Len(calls) /\ calls[3].step \in WorkStep /\ calls[3].pipe = p
        <3>1. Len(calls) = 3 /\ calls[3] = At("DisconnectNamedPipe", p)
            BY <2>1, <2>2, DisconnectCalls
        <3> QED BY <3>1 DEF At, WorkStep
    <2>5. \A q \in Pipe : event'[q] = event[q] \/ q = p
        BY <2>3 DEF TypeOK
    <2> QED BY <1>c, <2>1, <2>3, <2>4, <2>a, <2>5
<1>10. CASE ReadSucceeds(t)
    <2>1. Is(t, "ReadFile") /\ p \in Pipe /\ Incoming(p) # <<>>
        BY <1>1, <1>10, <1>a DEF ReadSucceeds
    <2>2. PICK m \in Length : m = Head(Incoming(p))
        BY <2>1, IncomingType
    <2>3. PICK calls \in Seq(Call) :
            /\ Goes(t, calls)
            /\ \A i \in 1 .. Len(calls) :
                 calls[i].step # "ConnectNamedPipe" /\ calls[i].step \notin ReadStep
        <3>1. CASE m = "empty"
            <4>1. Goes(t, DisconnectAndReconnect(p))
                BY <1>1, <1>10, <2>2, <3>1 DEF ReadSucceeds, AfterReadError
            <4> QED BY <4>1, <2>1, ListsAreLists, DisconnectCalls
        <3>2. CASE m \in {"fits", "long"}
            <4>1. PICK f \in Call : f.step \in {"sync", "pend"} /\ Goes(t, <<f>>)
                BY <1>1, <1>10, <2>1, <2>2, <3>2, CallsAreCalls DEF ReadSucceeds, At
            <4>2. <<f>> \in Seq(Call) /\ Len(<<f>>) = 1 /\ <<f>>[1] = f
                BY <4>1
            <4>3. "sync" \notin ReadStep /\ "pend" \notin ReadStep
                BY DEF ReadStep
            <4>4. PICK calls \in Seq(Call) : calls = <<f>>
                BY <4>2
            <4>5. \A i \in 1 .. Len(calls) :
                    calls[i].step # "ConnectNamedPipe" /\ calls[i].step \notin ReadStep
                BY <4>1, <4>2, <4>3, <4>4
            <4> QED BY <4>1, <4>4, <4>5
        <3> QED BY <3>1, <3>2 DEF Length
    <2>4. /\ UNCHANGED <<link, closed, listening, connecting, reading>>
          /\ event' = [event EXCEPT ![p] = TRUE] /\ "ReadFile" \in ReadStep
        BY <1>1, <1>10 DEF ReadSucceeds, Completes, ReadStep
    <2>5. event'[p] /\ \A q \in Pipe : event'[q] = event[q] \/ q = p
        BY <2>1, <2>4 DEF TypeOK
    <2> QED BY <1>c, <2>1, <2>3, <2>4, <2>5
<1>11. CASE DisconnectFails(t)
    <2>1. Is(t, "DisconnectNamedPipe") /\ p \in Pipe /\ Down(p)
        BY <1>1, <1>11, <1>a DEF DisconnectFails
    <2>2. PICK calls \in Seq(Call) : calls = <<>>
        BY ListsAreLists
    <2>3. Goes(t, calls) /\ UNCHANGED <<link, closed, listening, connecting, reading, event>>
        BY <1>1, <1>11, <2>2 DEF DisconnectFails, AfterFailedDisconnect, kernelVars, ioVars
    <2>4. PICK u \in Thread : Is(u, "ConnectNamedPipe") /\ On(u) = p
        BY <2>1 DEF PipesSafe, OneReconnects
    <2>5. u # t
        BY <2>1, <2>4 DEF Is
    <2>6. AtWork(p)'
        <3>1. Busy(u) /\ 1 \in DOMAIN todo[u] /\ Head(todo[u]) = todo[u][1]
            BY <2>4 DEF Is, Busy, TypeOK
        <3>2. todo'[u] = todo[u]
            BY <2>3, <2>5 DEF Goes, TypeOK
        <3> QED BY <2>4, <3>1, <3>2 DEF AtWork, Is, On
    <2>7. \A i \in 1 .. Len(calls) : FALSE
        BY <2>2
    <2>8. \A q \in Pipe : event'[q] = event[q]
        BY <2>3
    <2> QED BY <1>1, <2>1, <2>3, <2>6, <2>7, <2>8, ThreadKeeps
<1> QED BY <1>2, <1>3, <1>4, <1>5, <1>6, <1>7, <1>8, <1>9, <1>10, <1>11 DEF Continues

-----------------------------------------------------------------------------
(***************************************************************************)
(* The inductive invariant holds                                           *)
(***************************************************************************)

\* At the start every pipe has a ConnectNamedPipe of the server thread.
LEMMA InitSafe == Init => IInv
<1> SUFFICES ASSUME Init PROVE IInv
    OBVIOUS
<1>1. TypeOK
    BY InitType
<1>2. \A t \in Thread : todo[t] = <<>> /\ ~Busy(t) /\ \A s : ~Is(t, s)
    BY DEF Init, Busy, Is
<1>3. \A t \in Thread : DOMAIN todo[t] = {}
    BY <1>2
<1>4. Server # "nobody" /\ \A t \in Thread : t # "free"
    BY NamesAssumption DEF Thread
<1>5. ConnectOnTop /\ ReadsLast /\ LinksAgree /\ ReadingQuiet
    BY <1>3 DEF Init, ConnectOnTop, ReadsLast, LinksAgree, ReadingQuiet
<1>6. OneReconnects
    BY <1>2 DEF Init, OneReconnects, Down
<1>7. NoPipeLost
    BY <1>4 DEF Init, NoPipeLost
<1>8. NoCallbackUnderMutex
    BY <1>4 DEF Init, NoCallbackUnderMutex
<1> QED BY <1>1, <1>5, <1>6, <1>7, <1>8 DEF IInv, PipesSafe

\* Every step keeps what is true of the pipes and the stacks.
LEMMA SafeStep == TypeOK /\ TypeOK' /\ PipesSafe /\ [Next]_vars => PipesSafe'
<1> SUFFICES ASSUME TypeOK, TypeOK', PipesSafe, [Next]_vars PROVE PipesSafe'
    OBVIOUS
<1>1. CASE ClientNext
    BY <1>1, ClientKeeps
<1>2. CASE HostNext
    <2>1. ASSUME NEW h \in Host, HostExits(h) PROVE PipesSafe'
        BY <2>1, HostExitKeeps
    <2>2. ASSUME NEW t \in Thread, NEW p \in Pipe, CallsSend(t, p) PROVE PipesSafe'
        <3>1. PICK f \in Call : f = At("lock", p)
            BY CallsAreCalls
        <3>2. PICK calls \in Seq(Call) : calls = <<f>>
            BY ListsAreLists
        <3>3. Calls(t, calls)
            BY <2>2, <3>1, <3>2 DEF CallsSend
        <3>4. \A i \in 1 .. Len(calls) :
                calls[i].step # "ConnectNamedPipe" /\ calls[i].step \notin ReadStep
            BY <3>1, <3>2 DEF At, ReadStep
        <3> QED BY <3>3, <3>4, CallKeeps
    <2>3. ASSUME NEW t \in Thread, NEW p \in Pipe, CallsDisconnect(t, p) PROVE PipesSafe'
        <3>1. PICK calls \in Seq(Call) : calls = DisconnectAndReconnect(p)
            BY ListsAreLists
        <3>2. Calls(t, calls)
            BY <2>3, <3>1 DEF CallsDisconnect
        <3>3. \A i \in 1 .. Len(calls) :
                calls[i].step # "ConnectNamedPipe" /\ calls[i].step \notin ReadStep
            BY <3>1, DisconnectCalls
        <3> QED BY <3>2, <3>3, CallKeeps
    <2>4. ASSUME NEW t \in Thread, CallsBroadcast(t) PROVE PipesSafe'
        <3>1. 0 \in 0 .. NPipes
            BY PipesAssumption
        <3>2. PICK f \in Call : f = At("broadcast", 0)
            BY <3>1, CallsAreCalls
        <3>3. PICK calls \in Seq(Call) : calls = <<f>>
            BY ListsAreLists
        <3>4. Calls(t, calls)
            BY <2>4, <3>2, <3>3 DEF CallsBroadcast
        <3>5. \A i \in 1 .. Len(calls) :
                calls[i].step # "ConnectNamedPipe" /\ calls[i].step \notin ReadStep
            BY <3>2, <3>3 DEF At, ReadStep
        <3> QED BY <3>4, <3>5, CallKeeps
    <2> QED BY <1>2, <2>1, <2>2, <2>3, <2>4 DEF HostNext
<1>3. ASSUME NEW p \in Pipe, Wakes(p) PROVE PipesSafe'
    BY <1>3, WakesKeeps
<1>4. ASSUME NEW t \in Thread, Continues(t) \/ CallbackReturns(t) PROVE PipesSafe'
    BY <1>4, ReadPendsKeeps, DisconnectsKeeps, ConnectsKeeps, InsideKeeps
<1>5. CASE UNCHANGED vars
    <2>1. UNCHANGED <<todo, link, closed, listening, connecting, reading, event>>
        BY <1>5 DEF vars, kernelVars, ioVars
    <2>2. LinksAgree'
        BY <2>1 DEF PipesSafe, LinksAgree
    <2>3. \A q \in Pipe : (Down(q)' <=> Down(q)) /\ (Served(q) => Served(q)')
        BY <2>1 DEF Down, Served
    <2>4. \A q \in reading' : q \in reading /\ Open(q)' /\ ~event'[q]
        BY <2>1 DEF PipesSafe, ReadingQuiet, Open
    <2> QED BY <2>1, <2>2, <2>3, <2>4, KernelKeeps
<1> QED BY <1>1, <1>2, <1>3, <1>4, <1>5 DEF Next

\* Only the holder of m_mutexWrite can be within WriteFile when it lets go of
\* it, and it makes no other step meanwhile.
LEMMA MutexStep ==
    TypeOK /\ TypeOK' /\ NoCallbackUnderMutex /\ [Next]_vars => NoCallbackUnderMutex'
<1> SUFFICES ASSUME TypeOK, TypeOK', NoCallbackUnderMutex, [Next]_vars
             PROVE  NoCallbackUnderMutex'
    OBVIOUS
<1>1. CASE UNCHANGED <<todo, m_mutexWrite>>
    BY <1>1 DEF NoCallbackUnderMutex, Is, Busy
\* A step of a thread that does not hold the mutex.
<1>2. ASSUME NEW t \in Thread, ~Is(t, "WriteFile"), ~Is(t, "wait"),
             m_mutexWrite' = m_mutexWrite,
             \A u \in Thread \ {t} : todo'[u] = todo[u]
      PROVE  NoCallbackUnderMutex'
    BY <1>2 DEF NoCallbackUnderMutex, Is, Busy
<1>3. CASE ClientNext \/ (\E h \in Host : HostExits(h)) \/ UNCHANGED vars
    <2>1. UNCHANGED <<todo, m_mutexWrite>>
        BY <1>3 DEF ClientNext, ClientConnect, ClientWrite, ClientRead, ClientClose,
                    HostExits, vars
    <2> QED BY <1>1, <2>1
<1>4. ASSUME NEW t \in Thread, NEW calls, Calls(t, calls) PROVE NoCallbackUnderMutex'
    <2>1. /\ \A u \in Thread \ {t} : todo'[u] = todo[u]
          /\ m_mutexWrite' = m_mutexWrite
        BY <1>4 DEF Calls, TypeOK
    <2>2. ~Is(t, "WriteFile") /\ ~Is(t, "wait")
        BY <1>4 DEF Calls, MayCall, Is
    <2> QED BY <1>2, <2>1, <2>2
<1>5. ASSUME NEW p \in Pipe, Wakes(p) PROVE NoCallbackUnderMutex'
    <2>1. /\ \A u \in Thread \ {Server} : todo'[u] = todo[u]
          /\ m_mutexWrite' = m_mutexWrite /\ Server \in Thread
        BY <1>5 DEF Wakes, TypeOK, Thread
    <2>2. ~Is(Server, "WriteFile") /\ ~Is(Server, "wait")
        BY <1>5 DEF Wakes, Is
    <2> QED BY <1>2, <2>1, <2>2
<1>6. ASSUME NEW t \in Thread, Continues(t) \/ CallbackReturns(t)
      PROVE  NoCallbackUnderMutex'
    <2>1. ASSUME NEW calls, Goes(t, calls) PROVE \A u \in Thread \ {t} : todo'[u] = todo[u]
        BY <2>1 DEF Goes, TypeOK
    <2>2. CASE Locks(t) \/ WritePends(t)
        <3>1. On(t) \in Pipe
            BY <2>2, Top DEF Locks, WritePends, Is
        <3>2. PICK f \in Call : Goes(t, <<f>>) /\ f.step \in {"WriteFile", "wait"}
            BY <2>2, <3>1, CallsAreCalls DEF Locks, WritePends, At
        <3>3. PICK calls \in Seq(Call) : calls = <<f>>
            BY ListsAreLists
        <3>4. Turns(t, calls, 1) /\ 1 <= Len(todo[t]) /\ calls # <<>> /\ calls[1] = f
            <4>1. Busy(t)
                BY <2>2 DEF Locks, WritePends, Is
            <4>2. Goes(t, calls) /\ calls # <<>> /\ calls[1] = f
                BY <3>2, <3>3
            <4> QED BY <4>1, <4>2, GoesTurns, Top
        <3>5. Busy(t)' /\ Head(todo'[t]) = f
            BY <3>3, <3>4, TopAfter
        <3>6. Is(t, "WriteFile")' \/ Is(t, "wait")'
            BY <3>2, <3>5 DEF Is
        <3>7. m_mutexWrite' \in {t, m_mutexWrite}
            BY <2>2 DEF Locks, WritePends
        <3>8. \A u \in Thread \ {t} : todo'[u] = todo[u]
            BY <3>2, <2>1
        <3> QED BY <3>6, <3>7, <3>8 DEF NoCallbackUnderMutex, Is, Busy
    <2>3. CASE WriteSucceeds(t) \/ WriteFails(t)
        <3>1. m_mutexWrite' = "free"
            BY <2>3 DEF WriteSucceeds, WriteFails, MutexAfterFailure
        <3> QED BY <3>1, NamesAssumption DEF NoCallbackUnderMutex
    <2>4. CASE \/ FindsFailure(t) \/ FindsClient(t) \/ FindsMessage(t)
               \/ BeginsRead(t) \/ ReadFails(t) \/ ReadPends(t) \/ ReadSucceeds(t)
        <3>1. \E calls : Goes(t, calls)
            BY <2>4 DEF FindsFailure, FindsClient, FindsMessage, BeginsRead, ReadFails,
                        ReadPends, ReadSucceeds
        <3>2. ~Is(t, "WriteFile") /\ ~Is(t, "wait") /\ m_mutexWrite' = m_mutexWrite
            BY <2>4 DEF FindsFailure, FindsClient, FindsMessage, BeginsRead, ReadFails,
                        ReadPends, ReadSucceeds, Is
        <3> QED BY <1>2, <2>1, <3>1, <3>2
    <2>5. CASE \/ NotesSync(t) \/ NotesPending(t) \/ Forgets(t) \/ Disconnects(t)
               \/ DisconnectFails(t) \/ Connects(t) \/ BroadcastsNext(t)
               \/ BroadcastEnds(t) \/ CallbackReturns(t)
        <3>1. \E calls : Goes(t, calls)
            BY <2>5 DEF NotesSync, NotesPending, Forgets, Disconnects, DisconnectFails,
                        Connects, BroadcastsNext, BroadcastEnds, CallbackReturns, Returns
        <3>2. ~Is(t, "WriteFile") /\ ~Is(t, "wait") /\ m_mutexWrite' = m_mutexWrite
            BY <2>5 DEF NotesSync, NotesPending, Forgets, Disconnects, DisconnectFails,
                        Connects, BroadcastsNext, BroadcastEnds, CallbackReturns, Is
        <3> QED BY <1>2, <2>1, <3>1, <3>2
    <2> QED BY <1>6, <2>2, <2>3, <2>4, <2>5 DEF Continues
<1> QED BY <1>3, <1>4, <1>5, <1>6 DEF Next, HostNext, CallsSend, CallsDisconnect, CallsBroadcast

\* Every reachable state satisfies the inductive invariant.
LEMMA IInvHolds == Spec => []IInv
<1>1. IInv /\ [Next]_vars => IInv'
    <2> SUFFICES ASSUME IInv, [Next]_vars PROVE IInv'
        OBVIOUS
    <2>1. TypeOK'
        BY TypeStep DEF IInv
    <2>2. PipesSafe'
        BY <2>1, SafeStep DEF IInv
    <2>3. NoCallbackUnderMutex'
        BY <2>1, MutexStep DEF IInv
    <2> QED BY <2>1, <2>2, <2>3 DEF IInv
<1> QED BY <1>1, InitSafe, PTL DEF Spec

-----------------------------------------------------------------------------
(***************************************************************************)
(* What holds of the pipe server                                           *)
(***************************************************************************)

\* The kernel's and the server's state, and the calls on every stack, are of
\* the right type.
THEOREM TypeCorrect == Spec => []TypeOK
<1>1. IInv => TypeOK
    BY DEF IInv
<1> QED BY <1>1, IInvHolds, PTL

\* CNamedPipeServer.cpp:155-183: the pipe that a thread has disconnected is
\* connected again by that thread and no other, whoever disconnects it too.
THEOREM OneReconnectsHolds == Spec => []OneReconnects
<1>1. IInv => OneReconnects
    BY DEF IInv, PipesSafe
<1> QED BY <1>1, IInvHolds, PTL

\* The one OVERLAPPED of a pipe (CNamedPipeServer.h:75) never serves two
\* operations: a ReadFile under way excludes ConnectNamedPipe and another read.
THEOREM OneOperationHolds == Spec => []OneOperation
<1>1. IInv => OneOperation
    <2> SUFFICES ASSUME IInv, NEW p \in reading
                 PROVE  /\ connecting[p] = "nobody"
                        /\ \A t \in Thread : ~(Is(t, "ReadFile") /\ On(t) = p)
        BY DEF OneOperation
    <2>1. p \in Pipe /\ Open(p)
        BY DEF IInv, TypeOK, PipesSafe, ReadingQuiet
    <2>2. connecting[p] = "nobody"
        BY <2>1 DEF IInv, PipesSafe, LinksAgree, Open
    <2>3. ASSUME NEW t \in Thread, Is(t, "ReadFile"), On(t) = p PROVE FALSE
        <3>1. 1 \in DOMAIN todo[t] /\ Head(todo[t]) = todo[t][1]
            BY <2>3 DEF IInv, TypeOK, Is, Busy
        <3>2. todo[t][1].step \in ReadStep /\ todo[t][1].pipe = p
            BY <2>3, <3>1 DEF Is, On, ReadStep
        <3> QED BY <3>1, <3>2 DEF IInv, PipesSafe, ReadingQuiet
    <2> QED BY <2>2, <2>3
<1> QED BY <1>1, IInvHolds, PTL

\* No pipe is forgotten: one that no thread works on has an operation under way
\* or an event the server thread has yet to see, even when the thread of the
\* host that called ConnectNamedPipe has exited.
THEOREM NoPipeLostHolds == Spec => []NoPipeLost
<1>1. IInv => NoPipeLost
    BY DEF IInv, PipesSafe
<1> QED BY <1>1, IInvHolds, PTL

\* CNamedPipeServer.cpp:351: m_mutexWrite is not held over a callback, nor over
\* anything else than a WriteFile and the wait for its end.
THEOREM NoCallbackUnderMutexHolds == Spec => []NoCallbackUnderMutex
<1>1. IInv => NoCallbackUnderMutex
    BY DEF IInv
<1> QED BY <1>1, IInvHolds, PTL

-----------------------------------------------------------------------------
(***************************************************************************)
(* Calls in callbacks only                                                 *)
(*                                                                         *)
(* With Host = {} the server thread is alone with the clients, and what    *)
(* its fields say of a pipe is true whenever no call that is to change     *)
(* them is left on its stack.                                              *)
(***************************************************************************)

AtTop(s, p) == Is(Server, s) /\ On(Server) = p

\* What the kernel has for p when it waits for a client, when a read of p has
\* been left to end, and when a read has ended at once.
ForClient(p) ==
    /\ mCurrentState[p] = "CONNECTING"
    /\ IF link[p] = NoClient THEN connecting[p] = Server ELSE overlap[p] = "connected"
ForRead(p) ==
    /\ mCurrentState[p] = "READING" /\ link[p] # NoClient
    /\ \/ p \in reading \/ overlap[p] = "failed"
       \/ overlap[p] \in Length /\ buffer[p] = overlap[p]
ForMessage(p) ==
    /\ mCurrentState[p] = "READING" /\ link[p] # NoClient /\ p \notin reading
    /\ overlap[p] = "fits" /\ buffer[p] = "fits" /\ mBytesRead[p] = "fits"

Agrees(p) == IF mPendingIO[p] THEN ForClient(p) \/ ForRead(p) ELSE ForMessage(p)

\* The calls that change a pipe's fields, or precede those that do.
ChangeStep == WorkStep \cup {"forget", "sync", "pend"}
Changing(p) ==
    \E k \in 1 .. Len(todo[Server]) :
        todo[Server][k].step \in ChangeStep /\ todo[Server][k].pipe = p
Settled == \A p \in Pipe : Changing(p) \/ Agrees(p)

\* The calls of DisconnectAndReconnect, and of ConnectToNewClient, stay
\* together, and some are only ever at the top of the stack.
Paired(s) ==
    \A k \in 1 .. Len(s) :
        /\ s[k].step \in {"sync", "ReadFile", "ConnectNamedPipe"} => k = 1
        /\ s[k].step = "forget" =>
               k < Len(s) /\ s[k + 1] = At("DisconnectNamedPipe", s[k].pipe)
        /\ s[k].step = "DisconnectNamedPipe" /\ k > 1 => s[k - 1] = At("forget", s[k].pipe)
        /\ s[k].step = "pend" /\ k > 1 => s[k - 1] = At("sync", s[k].pipe)
ResultAlone(s) == \A k \in 1 .. Len(s) : s[k].step = "result" => Len(s) = 1

\* What the server thread relies on when it makes a call.
TopStep == {"ReadFile", "DisconnectNamedPipe", "ConnectNamedPipe", "sync", "pend"}
TopAgrees ==
    \A p \in Pipe :
        /\ AtTop("ReadFile", p) => mCurrentState[p] = "READING"
        /\ AtTop("DisconnectNamedPipe", p) => mCurrentState[p] = "CONNECTING"
        /\ AtTop("ConnectNamedPipe", p) => mCurrentState[p] = "CONNECTING"
        /\ AtTop("sync", p) =>
               IF Len(todo[Server]) = 1 THEN ForMessage(p)
               ELSE todo[Server][2] = At("pend", p) /\ ForClient(p)
        /\ AtTop("pend", p) => ForClient(p) \/ ForRead(p)

ReadsPend == \A p \in reading : overlap[p] = "pending"

StackFits ==
    /\ Paired(todo[Server]) /\ ResultAlone(todo[Server])
    /\ Settled
    /\ MessagesWhole
AloneInv == StackFits /\ TopAgrees /\ ReadsPend

-----------------------------------------------------------------------------
(***************************************************************************)
(* How a step of the server thread keeps this                              *)
(***************************************************************************)

\* What a step does not change about q.
Untouched(q) ==
    /\ link'[q] = link[q] /\ connecting'[q] = connecting[q]
    /\ (q \in reading') = (q \in reading)
    /\ overlap'[q] = overlap[q] /\ buffer'[q] = buffer[q]
    /\ mCurrentState'[q] = mCurrentState[q] /\ mPendingIO'[q] = mPendingIO[q]
    /\ mBytesRead'[q] = mBytesRead[q]

\* Then the fields agree with the kernel as before.
LEMMA UntouchedAgrees ==
    ASSUME NEW q \in Pipe, Untouched(q)
    PROVE  /\ Agrees(q) => Agrees(q)'
           /\ ForClient(q) => ForClient(q)'
           /\ ForRead(q) => ForRead(q)'
           /\ ForMessage(q) => ForMessage(q)'
BY DEF Untouched, Agrees, ForClient, ForRead, ForMessage

\* The calls that replace the top of the stack, or come on it, belong together
\* as those already there do.
LEMMA PairedAfter ==
    ASSUME TypeOK, TypeOK', Server \in Thread, NEW calls \in Seq(Call), NEW d \in {0, 1},
           d <= Len(todo[Server]), Turns(Server, calls, d),
           Paired(todo[Server]), Paired(calls), ResultAlone(todo[Server]),
           \A i \in 1 .. Len(calls) : calls[i].step # "result",
           d = 0 => ~Busy(Server) \/ Is(Server, "callback"),
           d = 1 /\ calls # <<>> => ~Is(Server, "forget") /\ ~Is(Server, "sync")
    PROVE  Paired(todo'[Server]) /\ ResultAlone(todo'[Server])
<1> DEFINE s == todo[Server]
           new == todo'[Server]
           n == Len(calls)
<1>0. /\ n \in Nat /\ Len(s) \in Nat /\ d \in Nat /\ d <= Len(s)
      /\ Len(new) = n + Len(s) - d
    BY CallsAfter DEF Turns
<1>1. /\ s \in Seq(Call) /\ new \in Seq(Call)
      /\ \A i \in 1 .. n : new[i] = calls[i]
      /\ \A k \in 1 + d .. Len(s) : new[n + k - d] = s[k]
    BY CallsAfter DEF Turns, TypeOK
<1>2. \A j \in 1 .. Len(new) :
          j \in 1 .. n \/ \E k \in 1 + d .. Len(s) : j = n + k - d /\ new[j] = s[k]
    <2>1. DOMAIN new = 1 .. Len(new)
        BY <1>0, <1>1
    <2> QED BY SMTT(30), <2>1, CallsAfter
<1>3. Len(s) > 0 => Busy(Server) /\ Head(s) = s[1]
    BY <1>0, <1>1 DEF Busy
<1>4. n = 0 <=> calls = <<>>
    BY EmptySeq
<1>5. d = 0 /\ Len(s) > 0 => s[1].step = "callback"
    BY <1>3 DEF Is
<1>6. d = 1 /\ n > 0 => s[1].step # "forget" /\ s[1].step # "sync"
    BY <1>3, <1>4 DEF Is
<1>7. \A q : At("forget", q).step = "forget" /\ At("sync", q).step = "sync"
    BY DEF At
<1> HIDE DEF s, new, n
<1>8. ASSUME NEW j \in 1 .. n
      PROVE  /\ new[j].step # "result"
             /\ new[j].step \in {"sync", "ReadFile", "ConnectNamedPipe"} => j = 1
             /\ new[j].step = "forget" =>
                    j < Len(new) /\ new[j + 1] = At("DisconnectNamedPipe", new[j].pipe)
             /\ new[j].step = "DisconnectNamedPipe" /\ j > 1 =>
                    new[j - 1] = At("forget", new[j].pipe)
             /\ new[j].step = "pend" /\ j > 1 => new[j - 1] = At("sync", new[j].pipe)
    <2>1. /\ j > 1 => j - 1 \in 1 .. n
          /\ j < n => j + 1 \in 1 .. n
        BY SMTT(30), <1>0
    <2>2. n <= Len(new)
        BY <1>0
    <2>3. /\ new[j] = calls[j]
          /\ j > 1 => new[j - 1] = calls[j - 1]
          /\ j < n => new[j + 1] = calls[j + 1]
        BY <2>1, <1>1
    <2> QED BY <2>2, <2>3, <1>0 DEF Paired, n
<1>9. ASSUME NEW j \in 1 .. Len(new), NEW k \in 1 + d .. Len(s), j = n + k - d, new[j] = s[k]
      PROVE  /\ new[j].step # "result"
             /\ new[j].step \in {"sync", "ReadFile", "ConnectNamedPipe"} => j = 1
             /\ new[j].step = "forget" =>
                    j < Len(new) /\ new[j + 1] = At("DisconnectNamedPipe", new[j].pipe)
             /\ new[j].step = "DisconnectNamedPipe" /\ j > 1 =>
                    new[j - 1] = At("forget", new[j].pipe)
             /\ new[j].step = "pend" /\ j > 1 => new[j - 1] = At("sync", new[j].pipe)
    <2>1. k \in 1 .. Len(s) /\ (k = 1 => d = 0 /\ s[k].step = "callback")
        <3>1. k \in Nat /\ 1 + d <= k /\ k <= Len(s)
            BY <1>0
        <3>2. k = 1 => d = 0
            BY <3>1, <1>0
        <3>3. k \in 1 .. Len(s)
            BY <3>1, <1>0
        <3>4. Len(s) > 0
            BY <3>1, <1>0
        <3> QED BY <3>2, <3>3, <3>4, <1>5
    <2>2. s[k].step = "result" => k = 1
        BY <2>1, <1>0 DEF ResultAlone, s
    <2>3. s[k].step \in {"sync", "ReadFile", "ConnectNamedPipe"} => k = 1
        BY <2>1 DEF Paired, s
    <2>4. ASSUME s[k].step = "forget"
          PROVE  j < Len(new) /\ new[j + 1] = At("DisconnectNamedPipe", new[j].pipe)
        <3>1. k < Len(s) /\ s[k + 1] = At("DisconnectNamedPipe", s[k].pipe)
            BY <2>1, <2>4 DEF Paired, s
        <3>2. k + 1 \in 1 + d .. Len(s) /\ n + (k + 1) - d = j + 1 /\ j < Len(new)
            BY <3>1, <1>0, <1>9
        <3> QED BY <3>1, <3>2, <1>1, <1>9
    <2>5. ASSUME k > 1, j > 1, s[k - 1].step = "forget" \/ s[k - 1].step = "sync"
          PROVE  new[j - 1] = s[k - 1]
        <3>1. k - 1 \in 1 + d .. Len(s)
            <4>1. CASE d = 1 /\ k = 2
                BY <4>1, <2>5, <1>0, <1>6, <1>9
            <4> QED BY <4>1, <1>0, <2>5
        <3>2. n + (k - 1) - d = j - 1
            BY <1>0, <1>9
        <3> QED BY <3>1, <3>2, <1>1
    <2>6. ASSUME s[k].step = "DisconnectNamedPipe", j > 1
          PROVE  new[j - 1] = At("forget", new[j].pipe)
        <3>1. k > 1
            BY <2>1, <2>6
        <3>2. s[k - 1] = At("forget", s[k].pipe)
            BY <2>1, <2>6, <3>1 DEF Paired, s
        <3> QED BY <3>1, <3>2, <2>5, <2>6, <1>7, <1>9
    <2>7. ASSUME s[k].step = "pend", j > 1
          PROVE  new[j - 1] = At("sync", new[j].pipe)
        <3>1. k > 1
            BY <2>1, <2>7
        <3>2. s[k - 1] = At("sync", s[k].pipe)
            BY <2>1, <2>7, <3>1 DEF Paired, s
        <3> QED BY <3>1, <3>2, <2>5, <2>7, <1>7, <1>9
    <2> QED BY <2>1, <2>2, <2>3, <2>4, <2>6, <2>7, <1>9
<1>10. Paired(new) /\ ResultAlone(new)
    BY <1>2, <1>8, <1>9 DEF Paired, ResultAlone
<1> QED BY <1>10 DEF new

\* A step that touches no pipe but p leaves the others as settled as they were,
\* and p if the fields of p agree or a call that changes p is still to come.
LEMMA SettledAfter ==
    ASSUME TypeOK, TypeOK', Server \in Thread, NEW calls \in Seq(Call), NEW d \in {0, 1},
           d <= Len(todo[Server]), Turns(Server, calls, d), Settled, NEW p \in Pipe,
           \A q \in Pipe \ {p} : Untouched(q),
           d = 1 => todo[Server][1].step \notin ChangeStep \/ todo[Server][1].pipe = p,
           \/ Agrees(p)'
           \/ \E i \in 1 .. Len(calls) : calls[i].step \in ChangeStep /\ calls[i].pipe = p
           \/ \E k \in 1 + d .. Len(todo[Server]) :
                 todo[Server][k].step \in ChangeStep /\ todo[Server][k].pipe = p
           \/ Untouched(p) /\ (d = 1 => todo[Server][1].step \notin ChangeStep)
    PROVE  Settled'
<1> DEFINE s == todo[Server]
           new == todo'[Server]
           n == Len(calls)
           Here(q) == \E k \in 1 + d .. Len(s) : s[k].step \in ChangeStep /\ s[k].pipe = q
<1>1. /\ n \in Nat /\ Len(s) \in Nat /\ Len(new) = n + Len(s) - d
      /\ \A i \in 1 .. n : new[i] = calls[i]
      /\ \A k \in 1 + d .. Len(s) : new[n + k - d] = s[k]
    BY CallsAfter DEF Turns, TypeOK
<1> HIDE DEF s, new, n
<1>2. ASSUME NEW q \in Pipe, Here(q) PROVE Changing(q)'
    <2>1. PICK k \in 1 + d .. Len(s) : s[k].step \in ChangeStep /\ s[k].pipe = q
        BY <1>2
    <2>2. n + k - d \in 1 .. Len(new) /\ new[n + k - d] = s[k]
        BY <1>1
    <2> QED BY <2>1, <2>2 DEF Changing, new
<1>3. ASSUME NEW i \in 1 .. n, calls[i].step \in ChangeStep, calls[i].pipe = p
      PROVE  Changing(p)'
    <2>1. d <= Len(s)
        BY DEF s
    <2>2. i \in 1 .. Len(new) /\ new[i] = calls[i]
        BY <2>1, <1>1
    <2> QED BY <1>3, <2>2 DEF Changing, new
<1>4. ASSUME NEW q \in Pipe, Changing(q),
             d = 1 => s[1].step \notin ChangeStep \/ s[1].pipe # q
      PROVE  Here(q)
    <2>1. PICK k \in 1 .. Len(s) : s[k].step \in ChangeStep /\ s[k].pipe = q
        BY <1>4 DEF Changing, s
    <2>2. k \in 1 + d .. Len(s)
        BY <1>1, <1>4, <2>1
    <2> QED BY <2>1, <2>2
<1>5. ASSUME NEW q \in Pipe, q # p PROVE Changing(q)' \/ Agrees(q)'
    <2>1. Untouched(q) /\ (Agrees(q) => Agrees(q)')
        BY <1>5, UntouchedAgrees
    <2>2. d = 1 => s[1].step \notin ChangeStep \/ s[1].pipe # q
        BY <1>5 DEF s
    <2>3. CASE Changing(q)
        BY <2>2, <2>3, <1>2, <1>4
    <2> QED BY <2>1, <2>3 DEF Settled
<1>6. Changing(p)' \/ Agrees(p)'
    <2>1. CASE \E i \in 1 .. n : calls[i].step \in ChangeStep /\ calls[i].pipe = p
        BY <2>1, <1>3
    <2>2. CASE Here(p)
        BY <2>2, <1>2
    <2>3. CASE Untouched(p) /\ (d = 1 => s[1].step \notin ChangeStep)
        <3>1. Agrees(p) => Agrees(p)'
            BY <2>3, UntouchedAgrees
        <3>2. CASE Changing(p)
            BY <2>3, <3>2, <1>2, <1>4
        <3> QED BY <3>1, <3>2 DEF Settled
    <2> QED BY <2>1, <2>2, <2>3 DEF s, n
<1> QED BY <1>5, <1>6 DEF Settled

\* A step after which no call that relies on a pipe's fields is on top: the one
\* it leaves there is none, or the one it uncovers was not meant to follow it.
LEMMA TopAfterPlain ==
    ASSUME TypeOK, TypeOK', Server \in Thread, NEW calls \in Seq(Call), NEW d \in {0, 1},
           d <= Len(todo[Server]), Turns(Server, calls, d),
           Paired(todo[Server]),
           \/ calls # <<>> /\ calls[1].step \notin TopStep
           \/ calls = <<>> /\ d = 1 /\ ~Is(Server, "forget") /\ ~Is(Server, "sync")
    PROVE  TopAgrees'
<1>1. Busy(Server)' => Head(todo'[Server]).step \notin TopStep
    <2>1. CASE calls # <<>> /\ calls[1].step \notin TopStep
        BY <2>1, TopAfter
    <2>2. CASE calls = <<>> /\ d = 1 /\ ~Is(Server, "forget") /\ ~Is(Server, "sync")
        <3> SUFFICES ASSUME Busy(Server)' PROVE Head(todo'[Server]).step \notin TopStep
            OBVIOUS
        <3>0. 1 + d \in 1 .. Len(todo[Server]) /\ Head(todo'[Server]) = todo[Server][1 + d]
            BY <2>2, TopAfter
        <3>1. 2 \in 1 .. Len(todo[Server]) /\ Head(todo'[Server]) = todo[Server][2]
            BY <2>2, <3>0
        <3>2. todo[Server] \in Seq(Call) /\ Len(todo[Server]) \in Nat
            BY DEF TypeOK
        <3>3. Busy(Server) /\ Head(todo[Server]) = todo[Server][1]
            BY <3>1, <3>2 DEF Busy
        <3>4. todo[Server][1].step # "forget" /\ todo[Server][1].step # "sync"
            BY <2>2, <3>3 DEF Is
        <3>5. \A q : At("forget", q).step = "forget" /\ At("sync", q).step = "sync"
            BY DEF At
        <3>6. /\ 2 > 1 /\ 2 - 1 = 1 /\ 2 # 1
            OBVIOUS
        <3>7. /\ todo[Server][2].step \notin {"sync", "ReadFile", "ConnectNamedPipe"}
              /\ todo[Server][2].step = "DisconnectNamedPipe" =>
                     todo[Server][1] = At("forget", todo[Server][2].pipe)
              /\ todo[Server][2].step = "pend" =>
                     todo[Server][1] = At("sync", todo[Server][2].pipe)
            BY <3>1, <3>6 DEF Paired
        <3> QED BY <3>1, <3>4, <3>5, <3>7 DEF TopStep
    <2> QED BY <2>1, <2>2
<1> QED BY <1>1 DEF TopAgrees, AtTop, Is, TopStep

\* The callbacks of a step are given whole messages, as those under way are.
LEMMA WholeAfter ==
    ASSUME TypeOK, TypeOK', Thread = {Server}, NEW calls \in Seq(Call), NEW d \in {0, 1},
           d <= Len(todo[Server]), Turns(Server, calls, d), MessagesWhole,
           \A i \in 1 .. Len(calls) : calls[i].step = "callback" => calls[i].whole
    PROVE  MessagesWhole'
<1>1. Server \in Thread
    OBVIOUS
<1>2. ASSUME NEW j \in DOMAIN todo'[Server], todo'[Server][j].step = "callback"
      PROVE  todo'[Server][j].whole
    <2>1. CASE j \in 1 .. Len(calls) /\ todo'[Server][j] = calls[j]
        BY <1>2, <2>1
    <2>2. CASE \E k \in 1 + d .. Len(todo[Server]) : todo'[Server][j] = todo[Server][k]
        <3>1. PICK k \in 1 + d .. Len(todo[Server]) : todo'[Server][j] = todo[Server][k]
            BY <2>2
        <3>2. k \in 1 .. Len(todo[Server]) /\ DOMAIN todo[Server] = 1 .. Len(todo[Server])
            BY <1>1, <3>1, CallsAfter
        <3> QED BY <1>1, <1>2, <3>1, <3>2 DEF MessagesWhole
    <2>3. \/ j \in 1 .. Len(calls) /\ todo'[Server][j] = calls[j]
          \/ \E k \in 1 + d .. Len(todo[Server]) : todo'[Server][j] = todo[Server][k]
        BY <1>1, CallsAfter
    <2> QED BY <2>1, <2>2, <2>3
<1>3. \A t \in Thread : t = Server
    OBVIOUS
<1> QED BY <1>2, <1>3 DEF MessagesWhole

\* The lists of calls that belong together, none of them "result".
LEMMA PairedLists ==
    /\ Paired(<<>>)
    /\ \A f \in Call : f.step # "forget" => Paired(<<f>>)
    /\ \A f, g \in Call :
          f.step # "forget" /\ g.step \notin {"sync", "ReadFile", "ConnectNamedPipe", "forget",
                                              "DisconnectNamedPipe", "pend"}
              => Paired(<<f, g>>)
    /\ \A p \in Pipe : Paired(<<At("sync", p), At("pend", p)>>)
    /\ \A p \in Pipe : Paired(DisconnectAndReconnect(p))
<1>1. ASSUME NEW f, NEW g
      PROVE  /\ Len(<<f, g>>) = 2 /\ <<f, g>>[1] = f /\ <<f, g>>[2] = g
             /\ \A k \in 1 .. 2 : k = 1 \/ k = 2
             /\ \A k \in 1 .. 1 : k = 1
             /\ Len(<<f>>) = 1 /\ <<f>>[1] = f
    OBVIOUS
<1>2. \A f \in Call : f.step # "forget" => Paired(<<f>>)
    BY <1>1 DEF Paired
<1>3. ASSUME NEW f \in Call, NEW g \in Call, f.step # "forget",
             g.step \notin {"sync", "ReadFile", "ConnectNamedPipe", "forget",
                            "DisconnectNamedPipe", "pend"}
      PROVE  Paired(<<f, g>>)
    BY <1>1, <1>3 DEF Paired
<1>4. ASSUME NEW p \in Pipe PROVE Paired(<<At("sync", p), At("pend", p)>>)
    <2>1. /\ At("sync", p).step = "sync" /\ At("pend", p).step = "pend"
          /\ At("pend", p).pipe = p
        BY DEF At
    <2>2. 2 - 1 = 1
        OBVIOUS
    <2> QED BY <2>1, <2>2, <1>1 DEF Paired
<1>5. ASSUME NEW p \in Pipe PROVE Paired(DisconnectAndReconnect(p))
    <2> DEFINE d == DisconnectAndReconnect(p)
    <2>1. /\ Len(d) = 3 /\ d[1].step = "callback" /\ d[2] = At("forget", p)
          /\ d[3] = At("DisconnectNamedPipe", p)
          /\ \A k \in 1 .. 3 : k = 1 \/ k = 2 \/ k = 3
        BY DEF DisconnectAndReconnect, Callback
    <2>2. /\ At("forget", p).step = "forget" /\ At("forget", p).pipe = p
          /\ At("DisconnectNamedPipe", p).step = "DisconnectNamedPipe"
          /\ At("DisconnectNamedPipe", p).pipe = p
        BY DEF At
    <2>3. 3 - 1 = 2 /\ 2 + 1 = 3 /\ 2 < 3
        OBVIOUS
    <2> HIDE DEF d
    <2>4. Paired(d)
        BY <2>1, <2>2, <2>3 DEF Paired
    <2> QED BY <2>4 DEF d
<1>6. Paired(<<>>)
    BY DEF Paired
<1> QED BY <1>2, <1>3, <1>4, <1>5, <1>6

\* What the calls of DisconnectAndReconnect do.
LEMMA DisconnectList ==
    ASSUME NEW p \in Pipe
    PROVE  LET calls == DisconnectAndReconnect(p) IN
           /\ calls \in Seq(Call) /\ calls # <<>> /\ Paired(calls)
           /\ calls[1].step = "callback"
           /\ \A i \in 1 .. Len(calls) :
                 calls[i].step # "result" /\ (calls[i].step = "callback" => calls[i].whole)
           /\ \E i \in 1 .. Len(calls) : calls[i].step \in ChangeStep /\ calls[i].pipe = p
<1> DEFINE d == DisconnectAndReconnect(p)
<1>1. d \in Seq(Call) /\ Paired(d)
    BY ListsAreLists, PairedLists
<1>2. /\ Len(d) = 3 /\ d # <<>> /\ d[1].step = "callback" /\ d[1].whole
      /\ d[2].step = "forget" /\ d[2].pipe = p
      /\ d[3].step = "DisconnectNamedPipe" /\ d[3].pipe = p
      /\ \A k \in 1 .. 3 : k = 1 \/ k = 2 \/ k = 3
      /\ 2 \in 1 .. 3
    BY DEF DisconnectAndReconnect, Callback, At
<1> HIDE DEF d
<1>3. \A i \in 1 .. Len(d) : d[i].step # "result" /\ (d[i].step = "callback" => d[i].whole)
    BY <1>2
<1>4. \E i \in 1 .. Len(d) : d[i].step \in ChangeStep /\ d[i].pipe = p
    BY <1>2 DEF ChangeStep
<1> QED BY <1>1, <1>2, <1>3, <1>4 DEF d

\* A step that changes no field, and is not about to.
LEMMA PlainKeeps ==
    ASSUME TypeOK, TypeOK', Thread = {Server}, AloneInv,
           NEW calls \in Seq(Call), NEW d \in {0, 1}, d <= Len(todo[Server]),
           Turns(Server, calls, d), \A q \in Pipe : Untouched(q),
           Paired(calls),
           \A i \in 1 .. Len(calls) :
              calls[i].step # "result" /\ (calls[i].step = "callback" => calls[i].whole),
           calls # <<>> => calls[1].step \notin TopStep,
           d = 0 => calls # <<>> /\ (~Busy(Server) \/ Is(Server, "callback")),
           d = 1 => todo[Server][1].step \notin ChangeStep
    PROVE  AloneInv'
<1>1. Server \in Thread /\ Paired(todo[Server]) /\ ResultAlone(todo[Server]) /\ Settled
          /\ MessagesWhole
    BY DEF AloneInv, StackFits
<1>2. d = 1 => ~Is(Server, "forget") /\ ~Is(Server, "sync")
    <2>1. Busy(Server) => Head(todo[Server]) = todo[Server][1]
        BY <1>1, Top
    <2> QED BY <2>1 DEF Is, ChangeStep
<1>3. Paired(todo'[Server]) /\ ResultAlone(todo'[Server])
    BY <1>1, <1>2, PairedAfter
<1>4. Settled'
    <2>1. 0 \in Pipe
        BY PipesAssumption DEF Pipe
    <2> QED BY <2>1, <1>1, SettledAfter
<1>5. MessagesWhole'
    BY <1>1, WholeAfter
<1>6. TopAgrees'
    BY <1>1, <1>2, TopAfterPlain
<1>7. ReadsPend'
    BY DEF AloneInv, ReadsPend, Untouched, TypeOK
<1> QED BY <1>3, <1>4, <1>5, <1>6, <1>7 DEF AloneInv, StackFits

\* A step of the kernel or of a client keeps what the fields say true: it is the
\* end of an operation under way that changes what the kernel has.
LEMMA ClientAgrees ==
    ASSUME TypeOK, TypeOK', PipesSafe, ReadsPend, ClientNext, NEW q \in Pipe
    PROVE  /\ todo' = todo
           /\ Agrees(q) => Agrees(q)'
           /\ ForClient(q) => ForClient(q)'
           /\ ForRead(q) => ForRead(q)'
           /\ ForMessage(q) => ForMessage(q)'
           /\ mCurrentState' = mCurrentState
           /\ q \in reading' => overlap'[q] = "pending"
<1> DEFINE Kept ==
               /\ ForClient(q) => ForClient(q)'
               /\ ForRead(q) => ForRead(q)'
               /\ ForMessage(q) => ForMessage(q)'
               /\ q \in reading' => overlap'[q] = "pending"
<1>a. q \in reading => overlap[q] = "pending" /\ link[q] # NoClient
    BY DEF ReadsPend, PipesSafe, ReadingQuiet, Open
<1>b. "nobody" # Server /\ "pending" \notin Length /\ "connected" \notin Length
          /\ "failed" \notin Length
    BY NamesAssumption DEF Thread, Length
<1>c. todo' = todo /\ mCurrentState' = mCurrentState /\ mPendingIO' = mPendingIO
          /\ mBytesRead' = mBytesRead
    BY DEF ClientNext, ClientConnect, ClientWrite, ClientRead, ClientClose, fieldVars
<1>1. ASSUME Untouched(q) PROVE Kept
    <2>1. q \in reading' => overlap'[q] = "pending"
        BY <1>1, <1>a DEF Untouched
    <2> QED BY <1>1, <2>1, UntouchedAgrees
<1>2. ASSUME NEW c \in Client, NEW p \in Pipe, ClientConnect(c, p) PROVE Kept
    <2>1. CASE p = q
        <3>1. link[q] = NoClient /\ q \notin reading
            BY <1>2, <1>a, <2>1 DEF ClientConnect, PipesSafe, LinksAgree
        <3>2. link'[q] = c /\ c # NoClient /\ reading' = reading
            BY <1>2, <2>1, NamesAssumption DEF ClientConnect, TypeOK
        <3>3. connecting[q] # "nobody" => overlap'[q] = "connected"
            BY <1>2, <2>1 DEF ClientConnect, Completes, TypeOK
        <3> QED BY <1>b, <1>c, <3>1, <3>2, <3>3 DEF ForClient, ForRead, ForMessage
    <2>2. CASE p # q
        <3>1. Untouched(q)
            BY <1>2, <2>2 DEF Untouched, ClientConnect, Completes, ioVars, fieldVars, TypeOK
        <3> QED BY <3>1, <1>1
    <2> QED BY <2>1, <2>2
<1>3. ASSUME NEW p \in Pipe, NEW m \in Sends, ClientWrite(p, m) PROVE Kept
    <2>1. CASE p = q /\ p \in reading
        <3>1. m \in Length
            BY SendsAssumption
        <3>2. /\ link' = link /\ reading' = reading \ {q}
              /\ overlap'[q] = (IF m = "long" THEN "failed" ELSE m) /\ buffer'[q] = m
            BY <1>3, <2>1 DEF ClientWrite, Completes, TypeOK
        <3> QED BY <1>a, <1>b, <1>c, <2>1, <3>1, <3>2 DEF ForClient, ForRead, ForMessage
    <2>2. CASE p # q \/ p \notin reading
        <3>1. Untouched(q)
            BY <1>3, <2>2 DEF Untouched, ClientWrite, Completes, ioVars, TypeOK
        <3> QED BY <3>1, <1>1
    <2> QED BY <2>1, <2>2
<1>4. ASSUME NEW c \in Client, ClientRead(c) PROVE Kept
    <2>1. Untouched(q)
        BY <1>4 DEF Untouched, ClientRead, ioVars, fieldVars
    <2> QED BY <2>1, <1>1
<1>5. ASSUME NEW p \in Pipe, ClientClose(p) PROVE Kept
    <2>1. CASE p = q /\ p \in reading
        <3>1. link' = link /\ reading' = reading \ {q} /\ overlap'[q] = "failed"
            BY <1>5, <2>1 DEF ClientClose, Completes, TypeOK
        <3> QED BY <1>a, <1>b, <1>c, <2>1, <3>1 DEF ForClient, ForRead, ForMessage
    <2>2. CASE p # q \/ p \notin reading
        <3>1. Untouched(q)
            BY <1>5, <2>2 DEF Untouched, ClientClose, Completes, ioVars, fieldVars, TypeOK
        <3> QED BY <3>1, <1>1
    <2> QED BY <2>1, <2>2
<1>6. Kept
    BY <1>2, <1>3, <1>4, <1>5 DEF ClientNext
<1> QED BY <1>c, <1>6 DEF Agrees

\* Such a step leaves the stack alone.
LEMMA ClientKeepsAlone ==
    ASSUME TypeOK, TypeOK', PipesSafe, Server \in Thread, AloneInv, ClientNext
    PROVE  AloneInv'
<1>1. todo' = todo /\ mCurrentState' = mCurrentState
    <2>1. 0 \in Pipe
        BY PipesAssumption DEF Pipe
    <2> QED BY <2>1, ClientAgrees DEF AloneInv
<1>2. Settled'
    <2>1. \A q \in Pipe : Agrees(q) => Agrees(q)'
        BY ClientAgrees DEF AloneInv
    <2> QED BY <1>1, <2>1 DEF AloneInv, StackFits, Settled, Changing
<1>3. Paired(todo'[Server]) /\ ResultAlone(todo'[Server]) /\ MessagesWhole'
    BY <1>1 DEF AloneInv, StackFits, MessagesWhole
<1>4. TopAgrees'
    <2>1. \A q \in Pipe : /\ ForClient(q) => ForClient(q)'
                          /\ ForRead(q) => ForRead(q)'
                          /\ ForMessage(q) => ForMessage(q)'
        BY ClientAgrees DEF AloneInv
    <2>2. \A s, q : AtTop(s, q)' <=> AtTop(s, q)
        BY <1>1 DEF AtTop, Is, On, Busy
    <2> QED BY <1>1, <2>1, <2>2 DEF AloneInv, TopAgrees
<1>5. ReadsPend'
    <2>1. reading' \subseteq Pipe
        BY DEF TypeOK
    <2> QED BY <2>1, ClientAgrees DEF AloneInv, ReadsPend
<1> QED BY <1>2, <1>3, <1>4, <1>5 DEF AloneInv, StackFits

\* The call at the top goes on with others that belong together, and touches
\* one pipe at most.
LEMMA GoesKeeps ==
    ASSUME TypeOK, TypeOK', Thread = {Server}, AloneInv, Busy(Server),
           NEW calls \in Seq(Call), Goes(Server, calls), Paired(calls),
           \A i \in 1 .. Len(calls) :
              calls[i].step # "result" /\ (calls[i].step = "callback" => calls[i].whole),
           calls # <<>> => ~Is(Server, "forget") /\ ~Is(Server, "sync"),
           NEW p \in Pipe, \A q \in Pipe \ {p} : Untouched(q),
           Head(todo[Server]).step \notin ChangeStep \/ On(Server) = p,
           \/ Agrees(p)'
           \/ \E i \in 1 .. Len(calls) : calls[i].step \in ChangeStep /\ calls[i].pipe = p
           \/ /\ 2 \in 1 .. Len(todo[Server])
              /\ todo[Server][2].step \in ChangeStep /\ todo[Server][2].pipe = p,
           TopAgrees', ReadsPend'
    PROVE  AloneInv'
<1>1. Server \in Thread /\ Paired(todo[Server]) /\ ResultAlone(todo[Server]) /\ Settled
          /\ MessagesWhole
    BY DEF AloneInv, StackFits
<1>2. /\ Turns(Server, calls, 1) /\ Len(todo[Server]) \in Nat \ {0}
      /\ Head(todo[Server]) = todo[Server][1]
    BY <1>1, GoesTurns, Top
<1>3. 1 <= Len(todo[Server]) /\ 1 \in {0, 1} /\ 1 # 0
    BY <1>2
<1>4. Paired(todo'[Server]) /\ ResultAlone(todo'[Server])
    BY <1>1, <1>2, <1>3, PairedAfter
<1>5. Settled'
    <2>1. todo[Server][1].step \notin ChangeStep \/ todo[Server][1].pipe = p
        BY <1>2 DEF On
    <2>2. 2 \in 1 .. Len(todo[Server]) => 2 \in 1 + 1 .. Len(todo[Server])
        OBVIOUS
    <2>3. \/ Agrees(p)'
          \/ \E i \in 1 .. Len(calls) : calls[i].step \in ChangeStep /\ calls[i].pipe = p
          \/ \E k \in 1 + 1 .. Len(todo[Server]) :
                 todo[Server][k].step \in ChangeStep /\ todo[Server][k].pipe = p
        BY <2>2
    <2> QED BY <1>1, <1>2, <1>3, <2>1, <2>3, SettledAfter
<1>6. MessagesWhole'
    BY <1>1, <1>2, <1>3, WholeAfter
<1> QED BY <1>4, <1>5, <1>6 DEF AloneInv, StackFits

\* The same of a call that touches no pipe and gives way to none that does.
LEMMA GoesPlainly ==
    ASSUME TypeOK, TypeOK', Thread = {Server}, AloneInv, Busy(Server),
           NEW calls \in Seq(Call), Goes(Server, calls), Paired(calls),
           \A i \in 1 .. Len(calls) :
              calls[i].step # "result" /\ (calls[i].step = "callback" => calls[i].whole),
           calls # <<>> => calls[1].step \notin TopStep,
           \A q \in Pipe : Untouched(q),
           Head(todo[Server]).step \notin ChangeStep
    PROVE  AloneInv'
<1>1. Server \in Thread
    OBVIOUS
<1>2. /\ Turns(Server, calls, 1) /\ Len(todo[Server]) \in Nat \ {0}
      /\ Head(todo[Server]) = todo[Server][1]
    BY <1>1, GoesTurns, Top
<1>3. 1 <= Len(todo[Server]) /\ 1 \in {0, 1} /\ 1 # 0
    BY <1>2
<1> QED BY <1>2, <1>3, PlainKeeps

\* The top of the stack after a call has gone on with others.
LEMMA TopOnceGone ==
    ASSUME TypeOK, TypeOK', Server \in Thread, Busy(Server),
           NEW calls \in Seq(Call), Goes(Server, calls), calls # <<>>
    PROVE  /\ Len(todo'[Server]) = Len(calls) + Len(todo[Server]) - 1
           /\ Len(calls) \in Nat \ {0} /\ Len(todo[Server]) \in Nat \ {0}
           /\ \A i \in 1 .. Len(calls) : todo'[Server][i] = calls[i]
           /\ \A s, q : AtTop(s, q)' <=> s = calls[1].step /\ q = calls[1].pipe
<1>1. /\ Turns(Server, calls, 1) /\ Len(todo[Server]) \in Nat \ {0}
    BY GoesTurns, Top
<1>2. 1 <= Len(todo[Server]) /\ 1 \in {0, 1}
    BY <1>1
<1>3. Busy(Server)' /\ Head(todo'[Server]) = calls[1]
    BY <1>1, <1>2, TopAfter
<1>4. Len(calls) \in Nat \ {0}
    BY EmptySeq
<1> QED BY <1>1, <1>3, <1>4 DEF Turns, AtTop, Is, On

\* The top of the stack after a call has returned.
LEMMA TopOnceBack ==
    ASSUME TypeOK, TypeOK', Server \in Thread, Busy(Server), Returns(Server)
    PROVE  /\ <<>> \in Seq(Call) /\ Goes(Server, <<>>)
           /\ Len(todo[Server]) \in Nat \ {0}
           /\ \A s, q : AtTop(s, q)' =>
                 /\ 2 \in 1 .. Len(todo[Server])
                 /\ todo[Server][2].step = s /\ todo[Server][2].pipe = q
<1>1. <<>> \in Seq(Call) /\ Goes(Server, <<>>)
    BY ListsAreLists DEF Returns
<1>2. Turns(Server, <<>>, 1) /\ Len(todo[Server]) \in Nat \ {0}
    BY <1>1, GoesTurns, Top
<1>3. 1 <= Len(todo[Server]) /\ 1 \in {0, 1} /\ 1 + 1 = 2
    BY <1>2
<1>4. Busy(Server)' =>
          2 \in 1 .. Len(todo[Server]) /\ Head(todo'[Server]) = todo[Server][2]
    <2>1. Busy(Server)' => 1 + 1 \in 1 .. Len(todo[Server])
                             /\ Head(todo'[Server]) = todo[Server][1 + 1]
        BY <1>1, <1>2, <1>3, TopAfter
    <2> QED BY <1>3, <2>1
<1> QED BY <1>1, <1>2, <1>4 DEF AtTop, Is, On

-----------------------------------------------------------------------------
(***************************************************************************)
(* The steps of the server thread                                          *)
(***************************************************************************)

\* A message is given to OnMessage once its read has ended: no call that
\* changes the pipe is left, so what its fields say is true.
LEMMA FindsMessageKeeps ==
    ASSUME TypeOK, TypeOK', PipesSafe, Thread = {Server}, AloneInv, FindsMessage(Server)
    PROVE  AloneInv'
<1> DEFINE p == On(Server)
           whole == mBytesRead'[p] = buffer[p]
<1>1. /\ Server \in Thread /\ Busy(Server) /\ p \in Pipe
      /\ Head(todo[Server]) = todo[Server][1] /\ Len(todo[Server]) \in Nat \ {0}
    <2>1. Busy(Server) /\ ~Is(Server, "broadcast")
        BY DEF FindsMessage, Is
    <2> QED BY <2>1, Top
<1>2. /\ todo[Server][1].step = "result" /\ todo[Server][1].pipe = p
      /\ 1 \in DOMAIN todo[Server] /\ 1 \in 1 .. Len(todo[Server])
    BY <1>1 DEF FindsMessage, Is, On, TypeOK
<1>3. Len(todo[Server]) = 1
    BY <1>2 DEF AloneInv, StackFits, ResultAlone
<1>4. Succeeded(p) /\ mCurrentState[p] = "READING"
          /\ mBytesRead' = IF mPendingIO[p]
                           THEN [mBytesRead EXCEPT ![p] = Transferred(p)]
                           ELSE mBytesRead
    BY DEF FindsMessage
<1>5. Goes(Server, <<Callback("message", p, whole), At("read", p)>>)
    BY PairOfOnes DEF FindsMessage, AfterMessage
<1>6. /\ UNCHANGED <<link, connecting, reading, overlap, buffer, mCurrentState, mPendingIO>>
    BY DEF FindsMessage, kernelVars, ioVars
<1> HIDE DEF p
<1>7. whole
    <2>1. ~Changing(p)
        BY <1>2, <1>3 DEF Changing, ChangeStep, WorkStep
    <2>2. Agrees(p)
        BY <1>1, <2>1 DEF AloneInv, StackFits, Settled
    <2>3. p \notin reading
        BY <1>1, <1>2 DEF PipesSafe, ReadingQuiet, ReadStep
    <2>4. CASE mPendingIO[p]
        <3>1. ForRead(p)
            BY <1>4, <2>2, <2>4 DEF Agrees, ForClient
        <3>2. overlap[p] \in {"connected"} \cup Length
            BY <1>4, <2>4 DEF Succeeded
        <3>3. overlap[p] \in Length /\ buffer[p] = overlap[p] /\ overlap[p] # "connected"
            BY <2>3, <3>1, <3>2 DEF ForRead, Length
        <3>4. Transferred(p) = buffer[p]
            BY <3>3 DEF Transferred
        <3>5. mBytesRead'[p] = Transferred(p)
            BY <1>1, <1>4, <2>4 DEF TypeOK
        <3> QED BY <3>4, <3>5
    <2>5. CASE ~mPendingIO[p]
        BY <1>4, <2>2, <2>5 DEF Agrees, ForMessage
    <2> QED BY <2>4, <2>5
<1>8. PICK f, g \in Call : f = Callback("message", p, TRUE) /\ g = At("read", p)
    BY <1>1, CallsAreCalls
<1>9. PICK calls \in Seq(Call) : calls = <<f, g>>
    BY ListsAreLists
<1>10. /\ f.step = "callback" /\ f.whole /\ g.step = "read" /\ g.pipe = p
    BY <1>8 DEF Callback, At
<1>11. /\ Len(calls) = 2 /\ calls[1] = f /\ calls[2] = g /\ calls # <<>>
       /\ \A i \in 1 .. 2 : i = 1 \/ i = 2
       /\ 2 \in 1 .. 2
    BY <1>9
<1>12. Goes(Server, calls)
    BY <1>5, <1>7, <1>8, <1>9
<1>13. Paired(calls)
    BY <1>9, <1>10, PairedLists
<1>14. \A q \in Pipe \ {p} : Untouched(q)
    BY <1>4, <1>6 DEF Untouched, TypeOK
<1>15. \E i \in 1 .. Len(calls) : calls[i].step \in ChangeStep /\ calls[i].pipe = p
    BY <1>10, <1>11 DEF ChangeStep, WorkStep
<1>16. \A i \in 1 .. Len(calls) :
          calls[i].step # "result" /\ (calls[i].step = "callback" => calls[i].whole)
    BY <1>10, <1>11
<1>17. TopAgrees'
    <2>1. \A s, q : AtTop(s, q)' => s = "callback"
        BY <1>1, <1>10, <1>11, <1>12, TopOnceGone
    <2> QED BY <2>1 DEF TopAgrees
<1>18. ReadsPend'
    BY <1>6 DEF AloneInv, ReadsPend
<1>19. ~Is(Server, "forget") /\ ~Is(Server, "sync") /\ Head(todo[Server]).step \notin ChangeStep
    BY <1>1, <1>2 DEF Is, ChangeStep, WorkStep
<1> QED BY <1>1, <1>12, <1>13, <1>14, <1>15, <1>16, <1>17, <1>18, <1>19, GoesKeeps

\* ReadPipe says that it reads, and reads next.
LEMMA BeginsReadKeeps ==
    ASSUME TypeOK, TypeOK', Thread = {Server}, AloneInv, BeginsRead(Server)
    PROVE  AloneInv'
<1> DEFINE p == On(Server)
<1>1. Server \in Thread /\ Busy(Server) /\ p \in Pipe
    BY Top DEF BeginsRead, Is
<1>2. PICK f \in Call : f = At("ReadFile", p)
    BY <1>1, CallsAreCalls
<1>3. PICK calls \in Seq(Call) : calls = <<f>>
    BY ListsAreLists
<1>4. /\ Goes(Server, calls) /\ UNCHANGED <<kernelVars, ioVars, mPendingIO, mBytesRead>>
      /\ mCurrentState' = [mCurrentState EXCEPT ![p] = "READING"]
      /\ buffer' = [buffer EXCEPT ![p] = "none"]
      /\ ~Is(Server, "forget") /\ ~Is(Server, "sync")
    BY <1>2, <1>3 DEF BeginsRead, Is
<1> HIDE DEF p
<1>5. /\ f.step = "ReadFile" /\ f.pipe = p /\ Len(calls) = 1 /\ calls[1] = f /\ calls # <<>>
      /\ \A i \in 1 .. 1 : i = 1
      /\ 1 \in 1 .. 1
    BY <1>2, <1>3 DEF At
<1>6. Paired(calls)
    BY <1>3, <1>5, PairedLists
<1>7. \A q \in Pipe \ {p} : Untouched(q)
    BY <1>4 DEF Untouched, kernelVars, ioVars, TypeOK
<1>8. \E i \in 1 .. Len(calls) : calls[i].step \in ChangeStep /\ calls[i].pipe = p
    BY <1>5 DEF ChangeStep, WorkStep
<1>9. TopAgrees'
    <2>1. \A s, q : AtTop(s, q)' => s = "ReadFile" /\ q = p
        BY <1>1, <1>4, <1>5, TopOnceGone
    <2>2. mCurrentState'[p] = "READING"
        BY <1>1, <1>4 DEF TypeOK
    <2> QED BY <2>1, <2>2 DEF TopAgrees
<1>10. ReadsPend'
    BY <1>4 DEF AloneInv, ReadsPend, kernelVars, ioVars
<1>11. \A i \in 1 .. Len(calls) :
          calls[i].step # "result" /\ (calls[i].step = "callback" => calls[i].whole)
    BY <1>5
<1>12. On(Server) = p
    BY DEF p
<1> QED BY <1>1, <1>4, <1>6, <1>7, <1>8, <1>9, <1>10, <1>11, <1>12, GoesKeeps

\* A step about p that goes on with DisconnectAndReconnect.
LEMMA GoesToDisconnect ==
    ASSUME TypeOK, TypeOK', Thread = {Server}, AloneInv, Busy(Server),
           NEW p \in Pipe, On(Server) = p,
           ~Is(Server, "forget"), ~Is(Server, "sync"),
           Goes(Server, DisconnectAndReconnect(p)),
           \A q \in Pipe \ {p} : Untouched(q), ReadsPend'
    PROVE  AloneInv'
<1>1. PICK calls \in Seq(Call) : calls = DisconnectAndReconnect(p)
    BY ListsAreLists
<1>2. /\ calls # <<>> /\ Paired(calls) /\ calls[1].step = "callback"
      /\ \A i \in 1 .. Len(calls) :
            calls[i].step # "result" /\ (calls[i].step = "callback" => calls[i].whole)
      /\ \E i \in 1 .. Len(calls) : calls[i].step \in ChangeStep /\ calls[i].pipe = p
    BY <1>1, DisconnectList
<1>3. Goes(Server, calls) /\ Server \in Thread
    BY <1>1
<1>4. TopAgrees'
    <2>1. \A s, q : AtTop(s, q)' => s = "callback"
        BY <1>2, <1>3, TopOnceGone
    <2> QED BY <2>1 DEF TopAgrees
<1> QED BY <1>2, <1>3, <1>4, GoesKeeps

\* Nobody, or nobody any more, is there to be read from.
LEMMA ReadFailsKeeps ==
    ASSUME TypeOK, TypeOK', Thread = {Server}, AloneInv, ReadFails(Server)
    PROVE  AloneInv'
<1> DEFINE p == On(Server)
<1>1. Server \in Thread /\ Busy(Server) /\ p \in Pipe
    BY Top DEF ReadFails, Is
<1>2. /\ Goes(Server, DisconnectAndReconnect(p)) /\ UNCHANGED kernelVars
      /\ UNCHANGED <<mCurrentState, mPendingIO, buffer>>
      /\ overlap' = [overlap EXCEPT ![p] = "pending"]
      /\ mBytesRead' = [mBytesRead EXCEPT ![p] = "empty"]
      /\ ~Is(Server, "forget") /\ ~Is(Server, "sync")
    BY DEF ReadFails, AfterReadError, Is
<1>3. On(Server) = p
    OBVIOUS
<1> HIDE DEF p
<1>4. \A q \in Pipe \ {p} : Untouched(q)
    BY <1>2 DEF Untouched, kernelVars, TypeOK
<1>5. ReadsPend'
    BY <1>1, <1>2 DEF AloneInv, ReadsPend, kernelVars, TypeOK
<1> QED BY <1>1, <1>2, <1>3, <1>4, <1>5, GoesToDisconnect

\* A read that pends is what mPendingIO will say.
LEMMA ReadPendsKeepsAlone ==
    ASSUME TypeOK, TypeOK', Thread = {Server}, AloneInv, ReadPends(Server)
    PROVE  AloneInv'
<1>0. Server \in Thread /\ Busy(Server) /\ On(Server) \in Pipe
    BY Top DEF ReadPends, Is
<1>5. PICK p \in Pipe : On(Server) = p
    BY <1>0
<1>1. Server \in Thread /\ Busy(Server) /\ p \in Pipe /\ AtTop("ReadFile", p)
    BY <1>0, <1>5 DEF ReadPends, AtTop
<1>2. PICK f \in Call : f = At("pend", p)
    BY <1>1, CallsAreCalls
<1>3. PICK calls \in Seq(Call) : calls = <<f>>
    BY ListsAreLists
<1>4. /\ Goes(Server, calls) /\ Open(p)
      /\ UNCHANGED <<link, connecting, mCurrentState, mPendingIO, buffer>>
      /\ overlap' = [overlap EXCEPT ![p] = "pending"]
      /\ reading' = reading \cup {p}
      /\ mBytesRead' = [mBytesRead EXCEPT ![p] = "empty"]
      /\ ~Is(Server, "forget") /\ ~Is(Server, "sync")
    BY <1>2, <1>3, <1>5 DEF ReadPends, Is
<1>6. /\ f.step = "pend" /\ f.pipe = p /\ Len(calls) = 1 /\ calls[1] = f /\ calls # <<>>
      /\ \A i \in 1 .. 1 : i = 1
      /\ 1 \in 1 .. 1
    BY <1>2, <1>3 DEF At
<1>7. Paired(calls)
    BY <1>3, <1>6, PairedLists
<1>8. \A q \in Pipe \ {p} : Untouched(q)
    BY <1>4 DEF Untouched, TypeOK
<1>9. \E i \in 1 .. Len(calls) : calls[i].step \in ChangeStep /\ calls[i].pipe = p
    BY <1>6 DEF ChangeStep
<1>10. TopAgrees'
    <2>1. \A s, q : AtTop(s, q)' => s = "pend" /\ q = p
        BY <1>1, <1>4, <1>6, TopOnceGone
    <2>2. ForRead(p)'
        <3>1. mCurrentState[p] = "READING"
            BY <1>1 DEF AloneInv, TopAgrees
        <3> QED BY <3>1, <1>4 DEF ForRead, Open
    <2> QED BY <2>1, <2>2 DEF TopAgrees
<1>11. ReadsPend'
    BY <1>1, <1>4 DEF AloneInv, ReadsPend, TypeOK
<1>12. \A i \in 1 .. Len(calls) :
          calls[i].step # "result" /\ (calls[i].step = "callback" => calls[i].whole)
    BY <1>6
<1> QED BY <1>1, <1>4, <1>5, <1>7, <1>8, <1>9, <1>10, <1>11, <1>12, GoesKeeps

\* A read that ends at once leaves the message in the buffer and its length in
\* mBytesRead; one that is too long is left to GetOverlappedResult.
LEMMA ReadSucceedsKeeps ==
    ASSUME TypeOK, TypeOK', PipesSafe, Thread = {Server}, AloneInv, ReadSucceeds(Server)
    PROVE  AloneInv'
<1>0. Server \in Thread /\ Busy(Server) /\ On(Server) \in Pipe
    BY Top DEF ReadSucceeds, Is
<1>p. PICK p \in Pipe : On(Server) = p
    BY <1>0
<1>m. PICK m : m = Head(Incoming(p))
    OBVIOUS
<1>1. /\ Server \in Thread /\ Busy(Server) /\ p \in Pipe /\ AtTop("ReadFile", p)
      /\ Head(todo[Server]) = todo[Server][1] /\ Len(todo[Server]) \in Nat \ {0}
    BY <1>0, <1>p, Top DEF ReadSucceeds, AtTop
<1>2. /\ todo[Server][1].step = "ReadFile" /\ todo[Server][1].pipe = p
      /\ 1 \in DOMAIN todo[Server]
    BY <1>1 DEF AtTop, Is, On, TypeOK
<1>3. Len(todo[Server]) = 1 /\ p \notin reading
    BY <1>1, <1>2 DEF PipesSafe, ReadsLast, ReadingQuiet, ReadStep
<1>4. Incoming(p) # <<>>
    BY <1>p DEF ReadSucceeds
<1>5. m \in Length /\ link[p] # NoClient
    BY <1>1, <1>4, <1>m, IncomingType DEF Incoming
<1>6. /\ UNCHANGED <<link, connecting, reading, mCurrentState, mPendingIO>>
      /\ overlap' = [overlap EXCEPT ![p] = IF m = "long" THEN "failed" ELSE m]
      /\ buffer' = [buffer EXCEPT ![p] = m]
      /\ mBytesRead' = [mBytesRead EXCEPT ![p] = m]
      /\ m = "fits" => Goes(Server, <<At("sync", p)>>)
      /\ m = "long" => Goes(Server, <<At("pend", p)>>)
      /\ m = "empty" => Goes(Server, DisconnectAndReconnect(p))
      /\ ~Is(Server, "forget") /\ ~Is(Server, "sync")
    BY <1>p, <1>m DEF ReadSucceeds, Completes, BytesReadAtOnce, AfterReadError, Is
<1>7. On(Server) = p /\ mCurrentState[p] = "READING"
    BY <1>1, <1>p DEF AloneInv, TopAgrees
<1>8. \A q \in Pipe \ {p} : Untouched(q)
    BY <1>6 DEF Untouched, TypeOK
<1>9. ReadsPend'
    BY <1>3, <1>6 DEF AloneInv, ReadsPend, TypeOK
<1>10. ASSUME NEW s \in {"sync", "pend"}, Goes(Server, <<At(s, p)>>),
              s = "sync" => ForMessage(p)', s = "pend" => ForRead(p)'
       PROVE  AloneInv'
    <2>1. PICK f \in Call : f = At(s, p)
        BY <1>1, CallsAreCalls
    <2>2. PICK calls \in Seq(Call) : calls = <<f>>
        BY ListsAreLists
    <2>3. Goes(Server, calls)
        BY <1>10, <2>1, <2>2
    <2>4. /\ f.step = s /\ f.pipe = p /\ Len(calls) = 1 /\ calls[1] = f /\ calls # <<>>
          /\ \A i \in 1 .. 1 : i = 1
          /\ 1 \in 1 .. 1
        BY <2>1, <2>2 DEF At
    <2>5. Paired(calls)
        BY <2>2, <2>4, PairedLists
    <2>6. \E i \in 1 .. Len(calls) : calls[i].step \in ChangeStep /\ calls[i].pipe = p
        BY <2>4 DEF ChangeStep
    <2>7. TopAgrees'
        <3>1. \A r, q : AtTop(r, q)' => r = s /\ q = p
            BY <1>1, <2>3, <2>4, TopOnceGone
        <3>2. Len(todo'[Server]) = 1
            BY <1>1, <1>3, <2>3, <2>4, TopOnceGone
        <3> QED BY <1>10, <3>1, <3>2 DEF TopAgrees
    <2>8. \A i \in 1 .. Len(calls) :
              calls[i].step # "result" /\ (calls[i].step = "callback" => calls[i].whole)
        BY <2>4
    <2> QED BY <1>1, <1>6, <1>7, <1>8, <1>9, <2>3, <2>5, <2>6, <2>7, <2>8, GoesKeeps
<1>11. CASE m = "fits"
    <2>1. ForMessage(p)'
        BY <1>1, <1>3, <1>5, <1>6, <1>7, <1>11 DEF ForMessage, TypeOK
    <2> QED BY <2>1, <1>6, <1>10, <1>11
<1>12. CASE m = "long"
    <2>1. ForRead(p)'
        BY <1>1, <1>5, <1>6, <1>7, <1>12 DEF ForRead, TypeOK
    <2> QED BY <2>1, <1>6, <1>10, <1>12
<1>13. CASE m = "empty"
    BY <1>1, <1>6, <1>7, <1>8, <1>9, <1>13, GoesToDisconnect
<1> QED BY <1>5, <1>11, <1>12, <1>13 DEF Length

\* mPendingIO = FALSE: after a read that has ended at once, or on the way to
\* mPendingIO = TRUE in ConnectToNewClient.
LEMMA NotesSyncKeeps ==
    ASSUME TypeOK, TypeOK', Thread = {Server}, AloneInv, NotesSync(Server)
    PROVE  AloneInv'
<1>0. Server \in Thread /\ Busy(Server) /\ On(Server) \in Pipe
    BY Top DEF NotesSync, Is
<1>1. PICK p \in Pipe : On(Server) = p
    BY <1>0
<1>2. /\ Returns(Server) /\ UNCHANGED <<kernelVars, ioVars, mCurrentState, buffer, mBytesRead>>
      /\ mPendingIO' = [mPendingIO EXCEPT ![p] = FALSE]
    BY <1>1 DEF NotesSync
<1>3. /\ <<>> \in Seq(Call) /\ Goes(Server, <<>>) /\ Len(todo[Server]) \in Nat \ {0}
      /\ \A s, q : AtTop(s, q)' =>
            /\ 2 \in 1 .. Len(todo[Server])
            /\ todo[Server][2].step = s /\ todo[Server][2].pipe = q
    BY <1>0, <1>2, TopOnceBack
<1>4. IF Len(todo[Server]) = 1 THEN ForMessage(p)
      ELSE todo[Server][2] = At("pend", p) /\ ForClient(p)
    BY <1>1 DEF AloneInv, TopAgrees, NotesSync, AtTop
<1>5. \A q \in Pipe \ {p} : Untouched(q)
    BY <1>2 DEF Untouched, kernelVars, ioVars, TypeOK
<1>6. ReadsPend'
    BY <1>2 DEF AloneInv, ReadsPend, kernelVars, ioVars
<1>7. TopAgrees' /\ \/ Agrees(p)'
                    \/ /\ 2 \in 1 .. Len(todo[Server])
                       /\ todo[Server][2].step \in ChangeStep /\ todo[Server][2].pipe = p
    <2>1. CASE Len(todo[Server]) = 1
        <3>1. Agrees(p)'
            BY <1>2, <1>4, <2>1 DEF Agrees, ForMessage, kernelVars, ioVars, TypeOK
        <3>2. 2 \notin 1 .. Len(todo[Server])
            BY <2>1
        <3>3. \A s, q : ~AtTop(s, q)'
            BY <1>3, <3>2
        <3>4. TopAgrees'
            BY <3>3 DEF TopAgrees
        <3> QED BY <3>1, <3>4
    <2>2. CASE Len(todo[Server]) # 1
        <3>a. \A n \in Nat \ {0} : n # 1 => 2 \in 1 .. n
            OBVIOUS
        <3>b. 2 \in 1 .. Len(todo[Server])
            BY <3>a, <1>3, <2>2
        <3>c. todo[Server][2].step = "pend" /\ todo[Server][2].pipe = p
            BY <1>4, <2>2 DEF At
        <3>1. /\ 2 \in 1 .. Len(todo[Server])
              /\ todo[Server][2].step = "pend" /\ todo[Server][2].pipe = p
            BY <3>b, <3>c
        <3>2. ForClient(p)'
            BY <1>2, <1>4, <2>2 DEF ForClient, kernelVars, ioVars
        <3>3. \A s, q : AtTop(s, q)' => s = "pend" /\ q = p
            BY <1>3, <3>1
        <3> QED BY <3>1, <3>2, <3>3 DEF TopAgrees, ChangeStep
    <2> QED BY <2>1, <2>2
<1>8. Paired(<<>>) /\ Len(<<>>) = 0 /\ \A i \in 1 .. 0 : FALSE
    BY PairedLists
<1> QED BY <1>0, <1>1, <1>3, <1>5, <1>6, <1>7, <1>8, GoesKeeps

\* mPendingIO = TRUE: the fields of the pipe are up to date.
LEMMA NotesPendingKeeps ==
    ASSUME TypeOK, TypeOK', Thread = {Server}, AloneInv, NotesPending(Server)
    PROVE  AloneInv'
<1>0. Server \in Thread /\ Busy(Server) /\ On(Server) \in Pipe
    BY Top DEF NotesPending, Is
<1>1. PICK p \in Pipe : On(Server) = p
    BY <1>0
<1>2. /\ Returns(Server) /\ UNCHANGED <<kernelVars, ioVars, mCurrentState, buffer, mBytesRead>>
      /\ mPendingIO' = [mPendingIO EXCEPT ![p] = TRUE]
      /\ ~Is(Server, "forget") /\ ~Is(Server, "sync")
    BY <1>1 DEF NotesPending, Is
<1>3. <<>> \in Seq(Call) /\ Goes(Server, <<>>) /\ Len(todo[Server]) \in Nat \ {0}
    BY <1>0, <1>2, TopOnceBack
<1>4. ForClient(p) \/ ForRead(p)
    BY <1>1 DEF AloneInv, TopAgrees, NotesPending, AtTop
<1>5. \A q \in Pipe \ {p} : Untouched(q)
    BY <1>2 DEF Untouched, kernelVars, ioVars, TypeOK
<1>6. ReadsPend'
    BY <1>2 DEF AloneInv, ReadsPend, kernelVars, ioVars
<1>7. Agrees(p)'
    BY <1>2, <1>4 DEF Agrees, ForClient, ForRead, kernelVars, ioVars, TypeOK
<1>8. TopAgrees'
    <2>1. Turns(Server, <<>>, 1)
        BY <1>0, <1>3, GoesTurns
    <2>2. 1 <= Len(todo[Server]) /\ 1 \in {0, 1} /\ Paired(todo[Server])
        BY <1>3 DEF AloneInv, StackFits
    <2> QED BY <1>0, <1>2, <1>3, <2>1, <2>2, TopAfterPlain
<1>9. Paired(<<>>) /\ Len(<<>>) = 0 /\ \A i \in 1 .. 0 : FALSE
    BY PairedLists
<1> QED BY <1>0, <1>1, <1>3, <1>5, <1>6, <1>7, <1>8, <1>9, GoesKeeps

\* mCurrentState = CONNECTING, with DisconnectNamedPipe next.
LEMMA ForgetsKeeps ==
    ASSUME TypeOK, TypeOK', Thread = {Server}, AloneInv, Forgets(Server)
    PROVE  AloneInv'
<1>0. /\ Server \in Thread /\ Busy(Server) /\ On(Server) \in Pipe
      /\ Head(todo[Server]) = todo[Server][1]
    BY Top DEF Forgets, Is
<1>1. PICK p \in Pipe : On(Server) = p
    BY <1>0
<1>2. /\ Returns(Server)
      /\ UNCHANGED <<kernelVars, ioVars, mPendingIO, buffer, mBytesRead>>
      /\ mCurrentState' = [mCurrentState EXCEPT ![p] = "CONNECTING"]
    BY <1>1 DEF Forgets, StateAfterDisconnect
<1>3. /\ <<>> \in Seq(Call) /\ Goes(Server, <<>>) /\ Len(todo[Server]) \in Nat \ {0}
      /\ \A s, q : AtTop(s, q)' =>
            /\ 2 \in 1 .. Len(todo[Server])
            /\ todo[Server][2].step = s /\ todo[Server][2].pipe = q
    BY <1>0, <1>2, TopOnceBack
<1>4. /\ 2 \in 1 .. Len(todo[Server])
      /\ todo[Server][2].step = "DisconnectNamedPipe" /\ todo[Server][2].pipe = p
    <2>1. todo[Server][1].step = "forget" /\ todo[Server][1].pipe = p
        BY <1>0, <1>1 DEF Forgets, Is, On
    <2>2. 1 \in 1 .. Len(todo[Server]) /\ 1 + 1 = 2
        BY <1>3
    <2>3. 1 < Len(todo[Server]) /\ todo[Server][2] = At("DisconnectNamedPipe", p)
        BY <2>1, <2>2 DEF AloneInv, StackFits, Paired
    <2> QED BY <1>3, <2>3 DEF At
<1>5. \A q \in Pipe \ {p} : Untouched(q)
    BY <1>2 DEF Untouched, kernelVars, ioVars, TypeOK
<1>6. ReadsPend'
    BY <1>2 DEF AloneInv, ReadsPend, kernelVars, ioVars
<1>7. TopAgrees'
    <2>1. \A s, q : AtTop(s, q)' => s = "DisconnectNamedPipe" /\ q = p
        BY <1>3, <1>4
    <2>2. mCurrentState'[p] = "CONNECTING"
        BY <1>2 DEF TypeOK
    <2> QED BY <2>1, <2>2 DEF TopAgrees
<1>8. Paired(<<>>) /\ Len(<<>>) = 0 /\ \A i \in 1 .. 0 : FALSE
    BY PairedLists
<1>9. todo[Server][2].step \in ChangeStep
    BY <1>4 DEF ChangeStep, WorkStep
<1> QED BY <1>0, <1>1, <1>3, <1>4, <1>5, <1>6, <1>7, <1>8, <1>9, GoesKeeps

\* DisconnectNamedPipe: nobody else has disconnected the pipe, so it succeeds
\* and ConnectNamedPipe is next.
LEMMA DisconnectsKeepsAlone ==
    ASSUME TypeOK, TypeOK', Thread = {Server}, AloneInv, Disconnects(Server)
    PROVE  AloneInv'
<1>0. Server \in Thread /\ Busy(Server) /\ On(Server) \in Pipe
    BY Top DEF Disconnects, Is
<1>1. PICK p \in Pipe : On(Server) = p
    BY <1>0
<1>2. PICK f \in Call : f = At("ConnectNamedPipe", p)
    BY <1>1, CallsAreCalls
<1>3. PICK calls \in Seq(Call) : calls = <<f>>
    BY ListsAreLists
<1>4. /\ Goes(Server, calls) /\ UNCHANGED fieldVars
      /\ link' = [link EXCEPT ![p] = NoClient]
      /\ connecting' = [connecting EXCEPT ![p] = "nobody"]
      /\ reading' = reading \ {p}
      /\ overlap' = [overlap EXCEPT ![p] = "failed"] \/ overlap' = overlap
      /\ ~Is(Server, "forget") /\ ~Is(Server, "sync")
    BY <1>1, <1>2, <1>3 DEF Disconnects, AfterDisconnect, Completes, ioVars, Is
<1>5. /\ f.step = "ConnectNamedPipe" /\ f.pipe = p
      /\ Len(calls) = 1 /\ calls[1] = f /\ calls # <<>>
      /\ \A i \in 1 .. 1 : i = 1
      /\ 1 \in 1 .. 1
    BY <1>2, <1>3 DEF At
<1>6. Paired(calls)
    BY <1>3, <1>5, PairedLists
<1>7. \A q \in Pipe \ {p} : Untouched(q)
    BY <1>4 DEF Untouched, fieldVars, TypeOK
<1>8. \E i \in 1 .. Len(calls) : calls[i].step \in ChangeStep /\ calls[i].pipe = p
    BY <1>5 DEF ChangeStep, WorkStep
<1>9. TopAgrees'
    <2>1. \A s, q : AtTop(s, q)' => s = "ConnectNamedPipe" /\ q = p
        BY <1>0, <1>4, <1>5, TopOnceGone
    <2>2. mCurrentState[p] = "CONNECTING"
        BY <1>1 DEF AloneInv, TopAgrees, Disconnects, AtTop
    <2> QED BY <1>4, <2>1, <2>2 DEF TopAgrees, fieldVars
<1>10. ReadsPend'
    BY <1>4 DEF AloneInv, ReadsPend, TypeOK
<1>11. \A i \in 1 .. Len(calls) :
          calls[i].step # "result" /\ (calls[i].step = "callback" => calls[i].whole)
    BY <1>5
<1> QED BY <1>0, <1>1, <1>4, <1>6, <1>7, <1>8, <1>9, <1>10, <1>11, GoesKeeps

\* ConnectNamedPipe waits for a client, and mPendingIO will say so.
LEMMA ConnectsKeepsAlone ==
    ASSUME TypeOK, TypeOK', PipesSafe, Thread = {Server}, AloneInv, Connects(Server)
    PROVE  AloneInv'
<1>0. Server \in Thread /\ Busy(Server) /\ On(Server) \in Pipe
    BY Top DEF Connects, Is
<1>1. PICK p \in Pipe : On(Server) = p
    BY <1>0
<1>2. PICK f, g \in Call : f = At("sync", p) /\ g = At("pend", p)
    BY <1>1, CallsAreCalls
<1>3. PICK calls \in Seq(Call) : calls = <<f, g>>
    BY ListsAreLists
<1>4. /\ Goes(Server, calls) /\ UNCHANGED <<link, reading, fieldVars>>
      /\ connecting' = [connecting EXCEPT ![p] = Server]
      /\ overlap' = [overlap EXCEPT ![p] = "pending"]
      /\ ~Is(Server, "forget") /\ ~Is(Server, "sync")
    BY <1>1, <1>2, <1>3 DEF Connects, Is
<1>5. /\ f.step = "sync" /\ f.pipe = p /\ g.step = "pend"
      /\ Len(calls) = 2 /\ calls[1] = f /\ calls[2] = g /\ calls # <<>>
      /\ \A i \in 1 .. 2 : i = 1 \/ i = 2
      /\ 1 \in 1 .. 2 /\ 2 \in 1 .. 2
    BY <1>2, <1>3 DEF At
<1>6. Paired(calls)
    BY <1>2, <1>3, PairedLists
<1>7. \A q \in Pipe \ {p} : Untouched(q)
    BY <1>4 DEF Untouched, fieldVars, TypeOK
<1>8. \E i \in 1 .. Len(calls) : calls[i].step \in ChangeStep /\ calls[i].pipe = p
    BY <1>5 DEF ChangeStep
<1>9. TopAgrees'
    <2>1. /\ \A s, q : AtTop(s, q)' => s = "sync" /\ q = p
          /\ Len(todo'[Server]) # 1 /\ todo'[Server][2] = At("pend", p)
        <3>1. /\ Len(todo'[Server]) = Len(calls) + Len(todo[Server]) - 1
              /\ Len(todo[Server]) \in Nat \ {0}
              /\ todo'[Server][2] = calls[2]
              /\ \A s, q : AtTop(s, q)' <=> s = calls[1].step /\ q = calls[1].pipe
            BY <1>0, <1>4, <1>5, TopOnceGone
        <3> QED BY <3>1, <1>2, <1>5
    <2>2. mCurrentState[p] = "CONNECTING"
        BY <1>1 DEF AloneInv, TopAgrees, Connects, AtTop
    <2>3. link[p] = NoClient
        BY <1>0, <1>1 DEF PipesSafe, OneReconnects, Down, Connects
    <2>4. ForClient(p)'
        BY <1>4, <2>2, <2>3 DEF ForClient, fieldVars, TypeOK
    <2> QED BY <2>1, <2>4 DEF TopAgrees
<1>10. ReadsPend'
    BY <1>4 DEF AloneInv, ReadsPend, TypeOK
<1>11. \A i \in 1 .. Len(calls) :
          calls[i].step # "result" /\ (calls[i].step = "callback" => calls[i].whole)
    BY <1>5
<1> QED BY <1>0, <1>1, <1>4, <1>6, <1>7, <1>8, <1>9, <1>10, <1>11, GoesKeeps

\* A call of the host in a callback comes on top.
LEMMA CallsKeepAlone ==
    ASSUME TypeOK, TypeOK', Thread = {Server}, Host = {}, AloneInv,
           NEW calls \in Seq(Call), calls # <<>>, Calls(Server, calls), Paired(calls),
           \A i \in 1 .. Len(calls) :
              calls[i].step # "result" /\ (calls[i].step = "callback" => calls[i].whole),
           calls[1].step \notin TopStep
    PROVE  AloneInv'
<1>1. Server \in Thread /\ 0 \in {0, 1} /\ 0 # 1
    OBVIOUS
<1>2. Turns(Server, calls, 0)
    BY <1>1, PushTurns DEF Calls
<1>3. 0 <= Len(todo[Server])
    BY <1>1, LenProperties DEF TypeOK
<1>4. Is(Server, "callback")
    BY DEF Calls, MayCall
<1>5. \A q \in Pipe : Untouched(q)
    BY DEF Calls, Untouched, kernelVars, ioVars, fieldVars
<1> QED BY <1>1, <1>2, <1>3, <1>4, <1>5, PlainKeeps

\* The thread that waits has nothing on its stack, so every pipe is settled.
LEMMA WakesKeepsAlone ==
    ASSUME TypeOK, TypeOK', Thread = {Server}, AloneInv, NEW p \in Pipe, Wakes(p)
    PROVE  AloneInv'
<1> DEFINE new == <<At("result", p)>>
<1>1. Server \in Thread /\ \A t \in Thread : t = Server
    OBVIOUS
<1>2. /\ todo[Server] = <<>> /\ todo'[Server] = new
      /\ UNCHANGED <<kernelVars, ioVars, fieldVars>>
    BY <1>1 DEF Wakes, Busy, TypeOK
<1>3. /\ Len(new) = 1 /\ DOMAIN new = 1 .. 1 /\ \A k \in 1 .. 1 : k = 1
      /\ new[1].step = "result" /\ new # <<>> /\ Head(new) = new[1]
    BY DEF At
<1> HIDE DEF new
<1>4. Paired(new) /\ ResultAlone(new)
    BY <1>3 DEF Paired, ResultAlone
<1>5. MessagesWhole'
    BY <1>1, <1>2, <1>3 DEF MessagesWhole
<1>6. \A q \in Pipe : Untouched(q)
    BY <1>2 DEF Untouched, kernelVars, ioVars, fieldVars
<1>7. Settled'
    <2>1. Len(todo[Server]) = 0 /\ \A k \in 1 .. 0 : FALSE
        BY <1>2
    <2>2. \A q \in Pipe : Agrees(q)
        BY <2>1 DEF AloneInv, StackFits, Settled, Changing
    <2> QED BY <2>2, <1>6, UntouchedAgrees DEF Settled
<1>8. TopAgrees'
    BY <1>2, <1>3 DEF TopAgrees, AtTop, Is
<1>9. ReadsPend'
    BY <1>2 DEF AloneInv, ReadsPend, kernelVars, ioVars
<1> QED BY <1>2, <1>4, <1>5, <1>7, <1>8, <1>9 DEF AloneInv, StackFits

\* The steps of the server thread that leave the pipes' fields alone.
LEMMA OtherStepsKeep ==
    ASSUME TypeOK, TypeOK', PipesSafe, Thread = {Server}, AloneInv,
           \/ FindsFailure(Server) \/ FindsClient(Server) \/ DisconnectFails(Server)
           \/ Locks(Server) \/ WritePends(Server) \/ WriteSucceeds(Server)
           \/ WriteFails(Server) \/ BroadcastsNext(Server) \/ BroadcastEnds(Server)
           \/ CallbackReturns(Server)
    PROVE  AloneInv'
<1>1. Server \in Thread /\ \A t \in Thread : t = Server
    OBVIOUS
<1>2. CASE DisconnectFails(Server)
    <2>1. Is(Server, "DisconnectNamedPipe") /\ On(Server) \in Pipe /\ Down(On(Server))
        BY <1>1, <1>2, Top DEF DisconnectFails, Is
    <2>2. PICK t \in Thread : Is(t, "ConnectNamedPipe")
        BY <2>1 DEF PipesSafe, OneReconnects
    <2> QED BY <1>1, <2>1, <2>2 DEF Is
<1> SUFFICES ASSUME ~DisconnectFails(Server) PROVE AloneInv'
    BY <1>2
<1>3. /\ Busy(Server) /\ Head(todo[Server]).step \notin ChangeStep
      /\ ~Is(Server, "broadcast") => On(Server) \in Pipe
      /\ Is(Server, "broadcast") => On(Server) \in 0 .. NPipes
    <2>1. Busy(Server) /\ Head(todo[Server]).step \notin ChangeStep
        BY DEF FindsFailure, FindsClient, Locks, WritePends, WriteSucceeds, WriteFails,
               BroadcastsNext, BroadcastEnds, CallbackReturns, Is, ChangeStep, WorkStep
    <2> QED BY <1>1, <2>1, Top
<1>4. \A q \in Pipe : Untouched(q)
    BY DEF FindsFailure, FindsClient, Locks, WritePends, WriteSucceeds, WriteFails,
           BroadcastsNext, BroadcastEnds, CallbackReturns, Untouched, kernelVars, ioVars,
           fieldVars
<1>5. CASE FindsFailure(Server) \/ WriteFails(Server)
    <2>1. On(Server) \in Pipe /\ Goes(Server, DisconnectAndReconnect(On(Server)))
        BY <1>3, <1>5 DEF FindsFailure, WriteFails, Is
    <2>2. PICK calls \in Seq(Call) : calls = DisconnectAndReconnect(On(Server))
        BY <2>1, ListsAreLists
    <2>3. /\ Paired(calls) /\ calls[1].step = "callback"
          /\ \A i \in 1 .. Len(calls) :
                calls[i].step # "result" /\ (calls[i].step = "callback" => calls[i].whole)
        BY <2>1, <2>2, DisconnectList
    <2>4. Goes(Server, calls) /\ calls[1].step \notin TopStep
        BY <2>1, <2>2, <2>3 DEF TopStep
    <2> QED BY <1>3, <1>4, <2>3, <2>4, GoesPlainly
<1>6. CASE WriteSucceeds(Server) \/ BroadcastEnds(Server) \/ CallbackReturns(Server)
    <2>1. Goes(Server, <<>>) /\ <<>> \in Seq(Call) /\ Paired(<<>>)
        BY <1>6, ListsAreLists, PairedLists
           DEF WriteSucceeds, BroadcastEnds, CallbackReturns, Returns
    <2>2. Len(<<>>) = 0 /\ \A i \in 1 .. 0 : FALSE
        OBVIOUS
    <2> QED BY <1>3, <1>4, <2>1, <2>2, GoesPlainly
<1>7. ASSUME NEW f \in Call, Goes(Server, <<f>>),
             f.step \notin TopStep \cup {"result", "callback", "forget"}
      PROVE  AloneInv'
    <2>1. PICK calls \in Seq(Call) : calls = <<f>>
        BY ListsAreLists
    <2>2. /\ Paired(calls) /\ calls[1].step \notin TopStep
          /\ \A i \in 1 .. Len(calls) :
                calls[i].step # "result" /\ (calls[i].step = "callback" => calls[i].whole)
        <3>1. Len(calls) = 1 /\ calls[1] = f /\ \A i \in 1 .. 1 : i = 1
            BY <2>1
        <3> QED BY <1>7, <2>1, <3>1, PairedLists
    <2>3. Goes(Server, calls)
        BY <1>7, <2>1
    <2> QED BY <1>3, <1>4, <2>2, <2>3, GoesPlainly
<1>8. ASSUME NEW f \in Call, NEW g \in Call, Goes(Server, <<f, g>>),
             f.step \notin TopStep \cup {"result", "forget"},
             f.step = "callback" => f.whole,
             g.step \in {"read", "broadcast"}
      PROVE  AloneInv'
    <2>1. PICK calls \in Seq(Call) : calls = <<f, g>>
        BY ListsAreLists
    <2>2. /\ Paired(calls) /\ calls[1].step \notin TopStep
          /\ \A i \in 1 .. Len(calls) :
                calls[i].step # "result" /\ (calls[i].step = "callback" => calls[i].whole)
        <3>1. /\ Len(calls) = 2 /\ calls[1] = f /\ calls[2] = g
              /\ \A i \in 1 .. 2 : i = 1 \/ i = 2
            BY <2>1
        <3>2. Paired(<<f, g>>)
            BY <1>8, PairedLists
        <3> QED BY <1>8, <2>1, <3>1, <3>2
    <2>3. Goes(Server, calls)
        BY <1>8, <2>1
    <2> QED BY <1>3, <1>4, <2>2, <2>3, GoesPlainly
<1>9. CASE FindsClient(Server)
    <2>1. On(Server) \in Pipe
        BY <1>3, <1>9 DEF FindsClient, Is
    <2>2. PICK f, g \in Call : f = Callback("connect", On(Server), TRUE)
                                 /\ g = At("read", On(Server))
        BY <2>1, CallsAreCalls
    <2>3. Goes(Server, <<f, g>>) /\ f.step = "callback" /\ f.whole /\ g.step = "read"
        BY <1>9, <2>2 DEF FindsClient, Callback, At
    <2> QED BY <2>3, <1>8 DEF TopStep
<1>10. CASE Locks(Server) \/ WritePends(Server)
    <2>1. On(Server) \in Pipe
        BY <1>3, <1>10 DEF Locks, WritePends, Is
    <2>2. PICK f \in Call : Goes(Server, <<f>>) /\ f.step \in {"WriteFile", "wait"}
        BY <1>10, <2>1, CallsAreCalls DEF Locks, WritePends, At
    <2> QED BY <2>2, <1>7 DEF TopStep
<1>11. CASE BroadcastsNext(Server)
    <2>1. On(Server) \in Pipe /\ On(Server) + 1 \in 0 .. NPipes
        BY <1>3, <1>11, PipesAssumption DEF BroadcastsNext, Pipe
    <2>2. PICK f, g \in Call : f = At("lock", On(Server))
                                 /\ g = At("broadcast", On(Server) + 1)
        BY <2>1, CallsAreCalls
    <2>3. f.step = "lock" /\ g.step = "broadcast"
        BY <2>2 DEF At
    <2>4. Goes(Server, <<f, g>>) \/ Goes(Server, <<g>>)
        BY <1>11, <2>2 DEF BroadcastsNext
    <2> QED BY <2>3, <2>4, <1>7, <1>8 DEF TopStep
<1> QED BY <1>5, <1>6, <1>9, <1>10, <1>11

-----------------------------------------------------------------------------
(***************************************************************************)
(* What holds if the host calls in callbacks only                          *)
(***************************************************************************)

\* The invariant of the server thread on its own holds from the start.
LEMMA AloneInit == ASSUME Host = {}, Init PROVE AloneInv
<1>1. Thread = {Server} /\ todo[Server] = <<>> /\ Len(<<>>) = 0 /\ \A k \in 1 .. 0 : FALSE
    BY DEF Init, Thread
<1>2. Paired(todo[Server]) /\ ResultAlone(todo[Server])
    BY <1>1 DEF Paired, ResultAlone
<1>3. MessagesWhole
    BY <1>1 DEF MessagesWhole
<1>4. \A p \in Pipe : Agrees(p)
    BY DEF Init, Agrees, ForClient
<1>5. TopAgrees
    BY <1>1 DEF TopAgrees, AtTop, Is, Busy
<1>6. ReadsPend
    BY DEF Init, ReadsPend
<1> QED BY <1>2, <1>3, <1>4, <1>5, <1>6 DEF AloneInv, StackFits, Settled

\* Every step keeps it.
LEMMA AloneStep ==
    ASSUME Host = {}, IInv, TypeOK', AloneInv, [Next]_vars
    PROVE  AloneInv'
<1>1. /\ Thread = {Server} /\ Server \in Thread /\ \A t \in Thread : t = Server
      /\ TypeOK /\ PipesSafe
    BY DEF Thread, IInv
<1>2. CASE ClientNext
    BY <1>1, <1>2, ClientKeepsAlone
<1>3. CASE HostNext
    <2>1. ASSUME NEW p \in Pipe, CallsSend(Server, p) PROVE AloneInv'
        <3>1. PICK f \in Call : f = At("lock", p)
            BY CallsAreCalls
        <3>2. PICK calls \in Seq(Call) : calls = <<f>>
            BY ListsAreLists
        <3>3. /\ f.step = "lock" /\ calls # <<>> /\ calls[1] = f /\ Len(calls) = 1
              /\ \A i \in 1 .. 1 : i = 1
            BY <3>1, <3>2 DEF At
        <3>4. Paired(calls)
            BY <3>2, <3>3, PairedLists
        <3>5. Calls(Server, calls)
            BY <2>1, <3>1, <3>2 DEF CallsSend
        <3>6. calls[1].step \notin TopStep
            BY <3>3 DEF TopStep
        <3> QED BY <1>1, <3>3, <3>4, <3>5, <3>6, CallsKeepAlone
    <2>2. ASSUME NEW p \in Pipe, CallsDisconnect(Server, p) PROVE AloneInv'
        <3>1. PICK calls \in Seq(Call) : calls = DisconnectAndReconnect(p)
            BY ListsAreLists
        <3>2. Calls(Server, calls)
            BY <2>2, <3>1 DEF CallsDisconnect
        <3>3. /\ calls # <<>> /\ Paired(calls) /\ calls[1].step = "callback"
              /\ \A i \in 1 .. Len(calls) :
                    calls[i].step # "result" /\ (calls[i].step = "callback" => calls[i].whole)
            BY <3>1, DisconnectList
        <3>4. calls[1].step \notin TopStep
            BY <3>3 DEF TopStep
        <3> QED BY <1>1, <3>2, <3>3, <3>4, CallsKeepAlone
    <2>3. ASSUME CallsBroadcast(Server) PROVE AloneInv'
        <3>0. 0 \in 0 .. NPipes
            BY PipesAssumption
        <3>1. PICK f \in Call : f = At("broadcast", 0)
            BY <3>0, CallsAreCalls
        <3>2. PICK calls \in Seq(Call) : calls = <<f>>
            BY ListsAreLists
        <3>3. /\ f.step = "broadcast" /\ calls # <<>> /\ calls[1] = f /\ Len(calls) = 1
              /\ \A i \in 1 .. 1 : i = 1
            BY <3>1, <3>2 DEF At
        <3>4. Paired(calls)
            BY <3>2, <3>3, PairedLists
        <3>5. Calls(Server, calls)
            BY <2>3, <3>1, <3>2 DEF CallsBroadcast
        <3>6. calls[1].step \notin TopStep
            BY <3>3 DEF TopStep
        <3> QED BY <1>1, <3>3, <3>4, <3>5, <3>6, CallsKeepAlone
    <2> QED BY <1>1, <1>3, <2>1, <2>2, <2>3 DEF HostNext
<1>4. ASSUME NEW p \in Pipe, Wakes(p) PROVE AloneInv'
    BY <1>1, <1>4, WakesKeepsAlone
<1>5. ASSUME Continues(Server) \/ CallbackReturns(Server) PROVE AloneInv'
    BY <1>1, <1>5, FindsMessageKeeps, BeginsReadKeeps, ReadFailsKeeps, ReadPendsKeepsAlone,
       ReadSucceedsKeeps, NotesSyncKeeps, NotesPendingKeeps, ForgetsKeeps,
       DisconnectsKeepsAlone, ConnectsKeepsAlone, OtherStepsKeep DEF Continues
<1>6. CASE UNCHANGED vars
    <2>1. UNCHANGED <<link, connecting, reading, overlap, fieldVars, todo>>
        BY <1>6 DEF vars, kernelVars, ioVars
    <2> QED BY <2>1 DEF fieldVars, AloneInv, StackFits, Settled, Changing, Agrees, ForClient,
                        ForRead, ForMessage, MessagesWhole, TopAgrees, AtTop, Is, On, Busy,
                        ReadsPend
<1> QED BY <1>1, <1>2, <1>3, <1>4, <1>5, <1>6 DEF Next

\* It holds in every reachable state.
LEMMA AloneHolds == ASSUME Host = {} PROVE Spec => []AloneInv
<1>1. TypeOK /\ [Next]_vars => TypeOK'
    BY TypeStep
<1>2. IInv /\ AloneInv /\ [Next]_vars => AloneInv'
    BY <1>1, AloneStep DEF IInv
<1>3. Init => AloneInv
    BY AloneInit
<1> QED BY <1>2, <1>3, IInvHolds, PTL DEF Spec

\* CNamedPipeServer.cpp:215-269: OnMessage is given the length of the message
\* that is in the read buffer, be the read completed at once or later, whatever
\* the callbacks call, if no thread of the host calls the server.
THEOREM MessagesWholeHolds == ASSUME Host = {} PROVE Spec => []MessagesWhole
<1>1. AloneInv => MessagesWhole
    BY DEF AloneInv, StackFits
<1> QED BY <1>1, AloneHolds, PTL

\* CNamedPipeServer.cpp:195-213: what GetPendingOperationResult goes by,
\* mCurrentState and mPendingIO, tells the waiting server thread what is under
\* way on each pipe, if no thread of the host calls the server.
THEOREM FieldsAgreeHolds == ASSUME Host = {} PROVE Spec => []FieldsAgree
<1>1. AloneInv => FieldsAgree
    <2> SUFFICES ASSUME AloneInv, ~Busy(Server), NEW p \in Pipe
                 PROVE  /\ mCurrentState[p] = "CONNECTING" =>
                               mPendingIO[p] /\ IF link[p] = NoClient
                                                THEN connecting[p] = Server
                                                ELSE overlap[p] = "connected"
                        /\ mCurrentState[p] = "READING" =>
                               IF mPendingIO[p]
                               THEN p \in reading \/ overlap[p] \in {"failed"} \cup Length
                               ELSE overlap[p] = "fits" /\ buffer[p] = "fits"
        BY DEF FieldsAgree
    <2>1. Len(todo[Server]) = 0 /\ \A k \in 1 .. 0 : FALSE
        BY DEF Busy
    <2>2. Agrees(p)
        BY <2>1 DEF AloneInv, StackFits, Settled, Changing
    <2> QED BY <2>2 DEF Agrees, ForClient, ForRead, ForMessage
<1> QED BY <1>1, AloneHolds, PTL
=============================================================================
