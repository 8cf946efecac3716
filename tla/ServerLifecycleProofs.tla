------------------------ MODULE ServerLifecycleProofs ------------------------
(***************************************************************************)
(* ServerLifecycle: neither owner object is deleted under its thread, for  *)
(* any number of pipes.                                                    *)
(***************************************************************************)
EXTENDS ServerLifecycle, TLAPS

\* The host has no server to start over while a thread of the last one runs.
IdleMeansEnded == host = "idle" => ~server /\ thread \in {"none", "ended"}

\* Only the broker creates its server on the server's thread and has an
\* IPCServer, and only IPCServer::Stop deletes before it joins.
WrapperSteps ==
    owner = "wrapper" =>
        /\ ~server /\ thread \notin {"new", "assigned"}
        /\ host \in {"deleting", "closing"} => thread = "ended"

\* A destructor that does not run in IPCServer::Stop has joined.
JoinedFirst == host \in {"deleting", "closing"} /\ ~server => thread = "ended"

\* The wrapper's pipe server is there before its thread enters Run.
WrapperReady == owner = "wrapper" /\ thread = "ready" => pServer

IInv ==
    /\ TypeOK
    /\ IdleMeansEnded
    /\ WrapperSteps
    /\ JoinedFirst
    /\ WrapperReady
    /\ WrapperOutlivesThread
    /\ BrokerOutlivesThread

\* Nothing has been started at first.
LEMMA InitHolds == Init => IInv
<1>1. 0 \in 0 .. NPipes /\ 0 \in Pipe BY PipesAssumption DEF Pipe
<1>2. Init => TypeOK BY <1>1 DEF Init, TypeOK
<1>3. Init => /\ IdleMeansEnded /\ WrapperSteps /\ JoinedFirst /\ WrapperReady
              /\ WrapperOutlivesThread /\ BrokerOutlivesThread
    BY DEF Init, IdleMeansEnded, WrapperSteps, JoinedFirst, WrapperReady,
           WrapperOutlivesThread, BrokerOutlivesThread, Inside
<1> QED BY <1>2, <1>3 DEF IInv

\* Every step keeps the types: created counts up to NPipes and no further.
LEMMA TypeStep == TypeOK /\ [Next]_vars => TypeOK'
<1> SUFFICES ASSUME TypeOK, [Next]_vars
             PROVE  TypeOK'
    OBVIOUS
<1> USE PipesAssumption DEF TypeOK, pipeVars
<1>1. CASE ThreadNext
    <2>1. CASE AssignsServer BY <2>1 DEF AssignsServer, Moves
    <2>2. CASE Listens BY <2>2 DEF Listens, Moves
    <2>3. CASE EntersRun BY <2>3 DEF EntersRun, Moves
    <2>4. CASE CreatesPipe BY <2>4 DEF CreatesPipe, MoreToCreate, Moves
    <2>5. CASE CreatesNoMore BY <2>5 DEF CreatesNoMore, Moves
    <2>6. CASE CreateFails BY <2>6 DEF CreateFails, Moves
    <2>7. CASE \E p \in Pipe : Wakes(p) BY <2>7 DEF Wakes, Moves
    <2>8. CASE WakesForExit BY <2>8 DEF WakesForExit, Moves
    <2>9. CASE HandlerReturns BY <2>9 DEF HandlerReturns, Moves
    <2>10. CASE WriteEnds BY <2>10 DEF WriteEnds, Moves
    <2> QED BY <1>1, <2>1, <2>2, <2>3, <2>4, <2>5, <2>6, <2>7, <2>8, <2>9, <2>10 DEF ThreadNext
<1>2. CASE \E p \in Pipe : HandlerWrites(p) \/ ClientTakes(p)
    BY <1>2 DEF HandlerWrites, ClientTakes, Moves
<1>3. CASE \E p \in Pipe : ClientActs(p) BY <1>3 DEF ClientActs
<1>4. CASE \E o \in Owner : Starts(o)
    <2>1. PICK o \in Owner : Starts(o) BY <1>4
    <2>2. 0 \in 0 .. NPipes /\ 0 \in Pipe BY DEF Pipe
    <2>3. thread' \in {"ready", "new"} BY <2>1 DEF Starts
    <2>4. pServer' \in BOOLEAN BY <2>1 DEF Starts
    <2> QED BY <2>1, <2>2, <2>3, <2>4 DEF Starts
<1>5. CASE Stops BY <1>5 DEF Stops, SetsExit, AfterSignal
<1>6. CASE StopsNothing \/ StopsTooEarly BY <1>6 DEF StopsNothing, StopsTooEarly
<1>7. CASE HostStopNext
    <2>1. CASE DeletesPipeServer BY <2>1 DEF DeletesPipeServer
    <2>2. CASE ClosesPipe
        <3>1. created' \in 0 .. NPipes BY <2>2 DEF ClosesPipe
        <3> QED BY <3>1, <2>2 DEF ClosesPipe
    <2>3. CASE ClosesNoMore
        <3>1. host' \in {"joining", "idle"} BY <2>3 DEF ClosesNoMore
        <3> QED BY <3>1, <2>3 DEF ClosesNoMore
    <2>4. CASE Joins
        <3>1. host' \in {"deleting", "idle"} BY <2>4 DEF Joins
        <3> QED BY <3>1, <2>4 DEF Joins
    <2> QED BY <1>7, <2>1, <2>2, <2>3, <2>4 DEF HostStopNext
<1>8. CASE UNCHANGED vars BY <1>8 DEF vars
<1> QED BY <1>1, <1>2, <1>3, <1>4, <1>5, <1>6, <1>7, <1>8 DEF Next

\* Every step keeps the rest: a thread inside Run came through a state in
\* which its owner had been created, and the owner goes after the join, but
\* for the broker's pipe server.
LEMMA OwnerStep == IInv /\ [Next]_vars => (/\ IdleMeansEnded /\ WrapperSteps
                                           /\ JoinedFirst /\ WrapperReady /\ WrapperOutlivesThread
                                           /\ BrokerOutlivesThread)'
<1> SUFFICES ASSUME IInv, [Next]_vars
             PROVE  (/\ IdleMeansEnded /\ WrapperSteps
                     /\ JoinedFirst /\ WrapperReady /\ WrapperOutlivesThread
                     /\ BrokerOutlivesThread)'
    OBVIOUS
<1> USE DEF IInv, TypeOK, IdleMeansEnded, WrapperSteps, JoinedFirst, WrapperReady,
            pipeVars, WrapperOutlivesThread, BrokerOutlivesThread, Inside, Owner
<1>1. CASE ThreadNext
    <2>1. CASE AssignsServer BY <2>1 DEF AssignsServer, Moves
    <2>2. CASE Listens BY <2>2 DEF Listens, Moves
    <2>3. CASE EntersRun BY <2>3 DEF EntersRun, Moves
    <2>4. CASE CreatesPipe BY <2>4 DEF CreatesPipe, Moves
    <2>5. CASE CreatesNoMore BY <2>5 DEF CreatesNoMore, Moves
    <2>6. CASE CreateFails BY <2>6 DEF CreateFails, Moves
    <2>7. CASE \E p \in Pipe : Wakes(p) BY <2>7 DEF Wakes, Moves
    <2>8. CASE WakesForExit BY <2>8 DEF WakesForExit, Moves
    <2>9. CASE HandlerReturns BY <2>9 DEF HandlerReturns, Moves
    <2>10. CASE WriteEnds BY <2>10 DEF WriteEnds, Moves
    <2> QED BY <1>1, <2>1, <2>2, <2>3, <2>4, <2>5, <2>6, <2>7, <2>8, <2>9, <2>10 DEF ThreadNext
<1>2. CASE \E p \in Pipe : HandlerWrites(p) \/ ClientTakes(p)
    BY <1>2 DEF HandlerWrites, ClientTakes, Moves
<1>3. CASE \E p \in Pipe : ClientActs(p) BY <1>3 DEF ClientActs
<1>4. CASE \E o \in Owner : Starts(o)
    <2>1. PICK o \in Owner : Starts(o) BY <1>4
    <2>2. owner' = o /\ host' = "running" /\ ~server' BY <2>1 DEF Starts
    <2>3. CASE o = "wrapper"
        <3>1. thread' = "ready" /\ pServer' BY <2>1, <2>3 DEF Starts
        <3> QED BY <2>2, <2>3, <3>1
    <2>4. CASE o = "broker"
        <3>1. thread' = "new" BY <2>1, <2>4 DEF Starts
        <3> QED BY <2>2, <2>4, <3>1
    <2> QED BY <2>3, <2>4
<1>5. CASE Stops BY <1>5 DEF Stops, AfterSignal
<1>6. CASE StopsNothing \/ StopsTooEarly BY <1>6 DEF StopsNothing, StopsTooEarly
<1>7. CASE DeletesPipeServer \/ ClosesPipe \/ ClosesNoMore
    BY <1>7 DEF DeletesPipeServer, ClosesPipe, ClosesNoMore
<1>8. CASE Joins BY <1>8 DEF Joins, Joinable
<1>9. CASE UNCHANGED vars BY <1>9 DEF vars
<1> QED BY <1>1, <1>2, <1>3, <1>4, <1>5, <1>6, <1>7, <1>8, <1>9 DEF Next, HostStopNext

\* The invariant all theorems of this module come from.
LEMMA Inductive == Spec => []IInv
<1>1. IInv /\ [Next]_vars => IInv'
    BY TypeStep, OwnerStep DEF IInv
<1> QED BY <1>1, InitHolds, PTL DEF Spec

\* The state of a server's owners and threads stays well typed, for any
\* number of pipes.
THEOREM TypeCorrect == Spec => []TypeOK
<1>1. IInv => TypeOK BY DEF IInv
<1> QED BY <1>1, Inductive, PTL

\* ~PipeServerWrapper sets the exit event and joins before it lets the pipe
\* server go (IPC.cpp): Run is never left without its object.
THEOREM WrapperOutlivesThreadHolds == Spec => []WrapperOutlivesThread
<1>1. IInv => WrapperOutlivesThread BY DEF IInv
<1> QED BY <1>1, Inductive, PTL

\* StopBroker joins before it deletes the IPCServer (IPCServerBroker.cpp),
\* whatever the host does while the thread is still starting.
THEOREM BrokerOutlivesThreadHolds == Spec => []BrokerOutlivesThread
<1>1. IInv => BrokerOutlivesThread BY DEF IInv
<1> QED BY <1>1, Inductive, PTL
=============================================================================
