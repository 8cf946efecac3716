-------------------------- MODULE PipeClientProofs --------------------------
(***************************************************************************)
(* Theorems about PipeClient, whatever the application calls from either   *)
(* thread and however much the pipe holds.                                 *)
(***************************************************************************)
EXTENDS PipeClient, TLAPS

-----------------------------------------------------------------------------
(***************************************************************************)
(* The invariant                                                           *)
(***************************************************************************)

\* Within CNamedPipeClient::Connect, before there is a worker.
Connecting == {"open", "await", "mode"}

\* A thread is in a call or at rest, and where it is fits the call; only the
\* application's thread starts a client and joins.
InCalls ==
    /\ \A t \in Thread : (pc[t] = "rest") <=> (call[t] = "none")
    /\ \A t \in Thread : pc[t] = "destroy" => call[t] \in {"stop", "start"}
    /\ \A t \in Thread : pc[t] \in {"lock", "write"} => call[t] # "stop"
    /\ \A t \in Thread : pc[t] \in Connecting => call[t] \in StartCall
    /\ call["worker"] \notin StartCall
    /\ pc["worker"] # "join"

\* m_mutexWrite is held across the write, and across the join that follows a
\* failed one.
MutexHolder ==
    \A t \in Thread :
        mutex = t <=> pc[t] = "write" \/ (pc[t] = "join" /\ call[t] # "stop")

\* m_hEventThreadDone tells whether a worker is running.
DoneTells == ~freed /\ done => loop \in {"off", "ended"}

\* The worker calls only out of its callbacks, and has the client to itself
\* when it stops it.  There is none before Connect has started it.
WorkerCalls ==
    /\ pc["worker"] # "rest" => loop \in {"message", "disconnect"}
    /\ pc["worker"] = "destroy" => pc["app"] = "rest"
    /\ pc["app"] \in Connecting => loop = "off"

\* There is an object for a handle, and without one only within a start, or
\* after one that ended in an exception.
ObjectInUse ==
    /\ call["app"] \in StartCall => handle = "none"
    /\ handle # "none" => ~freed
    /\ ~freed /\ handle = "none" => call["app"] \in StartCall \/ answer.result = "exception"
    /\ freed => peer = "gone"

\* After that exception nobody calls: the object is there, but no handle to it
\* and no worker.
Abandoned ==
    answer.result = "exception" =>
        /\ answer.call = "connect"
        /\ handle = "none" /\ ~freed
        /\ call["app"] = "none" /\ loop = "off"

IInv ==
    /\ TypeOK
    /\ InCalls
    /\ MutexHolder
    /\ DoneTells
    /\ WorkerCalls
    /\ ObjectInUse
    /\ Abandoned
    /\ FreedUnderWorkerOnlyLate

-----------------------------------------------------------------------------
\* Every result of the API is a result code.
LEMMA ResultType ==
    ASSUME NEW c, NEW err \in {NoError, Win32Error}
    PROVE  ResultOf(c, err) \in Result \ {"exception"}
BY DEF ResultOf, SendResult, RegisterResult, NoError, Win32Error, Result

\* A call that is left has the thread at rest and an answer of the type.
LEMMA LeavesType ==
    ASSUME TypeOK, NEW t \in Thread, NEW result \in Result, Leaves(t, result)
    PROVE  /\ pc' \in [Thread -> Place]
           /\ call' \in [Thread -> ApiCall \cup StartCall \cup {"none"}]
           /\ answer' \in Answer
<1>1. call[t] \in ApiCall \cup StartCall \cup {"none"}
  BY DEF TypeOK
<1>2. answer' \in Answer
  BY <1>1 DEF Leaves, Answer
<1>3. QED
  BY <1>2 DEF TypeOK, Leaves, Place

\* So has a call that returns its own result.
LEMMA ReturnsType ==
    ASSUME TypeOK, NEW t \in Thread, NEW err \in {NoError, Win32Error}, Returns(t, err)
    PROVE  /\ Leaves(t, ResultOf(call[t], err))
           /\ pc' \in [Thread -> Place]
           /\ call' \in [Thread -> ApiCall \cup StartCall \cup {"none"}]
           /\ answer' \in Answer
           /\ answer'.result # "exception"
           /\ handle' \in {"none", "broker", "raw"}
<1>1. Leaves(t, ResultOf(call[t], err))
  BY DEF Returns
<1>2. handle' \in {"none", "broker", "raw"}
  BY DEF TypeOK, Returns
<1>3. answer'.result # "exception"
  BY <1>1, ResultType DEF Leaves
<1>4. QED
  BY <1>1, <1>2, <1>3, ResultType, LeavesType

\* The state before any client has been started.
LEMMA InitIInv == Init => IInv
<1> SUFFICES ASSUME Init PROVE IInv
  OBVIOUS
<1>1. TypeOK
  <2>1. answer \in Answer
    BY DEF Init, Answer, Result
  <2>2. 0 \in 0 .. InCap /\ 0 \in 0 .. OutCap
    BY CapsAssumption
  <2>3. QED
    BY <2>1, <2>2 DEF Init, TypeOK, Place
<1>2. InCalls /\ MutexHolder /\ DoneTells /\ WorkerCalls /\ ObjectInUse
        /\ Abandoned /\ FreedUnderWorkerOnlyLate
  BY DEF Init, InCalls, MutexHolder, DoneTells, WorkerCalls, ObjectInUse, Abandoned,
         FreedUnderWorkerOnlyLate, Thread, StartCall, Connecting
<1>3. QED
  BY <1>1, <1>2 DEF IInv

\* What the broker and other clients do to the pipe touches neither thread.
LEMMA PeerStep ==
    ASSUME IInv, PeerSends \/ PeerReads \/ PeerGoes \/ ListenerChanges
    PROVE  IInv'
<1>1. TypeOK'
  BY CapsAssumption
     DEF IInv, TypeOK, PeerSends, PeerReads, PeerGoes, ListenerChanges, objectVars, linkVars
<1>2. /\ UNCHANGED <<pc, call, loop, objectVars, handle, answer>>
      /\ peer' \in {peer, "gone"}
  BY DEF PeerSends, PeerReads, PeerGoes, ListenerChanges, linkVars
<1>3. QED
  BY <1>1, <1>2 DEF IInv, InCalls, MutexHolder, DoneTells, WorkerCalls, ObjectInUse, Abandoned,
                    FreedUnderWorkerOnlyLate, objectVars

\* The worker's loop runs while there is an object, and leaves its callbacks
\* only when no call is left in them.
LEMMA LoopStep == ASSUME IInv, LoopNext PROVE IInv'
<1> USE DEF IInv, StartCall, Connecting, Place
<1>1. CASE OnDisconnectReturns
  <2>1. TypeOK'
    BY <1>1 DEF TypeOK, OnDisconnectReturns, pipeVars, linkVars
  <2>2. QED
    BY <1>1, <2>1 DEF OnDisconnectReturns, InCallback, InCalls, MutexHolder, DoneTells,
         WorkerCalls, ObjectInUse, Abandoned, FreedUnderWorkerOnlyLate, pipeVars, Thread
<1>2. ASSUME NEW from \in {"read", "wait", "message"},
             NEW to \in {"read", "wait", "message", "disconnect"},
             WorkerMoves(from, to), from = "message" => pc["worker"] = "rest",
             inbox' \in 0 .. InCap
      PROVE  IInv'
  <2>1. TypeOK'
    BY <1>2 DEF TypeOK, WorkerMoves, objectVars
  <2>2. QED
    BY <1>2, <2>1 DEF WorkerMoves, InCalls, MutexHolder, DoneTells, WorkerCalls,
         ObjectInUse, Abandoned, FreedUnderWorkerOnlyLate, objectVars, Thread
<1>3. inbox \in 0 .. InCap /\ (inbox > 0 => inbox - 1 \in 0 .. InCap)
  BY CapsAssumption DEF TypeOK
<1>4. QED
  BY <1>1, <1>2, <1>3 DEF LoopNext, StartRead, ReadFails, Exits, Delivers, PipeBreaks,
       OnMessageReturns, InCallback

\* A new client starts only when the former one and its worker are gone.
LEMMA StartsStep == ASSUME IInv, NEW c \in StartCall, Starts(c) PROVE IInv'
<1> USE DEF IInv, StartCall, Connecting, Place
<1>1. TypeOK'
  BY DEF TypeOK, Starts, Place, pipeVars, linkVars
<1>2. QED
  BY <1>1 DEF Starts, TypeOK, ApiCall, InCalls, MutexHolder, DoneTells, WorkerCalls,
       ObjectInUse, Abandoned, FreedUnderWorkerOnlyLate, pipeVars, linkVars, Thread

\* A connect that fails has neither a worker nor the mutex.
LEMMA FailStep ==
    ASSUME IInv, pc["app"] \in Connecting, FailsToConnect
    PROVE  IInv'
<1> USE DEF IInv, StartCall, Connecting, Place
<1>1. TypeOK'
  <2>1. 0 \in 0 .. InCap /\ 0 \in 0 .. OutCap
    BY CapsAssumption
  <2>2. "app" \in Thread
    BY DEF Thread
  <2>3. QED
    BY <2>1, <2>2, LeavesType DEF TypeOK, FailsToConnect, Deletes, Result
<1>2. pc["worker"] = "rest" /\ loop = "off"
  BY DEF WorkerCalls, TypeOK
<1>3. mutex = "free"
  BY <1>2 DEF MutexHolder, TypeOK, Thread
<1>4. QED
  BY <1>1, <1>2, <1>3 DEF FailsToConnect, Deletes, Leaves, TypeOK, InCalls, MutexHolder,
       DoneTells, WorkerCalls, ObjectInUse, Abandoned, FreedUnderWorkerOnlyLate, Thread

\* Within Connect: nothing runs beside it until the worker is started.
LEMMA StartStep == ASSUME IInv, ~freed, StartNext PROVE IInv'
<1> USE DEF IInv, StartCall, Connecting, Place
<1>1. 0 \in 0 .. InCap /\ 0 \in 0 .. OutCap /\ "app" \in Thread
  BY CapsAssumption DEF Thread
<1>2. CASE Opens \/ FindsAllBusy \/ FindsOneFree
  <2>1. TypeOK'
    BY <1>1, <1>2
       DEF TypeOK, Opens, FindsAllBusy, FindsOneFree, Goes, Place, objectVars, pipeVars, linkVars
  <2>2. QED
    BY <1>2, <2>1 DEF Opens, FindsAllBusy, FindsOneFree, Goes, TypeOK, InCalls, MutexHolder,
         DoneTells, WorkerCalls, ObjectInUse, Abandoned, FreedUnderWorkerOnlyLate, objectVars,
         pipeVars, linkVars, Thread
<1>3. CASE FindsNoServer \/ WaitsInVain \/ ModeFails
  BY <1>3, FailStep DEF FindsNoServer, WaitsInVain, ModeFails
<1>4. CASE StartsWorker
  <2>1. pc["worker"] = "rest"
    BY <1>4 DEF StartsWorker, WorkerCalls
  <2>2. CASE Goes("app", "lock")
    <3>1. TypeOK'
      BY <1>4, <2>2 DEF TypeOK, StartsWorker, DoneAtStart, Goes, Place, pipeVars, linkVars
    <3>2. QED
      BY <1>4, <2>1, <2>2, <3>1 DEF StartsWorker, DoneAtStart, Goes, TypeOK, InCalls,
           MutexHolder, DoneTells, WorkerCalls, ObjectInUse, Abandoned, FreedUnderWorkerOnlyLate,
           pipeVars, linkVars, Thread
  <2>3. CASE call["app"] = "connect" /\ Returns("app", NoError)
    <3>1. TypeOK'
      BY <1>1, <1>4, <2>3, ReturnsType
         DEF TypeOK, StartsWorker, DoneAtStart, pipeVars, linkVars
    <3>2. answer'.result # "exception"
      BY <1>1, <2>3, ReturnsType
    <3>3. QED
      BY <1>4, <2>1, <2>3, <3>1, <3>2 DEF StartsWorker, DoneAtStart, Returns, Leaves, TypeOK,
           InCalls, MutexHolder, DoneTells, WorkerCalls, ObjectInUse, Abandoned,
           FreedUnderWorkerOnlyLate, pipeVars, linkVars, Thread
  <2>4. QED
    BY <1>4, <2>2, <2>3 DEF StartsWorker
<1>5. CASE StartsNoWorker
  <2>1. TypeOK'
    BY <1>5 DEF TypeOK, StartsNoWorker, DoneAtStart, Goes, Place, pipeVars, linkVars
  <2>2. QED
    BY <1>5, <2>1 DEF StartsNoWorker, DoneAtStart, Goes, TypeOK, InCalls, MutexHolder,
         DoneTells, WorkerCalls, ObjectInUse, Abandoned, FreedUnderWorkerOnlyLate, pipeVars,
         linkVars, Thread
<1>6. CASE ConnectThrows
  <2>1. "exception" \in Result
    BY DEF Result
  <2>2. /\ pc' \in [Thread -> Place]
        /\ call' \in [Thread -> ApiCall \cup StartCall \cup {"none"}]
        /\ answer' \in Answer
    BY <1>1, <1>6, <2>1, LeavesType DEF ConnectThrows
  <2>3. done' = FALSE /\ UNCHANGED <<loop, mutex, exit, joinable, freed, timedOut, handle,
                                     listener, peer, inbox, outbox>>
    BY <1>6 DEF ConnectThrows, DoneAtStart, pipeVars, linkVars
  <2>4. TypeOK'
    <3> HIDE DEF IInv, Place
    <3>1. TypeOK
      BY DEF IInv
    <3>2. /\ loop' \in {"off", "read", "wait", "message", "disconnect", "ended"}
          /\ mutex' \in Thread \cup {"free"}
          /\ exit' \in BOOLEAN /\ done' \in BOOLEAN /\ joinable' \in BOOLEAN
          /\ freed' \in BOOLEAN /\ timedOut' \in BOOLEAN
      BY <2>3, <3>1 DEF TypeOK
    <3>3. /\ handle' \in {"none", "broker", "raw"}
          /\ listener' \in {"none", "busy", "free"}
          /\ peer' \in {"up", "gone"}
          /\ inbox' \in 0 .. InCap
          /\ outbox' \in 0 .. OutCap
      BY <2>3, <3>1 DEF TypeOK
    <3>4. QED
      BY <2>2, <3>2, <3>3, Zenon DEF TypeOK
  <2>5. QED
    BY <1>6, <2>4 DEF ConnectThrows, DoneAtStart, Leaves, TypeOK, InCalls, MutexHolder,
         DoneTells, WorkerCalls, ObjectInUse, Abandoned, FreedUnderWorkerOnlyLate,
         pipeVars, linkVars, Thread
<1>7. QED
  BY <1>2, <1>3, <1>4, <1>5, <1>6 DEF StartNext

\* Entering a call.
LEMMA EnterStep ==
    ASSUME IInv, NEW t \in Thread,
           (\E c \in ApiCall : CallsSend(t, c)) \/ CallsStop(t)
    PROVE  IInv'
<1> USE DEF IInv, StartCall, Connecting, Place
<1>1. ASSUME NEW c \in ApiCall, CallsSend(t, c) PROVE IInv'
  <2>1. TypeOK'
    BY <1>1 DEF TypeOK, CallsSend, objectVars, pipeVars, linkVars
  <2>2. QED
    BY <1>1, <2>1 DEF CallsSend, MayCall, InCallback, TypeOK, ApiCall, InCalls,
         MutexHolder, DoneTells, WorkerCalls, ObjectInUse, Abandoned, FreedUnderWorkerOnlyLate,
         objectVars, Thread
<1>2. CASE CallsStop(t)
  <2>1. TypeOK'
    <3>1. pc' \in [Thread -> Place]
      BY <1>2 DEF TypeOK, CallsStop
    <3>2. call' \in [Thread -> ApiCall \cup StartCall \cup {"none"}]
      BY <1>2 DEF TypeOK, CallsStop, ApiCall
    <3>3. exit' \in BOOLEAN /\ joinable' \in BOOLEAN
      BY <1>2 DEF TypeOK, CallsStop, SignalsToJoin, SignalsAndLetsGo, SetExit
    <3>4. QED
      BY <1>2, <3>1, <3>2, <3>3 DEF TypeOK, CallsStop, pipeVars, linkVars
  <2>2. QED
    BY <1>2, <2>1 DEF CallsStop, MustJoin, MayCall, InCallback, TypeOK, ApiCall, InCalls,
         MutexHolder, DoneTells, WorkerCalls, ObjectInUse, Abandoned, FreedUnderWorkerOnlyLate, Thread
<1>3. QED
  BY <1>1, <1>2

\* Within SendData: the mutex is taken, held over the write and the join, and
\* given back with the return.
LEMMA SendStep ==
    ASSUME IInv, NEW t \in Thread, ~freed,
           \/ Locks(t)
           \/ Writes(t)
           \/ WriteFailsAndReturns(t)
           \/ WriteFailsAndJoins(t)
           \/ SendJoined(t)
    PROVE  IInv'
<1> USE DEF IInv, StartCall, Connecting, Place
<1>1. CASE Locks(t)
  <2>1. TypeOK'
    BY <1>1 DEF TypeOK, Locks, Goes, pipeVars, linkVars
  <2>2. QED
    BY <1>1, <2>1 DEF Locks, Goes, TypeOK, InCalls, MutexHolder, DoneTells,
         WorkerCalls, ObjectInUse, Abandoned, FreedUnderWorkerOnlyLate, Thread
<1>2. CASE Writes(t)
  <2>1. TypeOK'
    <3>1. outbox' \in 0 .. OutCap
      BY <1>2, CapsAssumption DEF TypeOK, Writes
    <3>2. QED
      BY <1>2, <3>1, ReturnsType DEF TypeOK, Writes
  <2>2. answer'.result # "exception"
    BY <1>2, ReturnsType DEF Writes
  <2>3. QED
    BY <1>2, <2>1, <2>2 DEF Writes, Returns, Leaves, TypeOK, InCalls, MutexHolder, DoneTells,
         WorkerCalls, ObjectInUse, Abandoned, FreedUnderWorkerOnlyLate, Thread
<1>3. CASE WriteFailsAndReturns(t)
  <2>1. TypeOK'
    BY <1>3, ReturnsType DEF TypeOK, WriteFailsAndReturns, SignalsAndLetsGo, SetExit, pipeVars, linkVars
  <2>2. answer'.result # "exception"
    BY <1>3, ReturnsType DEF WriteFailsAndReturns
  <2>3. QED
    BY <1>3, <2>1, <2>2 DEF WriteFailsAndReturns, Returns, Leaves, TypeOK, InCalls, MutexHolder,
         DoneTells, WorkerCalls, ObjectInUse, Abandoned, FreedUnderWorkerOnlyLate, Thread
<1>4. CASE WriteFailsAndJoins(t)
  <2>1. TypeOK'
    BY <1>4 DEF TypeOK, WriteFailsAndJoins, Goes, SignalsToJoin, SetExit, pipeVars, linkVars
  <2>2. QED
    BY <1>4, <2>1 DEF WriteFailsAndJoins, MustJoin, Goes, TypeOK, InCalls, MutexHolder,
         DoneTells, WorkerCalls, ObjectInUse, Abandoned, FreedUnderWorkerOnlyLate, Thread
<1>5. CASE SendJoined(t)
  <2>1. TypeOK'
    BY <1>5, ReturnsType DEF TypeOK, SendJoined, pipeVars, linkVars
  <2>2. answer'.result # "exception"
    BY <1>5, ReturnsType DEF SendJoined
  <2>3. QED
    BY <1>5, <2>1, <2>2 DEF SendJoined, JoinOver, Returns, Leaves, TypeOK, InCalls, MutexHolder,
         DoneTells, WorkerCalls, ObjectInUse, Abandoned, FreedUnderWorkerOnlyLate, Thread
<1>6. QED
  BY <1>1, <1>2, <1>3, <1>4, <1>5

\* Within ipc_client_stop: the event tells whether the worker has ended, and a
\* worker that has ended holds nothing.
LEMMA StopStep ==
    ASSUME IInv, NEW t \in Thread, ~freed,
           StopJoined(t) \/ DestroysAfterWorker(t) \/ DestroysAfterTimeout(t)
    PROVE  IInv'
<1> USE DEF IInv, StartCall, Connecting, Place
<1>1. CASE StopJoined(t)
  <2>1. TypeOK'
    <3>1. pc' \in [Thread -> Place]
      BY <1>1 DEF TypeOK, StopJoined, Goes
    <3>2. joinable' \in BOOLEAN /\ handle' \in {"none", "broker", "raw"}
      BY <1>1 DEF TypeOK, StopJoined, Goes
    <3>3. UNCHANGED <<call, answer, loop, mutex, exit, done, freed, timedOut, pipeVars>>
      BY <1>1 DEF StopJoined, Goes
    <3>4. QED
      BY <3>1, <3>2, <3>3 DEF TypeOK, pipeVars, linkVars
  <2>2. QED
    BY <1>1, <2>1 DEF StopJoined, JoinOver, Goes, TypeOK, InCalls, MutexHolder, DoneTells,
         WorkerCalls, ObjectInUse, Abandoned, FreedUnderWorkerOnlyLate, Thread
<1>2. ASSUME Destroys(t), timedOut' \in BOOLEAN,
             timedOut' = timedOut \/ (timedOut' = TRUE /\ ~done)
      PROVE  TypeOK' /\ InCalls' /\ MutexHolder' /\ DoneTells' /\ WorkerCalls' /\ ObjectInUse'
             /\ Abandoned'
  <2>1. TypeOK'
    <3>1. 0 \in 0 .. InCap /\ 0 \in 0 .. OutCap
      BY CapsAssumption
    <3>2. CASE Returns(t, NoError)
      BY <1>2, <3>1, <3>2, ReturnsType DEF TypeOK, Destroys
    <3>3. CASE Leaves(t, "IPC_ERR") /\ UNCHANGED handle
      BY <1>2, <3>1, <3>3, LeavesType DEF TypeOK, Destroys, Result
    <3>4. QED
      BY <1>2, <3>2, <3>3 DEF Destroys
  <2>2. answer'.result # "exception"
    BY <1>2, ReturnsType DEF Destroys, Leaves
  <2>3. QED
    BY <1>2, <2>1, <2>2 DEF Destroys, Returns, Leaves, TypeOK, InCalls, MutexHolder, DoneTells,
         WorkerCalls, ObjectInUse, Abandoned, Thread
<1>3. CASE DestroysAfterWorker(t)
  <2>1. loop \in {"off", "ended"} /\ loop' = loop /\ mutex' = mutex
    BY <1>3 DEF DestroysAfterWorker, Destroys, DoneTells
  <2>2. pc[t] = "destroy" /\ pc["worker"] # "write" /\ (t = "worker" => pc["app"] = "rest")
    BY <1>3, <2>1 DEF DestroysAfterWorker, Destroys, WorkerCalls
  <2>3. mutex = "free"
    BY <2>1, <2>2 DEF TypeOK, MutexHolder, WorkerCalls, InCalls, Thread
  <2>4. FreedUnderWorkerOnlyLate'
    BY <2>1, <2>3 DEF FreedUnderWorkerOnlyLate
  <2>5. QED
    BY <1>2, <1>3, <2>4 DEF DestroysAfterWorker, TypeOK
<1>4. CASE DestroysAfterTimeout(t)
  <2>1. FreedUnderWorkerOnlyLate'
    BY <1>4 DEF DestroysAfterTimeout, FreedUnderWorkerOnlyLate
  <2>2. QED
    BY <1>2, <1>4, <2>1 DEF DestroysAfterTimeout, TypeOK
<1>5. QED
  BY <1>1, <1>3, <1>4

\* Every step of the client keeps the invariant.
LEMMA Step == IInv /\ [Next]_vars => IInv'
<1>1. ASSUME IInv, Next PROVE IInv'
  BY <1>1, PeerStep, LoopStep, StartsStep, StartStep, EnterStep, SendStep, StopStep
     DEF Next, InCall
<1>2. ASSUME IInv, UNCHANGED vars PROVE IInv'
  BY <1>2 DEF IInv, TypeOK, InCalls, MutexHolder, DoneTells, WorkerCalls, ObjectInUse, Abandoned,
              FreedUnderWorkerOnlyLate, vars, objectVars, pipeVars, linkVars
<1>3. QED
  BY <1>1, <1>2

\* The invariant holds of every reachable state.
LEMMA InductiveInvariant == Spec => []IInv
BY InitIInv, Step, PTL DEF Spec

\* The client, its threads and the pipe are always of the declared type.
THEOREM TypeCorrect == Spec => []TypeOK
<1>1. IInv => TypeOK
  BY DEF IInv
<1>2. QED
  BY InductiveInvariant, <1>1, PTL

\* An ipc_client_start that fails, an ipc_pipe_client_connect that returns and
\* a stop leave neither an object without a handle, nor a handle without an
\* object, nor the pipe open: only an exception leaves anything behind.
THEOREM LeaksOnlyByExceptionHolds == Spec => []LeaksOnlyByException
<1>1. IInv => LeaksOnlyByException
  <2> SUFFICES ASSUME IInv PROVE LeaksOnlyByException
    OBVIOUS
  <2>1. (\A t \in Thread : pc[t] = "rest") => call["app"] \notin StartCall
    BY DEF IInv, InCalls, StartCall, Thread
  <2>2. answer = [call |-> "connect", result |-> "exception"]
          <=> answer.result = "exception"
    BY DEF IInv, TypeOK, Answer, Abandoned
  <2>3. QED
    BY <2>1, <2>2 DEF IInv, TypeOK, ObjectInUse, Abandoned, LeaksOnlyByException
<1>2. QED
  BY InductiveInvariant, <1>1, PTL

\* The object is deleted only after its worker has ended and with its mutex
\* free, unless the destructor's five seconds have run out.
THEOREM FreedUnderWorkerOnlyLateHolds == Spec => []FreedUnderWorkerOnlyLate
<1>1. IInv => FreedUnderWorkerOnlyLate
  BY DEF IInv
<1>2. QED
  BY InductiveInvariant, <1>1, PTL
=============================================================================
