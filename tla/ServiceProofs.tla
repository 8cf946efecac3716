---------------------------- MODULE ServiceProofs ----------------------------
(***************************************************************************)
(* Service: the SCM does not take the service for stopped while its broker *)
(* runs.  The two threads write gSvcStatus in any order, so what they send *)
(* is known only up to what either of them may have written.  The check    *)
(* points they count stay within what TypeOK allows, and what the programs *)
(* see of the service comes in order.                                      *)
(***************************************************************************)
EXTENDS Service, TLAPS

AnyStatus == [state : State, check : Nat, stops : BOOLEAN]
MainAt == {"gone", "entry", "event", "accept", "work", "wait", "stop", "blocked",
           "returned"}
HandlerAt == {"idle", "signal", "again", "return"}

\* The part of TypeOK the argument needs: it leaves the check points unbounded.
Shape ==
    /\ scm \in AnyStatus
    /\ status \in AnyStatus
    /\ tick \in Nat
    /\ at \in [Thread -> MainAt \cup HandlerAt]
    /\ report \in [Thread -> [step : {"none", "fill", "count", "set"}, state : State]]

Reporting(t) == report[t].step # "none"

\* SvcMain has been called and has not come to its last report.
Serving == at["main"] \in {"entry", "event", "accept", "work", "wait", "stop", "blocked"}

\* SvcInit has come to report SERVICE_RUNNING.
HasRun == at["main"] \in {"work", "wait", "stop", "blocked", "returned"}

\* Between two processes nothing is left of the last one.
GoneIsBlank ==
    at["main"] = "gone" =>
        /\ scm = Blank /\ status = Blank
        /\ at["handler"] = "idle"
        /\ ~Reporting("main")

\* The dispatcher calls the handler only for a service that said it runs.
HandlerAfterRunning ==
    /\ at["handler"] # "idle" => HasRun
    /\ scm.state = "RUNNING" => HasRun
    /\ status.state = "RUNNING" => HasRun
    /\ Reporting("main") /\ report["main"].state = "RUNNING" => HasRun

\* The handler's reports are made within its call.
HandlerReportsInCall == at["handler"] = "idle" => ~Reporting("handler")

\* Nobody is about to write SERVICE_STOPPED before SvcMain's last report.
NoEarlyReport ==
    Serving =>
        /\ Reporting("main") => report["main"].state \in {"START_PENDING", "RUNNING"}
        /\ Reporting("handler") => report["handler"].state # "STOPPED"

\* The zeroed gSvcStatus reads as SERVICE_STOPPED; the first report writes
\* over it before it is sent.
NoEarlyStatus ==
    Serving /\ status.state = "STOPPED" =>
        \/ at["main"] = "entry"
        \/ at["main"] = "event" /\ report["main"].step = "fill"

FirstReport == at["main"] = "entry" => ~Reporting("main")

BrokerInWork == broker => at["main"] \in {"wait", "stop", "blocked"}

NotStoppedWhileServing == Serving => scm.state # "STOPPED"

Parts ==
    /\ GoneIsBlank
    /\ HandlerAfterRunning
    /\ HandlerReportsInCall
    /\ NoEarlyReport
    /\ NoEarlyStatus
    /\ FirstReport
    /\ BrokerInWork
    /\ NotStoppedWhileServing

IInv == Shape /\ Parts

\* The service is installed, stopped, and has no process at first.
LEMMA InitHolds == Init => IInv
<1> SUFFICES ASSUME Init PROVE IInv
    OBVIOUS
<1>1. Blank \in AnyStatus BY DEF Blank, AnyStatus, State
<1>2. NoThread \in [Thread -> MainAt \cup HandlerAt]
    BY DEF NoThread, Thread, MainAt, HandlerAt
<1>3. NoReports \in [Thread -> [step : {"none", "fill", "count", "set"}, state : State]]
    BY DEF NoReports, State
<1>4. Shape BY <1>1, <1>2, <1>3 DEF Init, Shape
<1>5. /\ at["main"] = "gone" /\ at["handler"] = "idle"
      /\ report["main"].step = "none" /\ report["handler"].step = "none"
      /\ scm = Blank /\ status = Blank /\ Blank.state = "STOPPED" /\ broker = FALSE
    BY DEF Init, NoThread, NoReports, Thread, Blank
<1>6. Parts
    BY <1>5 DEF Parts, GoneIsBlank, HandlerAfterRunning, HandlerReportsInCall,
        NoEarlyReport, NoEarlyStatus, FirstReport, BrokerInWork,
        NotStoppedWhileServing, Serving, HasRun, Reporting
<1> QED BY <1>4, <1>6 DEF IInv

-----------------------------------------------------------------------------
(***************************************************************************)
(* What the building blocks of the actions do to at and report             *)
(***************************************************************************)

\* One thread moves, the other stays where it is.
LEMMA MovesEffect ==
    ASSUME Shape, NEW t \in Thread, NEW from, NEW to \in MainAt \cup HandlerAt,
           Moves(t, from, to)
    PROVE  /\ at' \in [Thread -> MainAt \cup HandlerAt]
           /\ at[t] = from /\ at'[t] = to /\ ~Reporting(t)
           /\ \A u \in Thread \ {t} : at'[u] = at[u]
BY DEF Shape, Moves, Reporting

\* A thread begins a report, the other's report stays as it is.
LEMMA ReportsEffect ==
    ASSUME Shape, NEW t \in Thread, NEW s \in State, Reports(t, s)
    PROVE  /\ report' \in [Thread -> [step : {"none", "fill", "count", "set"}, state : State]]
           /\ report'[t].step = "fill" /\ report'[t].state = s
           /\ \A u \in Thread \ {t} : report'[u] = report[u]
BY DEF Shape, Reports

\* A thread's report gets on and keeps the state it is about.
LEMMA StepsEffect ==
    ASSUME Shape, NEW t \in Thread, NEW from, NEW to \in {"none", "fill", "count", "set"},
           Steps(t, from, to)
    PROVE  /\ report' \in [Thread -> [step : {"none", "fill", "count", "set"}, state : State]]
           /\ report[t].step = from
           /\ report'[t].step = to /\ report'[t].state = report[t].state
           /\ \A u \in Thread \ {t} : report'[u] = report[u]
           /\ at' = at /\ broker' = broker
BY DEF Shape, Steps

-----------------------------------------------------------------------------
(***************************************************************************)
(* ReportSvcStatus, by either thread                                       *)
(***************************************************************************)

\* Filling in the state of the report keeps the invariant.
LEMMA FillStep ==
    ASSUME IInv, NEW t \in Thread, FillsStatus(t)
    PROVE  IInv'
<1>1. Steps(t, "fill", "count") BY DEF FillsStatus
<1>2. /\ report' \in [Thread -> [step : {"none", "fill", "count", "set"}, state : State]]
      /\ report[t].step = "fill"
      /\ report'[t].step = "count" /\ report'[t].state = report[t].state
      /\ \A u \in Thread \ {t} : report'[u] = report[u]
      /\ at' = at /\ broker' = broker
    BY <1>1, StepsEffect DEF IInv
<1>3. scm' = scm /\ tick' = tick BY DEF FillsStatus
<1>4. report[t].state \in State BY DEF IInv, Shape
<1>5. status'.state = report[t].state /\ status' \in AnyStatus
    BY <1>4 DEF FillsStatus, IInv, Shape, AnyStatus
<1>6. Shape' BY <1>2, <1>3, <1>5 DEF IInv, Shape
<1>7. at["main"] # "gone" /\ (t = "handler" => HasRun)
    BY <1>2 DEF IInv, Parts, GoneIsBlank, HandlerAfterRunning, HandlerReportsInCall,
        Reporting, Thread, HasRun
<1>8. Parts'
    BY <1>2, <1>3, <1>4, <1>5, <1>7
    DEF IInv, Parts, GoneIsBlank, HandlerAfterRunning, HandlerReportsInCall,
        NoEarlyReport, NoEarlyStatus, FirstReport, BrokerInWork,
        NotStoppedWhileServing, Serving, HasRun, Reporting, Thread, State
<1> QED BY <1>6, <1>8 DEF IInv

\* The check point keeps the state, and with it the invariant.
LEMMA CountStep ==
    ASSUME IInv, NEW t \in Thread, CountsCheckPoint(t)
    PROVE  IInv'
<1>1. Steps(t, "count", "set") BY DEF CountsCheckPoint
<1>2. /\ report' \in [Thread -> [step : {"none", "fill", "count", "set"}, state : State]]
      /\ report[t].step = "count"
      /\ report'[t].step = "set" /\ report'[t].state = report[t].state
      /\ \A u \in Thread \ {t} : report'[u] = report[u]
      /\ at' = at /\ broker' = broker
    BY <1>1, StepsEffect DEF IInv
<1>3. scm' = scm BY DEF CountsCheckPoint
<1>4. status'.state = status.state /\ status' \in AnyStatus /\ tick' \in Nat
    BY DEF CountsCheckPoint, IInv, Shape, AnyStatus
<1>5. Shape' BY <1>2, <1>3, <1>4 DEF IInv, Shape
<1>6. at["main"] # "gone"
    BY <1>2 DEF IInv, Parts, GoneIsBlank, HandlerReportsInCall, Reporting, Thread
<1>7. Parts'
    BY <1>2, <1>3, <1>4, <1>6
    DEF IInv, Parts, GoneIsBlank, HandlerAfterRunning, HandlerReportsInCall,
        NoEarlyReport, NoEarlyStatus, FirstReport, BrokerInWork,
        NotStoppedWhileServing, Serving, HasRun, Reporting, Thread
<1> QED BY <1>5, <1>7 DEF IInv

\* What is sent is not SERVICE_STOPPED as long as SvcMain serves: the first
\* report has been filled in by then.
LEMMA SetStep ==
    ASSUME IInv, NEW t \in Thread, SetsServiceStatus(t)
    PROVE  IInv'
<1>1. Steps(t, "set", "none") BY DEF SetsServiceStatus
<1>2. /\ report' \in [Thread -> [step : {"none", "fill", "count", "set"}, state : State]]
      /\ report[t].step = "set"
      /\ report'[t].step = "none" /\ report'[t].state = report[t].state
      /\ \A u \in Thread \ {t} : report'[u] = report[u]
      /\ at' = at /\ broker' = broker
    BY <1>1, StepsEffect DEF IInv
<1>3. /\ scm' \in {status, scm}
      /\ status' = status /\ tick' = tick
    BY DEF SetsServiceStatus
<1>4. Shape' BY <1>2, <1>3 DEF IInv, Shape
<1>5. at["main"] # "gone"
    BY <1>2 DEF IInv, Parts, GoneIsBlank, HandlerReportsInCall, Reporting, Thread
<1>6. Serving => status.state # "STOPPED"
    BY <1>2
    DEF IInv, Parts, HandlerAfterRunning, HandlerReportsInCall, NoEarlyStatus,
        FirstReport, Reporting, Thread, HasRun
<1>7. Parts'
    BY <1>2, <1>3, <1>5, <1>6
    DEF IInv, Parts, GoneIsBlank, HandlerAfterRunning, HandlerReportsInCall,
        NoEarlyReport, NoEarlyStatus, FirstReport, BrokerInWork,
        NotStoppedWhileServing, Serving, HasRun, Reporting, Thread
<1> QED BY <1>4, <1>7 DEF IInv

-----------------------------------------------------------------------------
(***************************************************************************)
(* SvcMain, the handler and the end of the process                         *)
(***************************************************************************)

\* SvcMain's steps up to SERVICE_RUNNING: the broker does not run yet.
LEMMA InitStep ==
    ASSUME IInv, Enters \/ EntersInVain \/ CreatesEvent \/ CreatesNoEvent \/ AcceptsControls
    PROVE  IInv'
<1> USE DEF MainAt, HandlerAt
<1> "main" \in Thread BY DEF Thread
<1> Shape BY DEF IInv
<1>1. CASE Enters
    <2>1. Moves("main", "entry", "event") BY <1>1 DEF Enters
    <2>2. /\ at' \in [Thread -> MainAt \cup HandlerAt]
          /\ at["main"] = "entry" /\ at'["main"] = "event" /\ ~Reporting("main")
          /\ \A u \in Thread \ {"main"} : at'[u] = at[u]
        BY <2>1, MovesEffect
    <2>3. /\ report' \in [Thread -> [step : {"none", "fill", "count", "set"}, state : State]]
          /\ report'["main"].step = "fill" /\ report'["main"].state = "START_PENDING"
          /\ \A u \in Thread \ {"main"} : report'[u] = report[u]
        BY <1>1, ReportsEffect DEF Enters, State
    <2>4. status' = status BY <1>1 DEF Enters
    <2>5. scm' = scm /\ tick' = tick /\ broker' = broker BY <1>1 DEF Enters
    <2>6. Shape' BY <2>2, <2>3, <2>4, <2>5 DEF Shape
    <2>7. Parts' BY <2>2, <2>3, <2>4, <2>5
    DEF IInv, Parts, GoneIsBlank, HandlerAfterRunning, HandlerReportsInCall,
        NoEarlyReport, NoEarlyStatus, FirstReport, BrokerInWork,
        NotStoppedWhileServing, Serving, HasRun, Reporting, Thread, State
    <2> QED BY <2>6, <2>7 DEF IInv
<1>2. CASE EntersInVain
    <2>1. Moves("main", "entry", "returned") BY <1>2 DEF EntersInVain
    <2>2. /\ at' \in [Thread -> MainAt \cup HandlerAt]
          /\ at["main"] = "entry" /\ at'["main"] = "returned" /\ ~Reporting("main")
          /\ \A u \in Thread \ {"main"} : at'[u] = at[u]
        BY <2>1, MovesEffect
    <2>3. report' = report BY <1>2 DEF EntersInVain
    <2>4. status' = status BY <1>2 DEF EntersInVain
    <2>5. scm' = scm /\ tick' = tick /\ broker' = broker BY <1>2 DEF EntersInVain
    <2>6. Shape' BY <2>2, <2>3, <2>4, <2>5 DEF Shape
    <2>7. Parts' BY <2>2, <2>3, <2>4, <2>5
    DEF IInv, Parts, GoneIsBlank, HandlerAfterRunning, HandlerReportsInCall,
        NoEarlyReport, NoEarlyStatus, FirstReport, BrokerInWork,
        NotStoppedWhileServing, Serving, HasRun, Reporting, Thread, State
    <2> QED BY <2>6, <2>7 DEF IInv
<1>3. CASE CreatesEvent
    <2>1. Moves("main", "event", "accept") BY <1>3 DEF CreatesEvent
    <2>2. /\ at' \in [Thread -> MainAt \cup HandlerAt]
          /\ at["main"] = "event" /\ at'["main"] = "accept" /\ ~Reporting("main")
          /\ \A u \in Thread \ {"main"} : at'[u] = at[u]
        BY <2>1, MovesEffect
    <2>3. report' = report BY <1>3 DEF CreatesEvent
    <2>4. status' = status BY <1>3 DEF CreatesEvent
    <2>5. scm' = scm /\ tick' = tick /\ broker' = broker BY <1>3 DEF CreatesEvent
    <2>6. Shape' BY <2>2, <2>3, <2>4, <2>5 DEF Shape
    <2>7. Parts' BY <2>2, <2>3, <2>4, <2>5
    DEF IInv, Parts, GoneIsBlank, HandlerAfterRunning, HandlerReportsInCall,
        NoEarlyReport, NoEarlyStatus, FirstReport, BrokerInWork,
        NotStoppedWhileServing, Serving, HasRun, Reporting, Thread, State
    <2> QED BY <2>6, <2>7 DEF IInv
<1>4. CASE CreatesNoEvent
    <2>1. Moves("main", "event", "returned") BY <1>4 DEF CreatesNoEvent
    <2>2. /\ at' \in [Thread -> MainAt \cup HandlerAt]
          /\ at["main"] = "event" /\ at'["main"] = "returned" /\ ~Reporting("main")
          /\ \A u \in Thread \ {"main"} : at'[u] = at[u]
        BY <2>1, MovesEffect
    <2>3. /\ report' \in [Thread -> [step : {"none", "fill", "count", "set"}, state : State]]
          /\ report'["main"].step = "fill" /\ report'["main"].state = "STOPPED"
          /\ \A u \in Thread \ {"main"} : report'[u] = report[u]
        BY <1>4, ReportsEffect DEF CreatesNoEvent, State
    <2>4. status' = status BY <1>4 DEF CreatesNoEvent
    <2>5. scm' = scm /\ tick' = tick /\ broker' = broker BY <1>4 DEF CreatesNoEvent
    <2>6. Shape' BY <2>2, <2>3, <2>4, <2>5 DEF Shape
    <2>7. Parts' BY <2>2, <2>3, <2>4, <2>5
    DEF IInv, Parts, GoneIsBlank, HandlerAfterRunning, HandlerReportsInCall,
        NoEarlyReport, NoEarlyStatus, FirstReport, BrokerInWork,
        NotStoppedWhileServing, Serving, HasRun, Reporting, Thread, State
    <2> QED BY <2>6, <2>7 DEF IInv
<1>5. CASE AcceptsControls
    <2>1. Moves("main", "accept", "work") BY <1>5 DEF AcceptsControls
    <2>2. /\ at' \in [Thread -> MainAt \cup HandlerAt]
          /\ at["main"] = "accept" /\ at'["main"] = "work" /\ ~Reporting("main")
          /\ \A u \in Thread \ {"main"} : at'[u] = at[u]
        BY <2>1, MovesEffect
    <2>3. /\ report' \in [Thread -> [step : {"none", "fill", "count", "set"}, state : State]]
          /\ report'["main"].step = "fill" /\ report'["main"].state = "RUNNING"
          /\ \A u \in Thread \ {"main"} : report'[u] = report[u]
        BY <1>5, ReportsEffect DEF AcceptsControls, State
    <2>4. status' \in AnyStatus /\ status'.state = status.state
        BY <1>5 DEF AcceptsControls, IInv, Shape, AnyStatus
    <2>5. scm' = scm /\ tick' = tick /\ broker' = broker BY <1>5 DEF AcceptsControls
    <2>6. Shape' BY <2>2, <2>3, <2>4, <2>5 DEF Shape
    <2>7. Parts' BY <2>2, <2>3, <2>4, <2>5
    DEF IInv, Parts, GoneIsBlank, HandlerAfterRunning, HandlerReportsInCall,
        NoEarlyReport, NoEarlyStatus, FirstReport, BrokerInWork,
        NotStoppedWhileServing, Serving, HasRun, Reporting, Thread, State
    <2> QED BY <2>6, <2>7 DEF IInv
<1> QED BY <1>1, <1>2, <1>3, <1>4, <1>5

\* From the broker's start to its stop, which comes before the last report.
LEMMA WorkStep ==
    ASSUME IInv,
           \/ StartsWorker \/ IsAskedToStop \/ BlocksInStop
           \/ \E from \in {"stop", "blocked"} : StopEnds(from)
    PROVE  IInv'
<1> USE DEF MainAt, HandlerAt
<1> "main" \in Thread BY DEF Thread
<1> Shape BY DEF IInv
<1>1. CASE StartsWorker
    <2>1. Moves("main", "work", "wait") BY <1>1 DEF StartsWorker
    <2>2. /\ at' \in [Thread -> MainAt \cup HandlerAt]
          /\ at["main"] = "work" /\ at'["main"] = "wait" /\ ~Reporting("main")
          /\ \A u \in Thread \ {"main"} : at'[u] = at[u]
        BY <2>1, MovesEffect
    <2>3. report' = report BY <1>1 DEF StartsWorker
    <2>4. status' = status BY <1>1 DEF StartsWorker
    <2>5. scm' = scm /\ tick' = tick BY <1>1 DEF StartsWorker
    <2>6. Shape' BY <2>2, <2>3, <2>4, <2>5 DEF Shape
    <2>7. Parts' BY <2>2, <2>3, <2>4, <2>5
    DEF IInv, Parts, GoneIsBlank, HandlerAfterRunning, HandlerReportsInCall,
        NoEarlyReport, NoEarlyStatus, FirstReport, BrokerInWork,
        NotStoppedWhileServing, Serving, HasRun, Reporting, Thread, State
    <2> QED BY <2>6, <2>7 DEF IInv
<1>2. CASE IsAskedToStop
    <2>1. Moves("main", "wait", "stop") BY <1>2 DEF IsAskedToStop
    <2>2. /\ at' \in [Thread -> MainAt \cup HandlerAt]
          /\ at["main"] = "wait" /\ at'["main"] = "stop" /\ ~Reporting("main")
          /\ \A u \in Thread \ {"main"} : at'[u] = at[u]
        BY <2>1, MovesEffect
    <2>3. report' = report BY <1>2 DEF IsAskedToStop
    <2>4. status' = status BY <1>2 DEF IsAskedToStop
    <2>5. scm' = scm /\ tick' = tick /\ broker' = broker BY <1>2 DEF IsAskedToStop
    <2>6. Shape' BY <2>2, <2>3, <2>4, <2>5 DEF Shape
    <2>7. Parts' BY <2>2, <2>3, <2>4, <2>5
    DEF IInv, Parts, GoneIsBlank, HandlerAfterRunning, HandlerReportsInCall,
        NoEarlyReport, NoEarlyStatus, FirstReport, BrokerInWork,
        NotStoppedWhileServing, Serving, HasRun, Reporting, Thread, State
    <2> QED BY <2>6, <2>7 DEF IInv
<1>3. CASE BlocksInStop
    <2>1. Moves("main", "stop", "blocked") BY <1>3 DEF BlocksInStop
    <2>2. /\ at' \in [Thread -> MainAt \cup HandlerAt]
          /\ at["main"] = "stop" /\ at'["main"] = "blocked" /\ ~Reporting("main")
          /\ \A u \in Thread \ {"main"} : at'[u] = at[u]
        BY <2>1, MovesEffect
    <2>3. report' = report BY <1>3 DEF BlocksInStop
    <2>4. status' = status BY <1>3 DEF BlocksInStop
    <2>5. scm' = scm /\ tick' = tick /\ broker' = broker BY <1>3 DEF BlocksInStop
    <2>6. Shape' BY <2>2, <2>3, <2>4, <2>5 DEF Shape
    <2>7. Parts' BY <2>2, <2>3, <2>4, <2>5
    DEF IInv, Parts, GoneIsBlank, HandlerAfterRunning, HandlerReportsInCall,
        NoEarlyReport, NoEarlyStatus, FirstReport, BrokerInWork,
        NotStoppedWhileServing, Serving, HasRun, Reporting, Thread, State
    <2> QED BY <2>6, <2>7 DEF IInv
<1>4. ASSUME NEW from \in {"stop", "blocked"}, StopEnds(from) PROVE IInv'
    <2>1. Moves("main", from, "returned") BY <1>4 DEF StopEnds
    <2>2. /\ at' \in [Thread -> MainAt \cup HandlerAt]
          /\ at["main"] = from /\ at'["main"] = "returned" /\ ~Reporting("main")
          /\ \A u \in Thread \ {"main"} : at'[u] = at[u]
        BY <2>1, MovesEffect
    <2>3. /\ report' \in [Thread -> [step : {"none", "fill", "count", "set"}, state : State]]
          /\ report'["main"].step = "fill" /\ report'["main"].state = "STOPPED"
          /\ \A u \in Thread \ {"main"} : report'[u] = report[u]
        BY <1>4, ReportsEffect DEF StopEnds, State
    <2>4. status' = status BY <1>4 DEF StopEnds
    <2>5. scm' = scm /\ tick' = tick /\ broker' = FALSE BY <1>4 DEF StopEnds, BrokerAfterStop
    <2>6. Shape' BY <2>2, <2>3, <2>4, <2>5 DEF Shape
    <2>7. Parts' BY <2>2, <2>3, <2>4, <2>5
    DEF IInv, Parts, GoneIsBlank, HandlerAfterRunning, HandlerReportsInCall,
        NoEarlyReport, NoEarlyStatus, FirstReport, BrokerInWork,
        NotStoppedWhileServing, Serving, HasRun, Reporting, Thread, State
    <2> QED BY <2>6, <2>7 DEF IInv
<1> QED BY <1>1, <1>2, <1>3, <1>4

\* The handler: the state it repeats is not SERVICE_STOPPED while SvcMain
\* serves, as it is called after SERVICE_RUNNING only.
LEMMA HandlerStep ==
    ASSUME IInv, SignalsStop \/ ReportsAgain \/ HandlerReturns
    PROVE  IInv'
<1> USE DEF MainAt, HandlerAt
<1> "handler" \in Thread BY DEF Thread
<1> Shape BY DEF IInv
<1>1. CASE SignalsStop
    <2>1. Moves("handler", "signal", "again") BY <1>1 DEF SignalsStop
    <2>2. /\ at' \in [Thread -> MainAt \cup HandlerAt]
          /\ at["handler"] = "signal" /\ at'["handler"] = "again" /\ ~Reporting("handler")
          /\ \A u \in Thread \ {"handler"} : at'[u] = at[u]
        BY <2>1, MovesEffect
    <2>3. report' = report BY <1>1 DEF SignalsStop
    <2>4. status' = status BY <1>1 DEF SignalsStop
    <2>5. scm' = scm /\ tick' = tick /\ broker' = broker BY <1>1 DEF SignalsStop
    <2>6. Shape' BY <2>2, <2>3, <2>4, <2>5 DEF Shape
    <2>7. Parts' BY <2>2, <2>3, <2>4, <2>5
    DEF IInv, Parts, GoneIsBlank, HandlerAfterRunning, HandlerReportsInCall,
        NoEarlyReport, NoEarlyStatus, FirstReport, BrokerInWork,
        NotStoppedWhileServing, Serving, HasRun, Reporting, Thread, State
    <2> QED BY <2>6, <2>7 DEF IInv
<1>2. CASE ReportsAgain
    <2>1. Moves("handler", "again", "return") BY <1>2 DEF ReportsAgain
    <2>2. /\ at' \in [Thread -> MainAt \cup HandlerAt]
          /\ at["handler"] = "again" /\ at'["handler"] = "return" /\ ~Reporting("handler")
          /\ \A u \in Thread \ {"handler"} : at'[u] = at[u]
        BY <2>1, MovesEffect
    <2>8. status.state \in State BY DEF Shape, AnyStatus
    <2>3. /\ report' \in [Thread -> [step : {"none", "fill", "count", "set"}, state : State]]
          /\ report'["handler"].step = "fill" /\ report'["handler"].state = status.state
          /\ \A u \in Thread \ {"handler"} : report'[u] = report[u]
        BY <1>2, <2>8, ReportsEffect DEF ReportsAgain, StateAgain
    <2>4. status' = status BY <1>2 DEF ReportsAgain
    <2>5. scm' = scm /\ tick' = tick /\ broker' = broker BY <1>2 DEF ReportsAgain
    <2>6. Shape' BY <2>2, <2>3, <2>4, <2>5 DEF Shape
    <2>7. Parts' BY <2>2, <2>3, <2>4, <2>5
    DEF IInv, Parts, GoneIsBlank, HandlerAfterRunning, HandlerReportsInCall,
        NoEarlyReport, NoEarlyStatus, FirstReport, BrokerInWork,
        NotStoppedWhileServing, Serving, HasRun, Reporting, Thread, State
    <2> QED BY <2>6, <2>7 DEF IInv
<1>3. CASE HandlerReturns
    <2>1. Moves("handler", "return", "idle") BY <1>3 DEF HandlerReturns
    <2>2. /\ at' \in [Thread -> MainAt \cup HandlerAt]
          /\ at["handler"] = "return" /\ at'["handler"] = "idle" /\ ~Reporting("handler")
          /\ \A u \in Thread \ {"handler"} : at'[u] = at[u]
        BY <2>1, MovesEffect
    <2>3. report' = report BY <1>3 DEF HandlerReturns
    <2>4. status' = status BY <1>3 DEF HandlerReturns
    <2>5. scm' = scm /\ tick' = tick /\ broker' = broker BY <1>3 DEF HandlerReturns
    <2>6. Shape' BY <2>2, <2>3, <2>4, <2>5 DEF Shape
    <2>7. Parts' BY <2>2, <2>3, <2>4, <2>5
    DEF IInv, Parts, GoneIsBlank, HandlerAfterRunning, HandlerReportsInCall,
        NoEarlyReport, NoEarlyStatus, FirstReport, BrokerInWork,
        NotStoppedWhileServing, Serving, HasRun, Reporting, Thread, State
    <2> QED BY <2>6, <2>7 DEF IInv
<1> QED BY <1>1, <1>2, <1>3

\* The end of a process is the beginning: nothing is left but the programs.
LEMMA EndStep ==
    ASSUME IInv, DispatcherReturns \/ \E from \in {"stop", "blocked"} : DiesIn(from)
    PROVE  IInv'
<1>1. ProcessEnds BY DEF DispatcherReturns, DiesIn
<1>2. /\ Blank \in AnyStatus /\ Blank.state = "STOPPED"
      /\ NoThread \in [Thread -> MainAt \cup HandlerAt]
      /\ NoReports \in [Thread -> [step : {"none", "fill", "count", "set"}, state : State]]
    BY DEF Blank, AnyStatus, State, NoThread, Thread, MainAt, HandlerAt, NoReports
<1>3. Shape' BY <1>1, <1>2 DEF ProcessEnds, Shape
<1>4. /\ at'["main"] = "gone" /\ at'["handler"] = "idle"
      /\ report'["main"].step = "none" /\ report'["handler"].step = "none"
      /\ scm' = Blank /\ status' = Blank /\ broker' = FALSE
    BY <1>1 DEF ProcessEnds, NoThread, NoReports, Thread
<1>5. Parts' BY <1>2, <1>4
    DEF IInv, Parts, GoneIsBlank, HandlerAfterRunning, HandlerReportsInCall,
        NoEarlyReport, NoEarlyStatus, FirstReport, BrokerInWork,
        NotStoppedWhileServing, Serving, HasRun, Reporting, Thread, State
<1> QED BY <1>3, <1>5 DEF IInv

-----------------------------------------------------------------------------
(***************************************************************************)
(* The control programs                                                    *)
(***************************************************************************)

\* A process is created with its record in SERVICE_START_PENDING.
LEMMA StartStep ==
    ASSUME IInv, StartsService
    PROVE  IInv'
<1> USE DEF MainAt, HandlerAt
<1>1. at["main"] = "gone" BY DEF StartsService
<1>2. /\ at' \in [Thread -> MainAt \cup HandlerAt]
      /\ at'["main"] = "entry" /\ at'["handler"] = at["handler"]
    BY DEF StartsService, IInv, Shape, Thread
<1>3. scm' \in AnyStatus /\ scm'.state = "START_PENDING" /\ Blank.state = "STOPPED"
    BY DEF StartsService, Blank, AnyStatus, State
<1>4. report' = report /\ status' = status /\ tick' = tick /\ broker' = broker
    BY DEF StartsService
<1>5. Shape' BY <1>2, <1>3, <1>4 DEF IInv, Shape
<1>6. Parts' BY <1>1, <1>2, <1>3, <1>4
    DEF IInv, Parts, GoneIsBlank, HandlerAfterRunning, HandlerReportsInCall,
        NoEarlyReport, NoEarlyStatus, FirstReport, BrokerInWork,
        NotStoppedWhileServing, Serving, HasRun, Reporting, Thread, State
<1> QED BY <1>5, <1>6 DEF IInv

\* The handler is called for a service whose record says that it runs.
LEMMA ControlStep ==
    ASSUME IInv, NEW p \in Program, SendsControl(p)
    PROVE  IInv'
<1> USE DEF MainAt, HandlerAt
<1>1. scm.state = "RUNNING" /\ at["handler"] = "idle"
    BY DEF SendsControl, CanBeStopped
<1>2. /\ at' \in [Thread -> MainAt \cup HandlerAt]
      /\ at'["handler"] = "signal" /\ at'["main"] = at["main"]
    BY DEF SendsControl, IInv, Shape, Thread
<1>3. /\ report' \in [Thread -> [step : {"none", "fill", "count", "set"}, state : State]]
      /\ report'["handler"].step = "fill" /\ report'["handler"].state = "STOP_PENDING"
      /\ \A u \in Thread \ {"handler"} : report'[u] = report[u]
    BY ReportsEffect DEF SendsControl, IInv, Thread, State
<1>4. scm' = scm /\ status' = status /\ tick' = tick /\ broker' = broker
    BY DEF SendsControl
<1>5. Shape' BY <1>2, <1>3, <1>4 DEF IInv, Shape
<1>6. Parts' BY <1>1, <1>2, <1>3, <1>4
    DEF IInv, Parts, GoneIsBlank, HandlerAfterRunning, HandlerReportsInCall,
        NoEarlyReport, NoEarlyStatus, FirstReport, BrokerInWork,
        NotStoppedWhileServing, Serving, HasRun, Reporting, Thread, State
<1> QED BY <1>5, <1>6 DEF IInv

\* The other steps of the control programs only look.
LEMMA LookStep ==
    ASSUME IInv, UNCHANGED serviceVars
    PROVE  IInv'
<1>1. /\ scm' = scm /\ at' = at /\ report' = report /\ status' = status
      /\ tick' = tick /\ broker' = broker
    BY DEF serviceVars, processVars
<1>2. Shape' BY <1>1 DEF IInv, Shape
<1>3. Parts' BY <1>1
    DEF IInv, Parts, GoneIsBlank, HandlerAfterRunning, HandlerReportsInCall,
        NoEarlyReport, NoEarlyStatus, FirstReport, BrokerInWork,
        NotStoppedWhileServing, Serving, HasRun, Reporting, Thread, State
<1> QED BY <1>2, <1>3 DEF IInv

-----------------------------------------------------------------------------
\* All steps keep the invariant.
LEMMA Step == IInv /\ [Next]_vars => IInv'
<1> SUFFICES ASSUME IInv, [Next]_vars
             PROVE  IInv'
    OBVIOUS
<1>1. CASE \E t \in Thread : ThreadReports(t)
    BY <1>1, FillStep, CountStep, SetStep DEF ThreadReports
<1>2. CASE MainNext
    BY <1>1, <1>2, InitStep, WorkStep, EndStep
    DEF MainNext, StopsWorker, DiesStoppingWorker, Thread
<1>3. CASE DispatcherNext
    BY <1>1, <1>3, HandlerStep, EndStep DEF DispatcherNext, Thread
<1>4. CASE StartBegins \/ StarterNext
    <2>1. CASE StartsService BY <2>1, StartStep
    <2>2. CASE ~StartsService
        <3>1. UNCHANGED serviceVars
            BY <1>4, <2>2
            DEF StartBegins, StarterNext, StarterMoves, FindsRunning, FindsStopped,
                FindsStopping, SeesProgress, SeesNoProgress,
                StartServiceFails, IsStarting, IsNotStarting, PollsAgain, PollsNoMore
        <3> QED BY <3>1, LookStep
    <2> QED BY <2>1, <2>2
<1>5. CASE \E p \in Program : StopBegins(p) \/ StopperNext(p)
    <2>1. CASE \E p \in Program : SendsControl(p) BY <2>1, ControlStep
    <2>2. CASE ~\E p \in Program : SendsControl(p)
        <3>1. UNCHANGED serviceVars
            BY <1>5, <2>2
            DEF StopBegins, StopperNext, SeesStopped, SeesStopping, SeesRunning,
                GivesUpWaiting, ControlRefused, ControlReturns, ControlFails, Deletes
        <3> QED BY <3>1, LookStep
    <2> QED BY <2>1, <2>2
<1>6. CASE Installs \/ EntryGoes \/ UNCHANGED vars
    BY <1>6, LookStep DEF Installs, EntryGoes, vars
<1>7. CASE BlockEnds
    BY <1>7, WorkStep, EndStep DEF BlockEnds
<1> QED BY <1>2, <1>3, <1>4, <1>5, <1>6, <1>7 DEF Next

\* BrokerSvc.cpp stops the worker before it reports SERVICE_STOPPED, and no
\* mix-up of the two threads' reports sends that state any earlier: while the
\* SCM takes the service for stopped, its broker does not run.
THEOREM StoppedMeansIdleHolds == Spec => []StoppedMeansIdle
<1>1. IInv => StoppedMeansIdle
    BY DEF IInv, Parts, BrokerInWork, NotStoppedWhileServing, Serving, StoppedMeansIdle
<1> QED BY <1>1, InitHolds, Step, PTL DEF Spec
-----------------------------------------------------------------------------
(***************************************************************************)
(* The bound on the check points.  A process counts at most three of its   *)
(* reports: SvcMain's first, the handler's first, and the second one of    *)
(* the handler if it repeats a pending state.  The handler is called once  *)
(* at most, since SERVICE_RUNNING is not sent again after its first report.*)
(***************************************************************************)

InRun == at["main"] \in {"work", "wait"}

\* What each thread reports, and where.
MainReports ==
    Reporting("main") =>
        \/ at["main"] = "event" /\ report["main"].state = "START_PENDING"
        \/ at["main"] = "work" /\ report["main"].state = "RUNNING"
        \/ at["main"] = "returned" /\ report["main"].state = "STOPPED"
HandlerReports ==
    Reporting("handler") =>
        \/ at["handler"] = "signal" /\ report["handler"].state = "STOP_PENDING"
        \/ at["handler"] = "return" /\ report["handler"].state # "RUNNING"

\* By the time the handler is called SvcMain's SERVICE_RUNNING has been sent;
\* the event is the sign that the handler has been called.
CalledAfterReport ==
    at["handler"] # "idle" \/ event = "set" =>
        HasRun /\ ~(Reporting("main") /\ at["main"] = "work")
EventTells ==
    /\ at["main"] \in {"gone", "entry", "event"} => event = "none"
    /\ at["main"] \in {"stop", "blocked"} \/ at["handler"] \in {"again", "return"}
           => event = "set"

\* From the handler's first report on nobody sees the service running.
RunningOnce ==
    /\ status.state = "RUNNING" => InRun /\ event # "set"
    /\ scm.state = "RUNNING" => InRun /\ event # "set" /\ ~Reporting("main")
    /\ at["handler"] = "signal" /\ report["handler"].step # "fill" => status.state # "RUNNING"
    /\ at["handler"] = "signal" /\ ~Reporting("handler") => scm.state # "RUNNING"

ToldLate == told => at["main"] = "returned"

\* Reports each thread has yet to count in this process.
ToCount(t) == report[t].step \in {"fill", "count"}
MainOwes ==
    IF at["main"] \in {"gone", "entry"} \/ (at["main"] = "event" /\ ToCount("main"))
    THEN 1 ELSE 0
HandlerOwes ==
    IF at["handler"] = "idle" THEN IF event = "set" THEN 0 ELSE 2
    ELSE IF at["handler"] = "signal" THEN IF ToCount("handler") THEN 2 ELSE 1
    ELSE IF at["handler"] = "again" \/ ToCount("handler") THEN 1 ELSE 0

Owed == tick + MainOwes + HandlerOwes <= 4
Checks == tick \in Nat \ {0} /\ status.check < tick /\ scm.check < tick

Calls ==
    /\ MainReports
    /\ HandlerReports
    /\ CalledAfterReport
    /\ EventTells
    /\ RunningOnce
    /\ ToldLate
    /\ Owed
    /\ Checks

\* The rest of TypeOK.
Rest ==
    /\ told \in BOOLEAN /\ broker \in BOOLEAN
    /\ event \in {"none", "unset", "set"}
    /\ starter \in [at : {"off", "query", "stopping", "start", "started", "starting"},
                    check : 0 .. 3, tries : 0 .. Retries]
    /\ entry \in {"absent", "present", "deleted"}
    /\ stopper \in [Program ->
                       [at : {"off", "query", "pending", "control", "controlling",
                              "waiting", "delete"},
                        deletes : BOOLEAN]]

\* No process, no reports: three are still to be counted.
LEMMA CallsInit == Init => Calls /\ Rest
<1> SUFFICES ASSUME Init PROVE Calls /\ Rest
    OBVIOUS
<1>1. /\ at["main"] = "gone" /\ at["handler"] = "idle"
      /\ report["main"].step = "none" /\ report["handler"].step = "none"
      /\ scm = Blank /\ status = Blank /\ event = "none" /\ told = FALSE /\ tick = 1
      /\ Blank.state = "STOPPED" /\ Blank.check = 0
    BY DEF Init, NoThread, NoReports, Thread, Blank
<1>2. Calls
    BY <1>1
    DEF Calls, MainReports, HandlerReports, CalledAfterReport, EventTells, RunningOnce,
        ToldLate, Owed, Checks, MainOwes, HandlerOwes, ToCount, Reporting, HasRun, InRun
<1>3. starter \in [at : {"off", "query", "stopping", "start", "started", "starting"},
                    check : 0 .. 3, tries : 0 .. Retries]
    BY RetriesAssumption DEF Init
<1>4. Rest
    BY <1>3 DEF Init, Rest, NotRun
<1> QED BY <1>2, <1>4

\* Filling in: the handler's SERVICE_STOP_PENDING covers SERVICE_RUNNING.
LEMMA CallsFill ==
    ASSUME IInv, Calls, NEW t \in Thread, FillsStatus(t)
    PROVE  Calls'
<1>1. Steps(t, "fill", "count") BY DEF FillsStatus
<1>2. /\ report[t].step = "fill"
      /\ report'[t].step = "count" /\ report'[t].state = report[t].state
      /\ \A u \in Thread \ {t} : report'[u] = report[u]
      /\ at' = at
    BY <1>1, StepsEffect DEF IInv
<1>3. scm' = scm /\ tick' = tick /\ told' = told /\ event' = event
    BY DEF FillsStatus, Steps
<1>4. status'.state = report[t].state /\ status'.check = status.check
    BY DEF FillsStatus, IInv, Shape, AnyStatus
<1>5. CASE t = "main"
    BY <1>2, <1>3, <1>4, <1>5
    DEF IInv, Parts, HandlerReportsInCall,
        Calls, MainReports, HandlerReports, CalledAfterReport, EventTells, RunningOnce,
        ToldLate, Owed, Checks, MainOwes, HandlerOwes, ToCount, Reporting, HasRun, InRun,
        Thread
<1>6. CASE t = "handler"
    BY <1>2, <1>3, <1>4, <1>6
    DEF IInv, Parts, HandlerReportsInCall,
        Calls, MainReports, HandlerReports, CalledAfterReport, EventTells, RunningOnce,
        ToldLate, Owed, Checks, MainOwes, HandlerOwes, ToCount, Reporting, HasRun, InRun,
        Thread
<1> QED BY <1>5, <1>6 DEF Thread

\* What one thread counts it no longer owes; the other owes what it did.
LEMMA Budget ==
    \A x, y, m, n, h \in Nat :
        x + m + h <= 4 /\ n <= m /\ (y = x \/ (y = x + 1 /\ n + 1 = m))
        => y + n + h <= 4 /\ y + h + n <= 4
OBVIOUS

\* Counting a pending state, whoever does it, uses up one of the reports owed.
LEMMA CallsCount ==
    ASSUME IInv, Calls, NEW t \in Thread, CountsCheckPoint(t)
    PROVE  Calls'
<1>1. Steps(t, "count", "set") BY DEF CountsCheckPoint
<1>2. /\ report[t].step = "count"
      /\ report'[t].step = "set" /\ report'[t].state = report[t].state
      /\ \A u \in Thread \ {t} : report'[u] = report[u]
      /\ at' = at
    BY <1>1, StepsEffect DEF IInv
<1>3. scm' = scm /\ told' = told /\ event' = event
    BY DEF CountsCheckPoint, Steps
<1>4. status'.state = status.state
    BY DEF CountsCheckPoint, IInv, Shape, AnyStatus
<1>5. /\ tick' \in {tick, tick + 1} /\ status'.check < tick'
      /\ tick' = tick + 1 => report[t].state \in {"START_PENDING", "STOP_PENDING"}
    BY DEF CountsCheckPoint, Pending, IInv, Shape, AnyStatus, Calls, Checks
<1>6. /\ MainReports' /\ HandlerReports' /\ CalledAfterReport' /\ EventTells'
      /\ RunningOnce' /\ ToldLate' /\ Checks'
    BY <1>2, <1>3, <1>4, <1>5
    DEF IInv, Shape, AnyStatus, Calls, MainReports, HandlerReports, CalledAfterReport,
        EventTells, RunningOnce, ToldLate, Checks, Reporting, HasRun, InRun, Thread
<1>7. Owed'
    <2> USE DEF Thread
    <2>1. /\ tick \in Nat /\ tick' \in Nat
          /\ MainOwes \in Nat /\ MainOwes' \in Nat
          /\ HandlerOwes \in Nat /\ HandlerOwes' \in Nat
          /\ tick + MainOwes + HandlerOwes <= 4
        BY <1>5 DEF Calls, Owed, Checks, HandlerOwes, MainOwes
    <2>2. CASE t = "main"
        <3>1. HandlerOwes' = HandlerOwes
            BY <1>2, <1>3, <2>2 DEF HandlerOwes, ToCount
        <3>2. MainOwes' <= MainOwes
            BY <1>2, <2>2 DEF MainOwes, ToCount
        <3>3. tick' = tick + 1 => MainOwes' + 1 = MainOwes
            BY <1>2, <1>5, <2>2 DEF MainOwes, ToCount, Calls, MainReports, Reporting
        <3>4. tick' = tick \/ (tick' = tick + 1 /\ MainOwes' + 1 = MainOwes)
            BY <1>5, <3>3
        <3> QED BY <2>1, <3>1, <3>2, <3>4, Budget DEF Owed
    <2>3. CASE t = "handler"
        <3>1. MainOwes' = MainOwes
            BY <1>2, <2>3 DEF MainOwes, ToCount
        <3>2. at["handler"] \in {"signal", "return"}
            BY <1>2, <2>3 DEF Calls, HandlerReports, Reporting
        <3>3. HandlerOwes' + 1 = HandlerOwes /\ HandlerOwes' <= HandlerOwes
            BY <1>2, <2>3, <3>2 DEF HandlerOwes, ToCount
        <3>4. tick + HandlerOwes + MainOwes <= 4
            BY <2>1
        <3>5. \/ tick' = tick
              \/ tick' = tick + 1 /\ HandlerOwes' + 1 = HandlerOwes
            BY <1>5, <3>3
        <3>6. tick' + MainOwes + HandlerOwes' <= 4
            BY <2>1, <3>3, <3>4, <3>5, Budget
        <3> QED BY <3>1, <3>6 DEF Owed
    <2> QED BY <2>2, <2>3
<1> QED BY <1>6, <1>7 DEF Calls

\* What is sent is gSvcStatus, or nothing any more.
LEMMA CallsSet ==
    ASSUME IInv, Calls, NEW t \in Thread, SetsServiceStatus(t)
    PROVE  Calls'
<1>1. Steps(t, "set", "none") BY DEF SetsServiceStatus
<1>2. /\ report[t].step = "set"
      /\ report'[t].step = "none" /\ report'[t].state = report[t].state
      /\ \A u \in Thread \ {t} : report'[u] = report[u]
      /\ at' = at
    BY <1>1, StepsEffect DEF IInv
<1>3. /\ scm' = status \/ (told /\ scm' = scm)
      /\ status' = status /\ tick' = tick /\ event' = event
      /\ told' = (told \/ status.state = "STOPPED")
    BY DEF SetsServiceStatus, Steps
<1>4. status.state = "STOPPED" => at["main"] = "returned"
    <2>3. Serving => status.state # "STOPPED"
        BY <1>2
        DEF IInv, Parts, HandlerAfterRunning, HandlerReportsInCall, NoEarlyStatus,
            FirstReport, Reporting, Thread, HasRun
    <2>1. CASE t = "main"
        BY <1>2, <2>1, <2>3 DEF Calls, MainReports, Reporting, Serving
    <2>2. CASE t = "handler"
        BY <1>2, <2>2, <2>3
        DEF IInv, Parts, HandlerReportsInCall, HandlerAfterRunning, Reporting, Serving, HasRun
    <2> QED BY <2>1, <2>2 DEF Thread
<1>5. ToldLate' BY <1>2, <1>3, <1>4 DEF Calls, ToldLate
<1>6. /\ MainReports' /\ HandlerReports' /\ CalledAfterReport' /\ EventTells' /\ Checks'
    BY <1>2, <1>3
    DEF Calls, MainReports, HandlerReports, CalledAfterReport, EventTells, Checks,
        Reporting, HasRun, Thread
<1>7. RunningOnce'
    BY <1>2, <1>3
    DEF IInv, Parts, HandlerReportsInCall, Calls, MainReports, HandlerReports,
        CalledAfterReport, RunningOnce, ToldLate, Reporting, HasRun, InRun, Thread
<1>8. Owed'
    BY <1>2, <1>3
    DEF Calls, Owed, Checks, MainOwes, HandlerOwes, ToCount, Thread
<1> QED BY <1>5, <1>6, <1>7, <1>8 DEF Calls
\* SvcMain's own steps, seen from outside its reports.
MainGoes(from, to) ==
    /\ at["main"] = from /\ at'["main"] = to /\ ~Reporting("main")
    /\ at'["handler"] = at["handler"]
MainBegins(s) ==
    /\ report'["main"].step = "fill" /\ report'["main"].state = s
    /\ report'["handler"] = report["handler"]

LEMMA MainEffect ==
    ASSUME Shape,
           Enters \/ EntersInVain \/ CreatesEvent \/ CreatesNoEvent \/ AcceptsControls
               \/ StartsWorker \/ IsAskedToStop \/ BlocksInStop
               \/ \E from \in {"stop", "blocked"} : StopEnds(from)
    PROVE  /\ scm' = scm /\ told' = told /\ tick' = tick
           /\ status'.state = status.state /\ status'.check = status.check
           /\ \/ MainGoes("entry", "event") /\ MainBegins("START_PENDING") /\ event' = event
              \/ MainGoes("entry", "returned") /\ report' = report /\ event' = event
              \/ MainGoes("event", "accept") /\ report' = report /\ event' = "unset"
              \/ MainGoes("event", "returned") /\ MainBegins("STOPPED") /\ event' = event
              \/ MainGoes("accept", "work") /\ MainBegins("RUNNING") /\ event' = event
              \/ MainGoes("work", "wait") /\ report' = report /\ event' = event
              \/ MainGoes("wait", "stop") /\ report' = report /\ event' = event /\ event = "set"
              \/ MainGoes("stop", "blocked") /\ report' = report /\ event' = event
              \/ /\ MainGoes("stop", "returned") \/ MainGoes("blocked", "returned")
                 /\ MainBegins("STOPPED") /\ event' = event
<1> USE DEF MainAt, HandlerAt
<1> "main" \in Thread /\ "handler" \in Thread \ {"main"} BY DEF Thread
<1>1. \A s \in State : Reports("main", s) => MainBegins(s)
    BY ReportsEffect DEF MainBegins
<1>2. \A from, to : to \in MainAt /\ Moves("main", from, to) => MainGoes(from, to)
    BY MovesEffect DEF MainGoes
<1>3. /\ scm' = scm /\ told' = told /\ tick' = tick
      /\ status'.state = status.state /\ status'.check = status.check
    BY DEF Enters, EntersInVain, CreatesEvent, CreatesNoEvent, AcceptsControls,
           StartsWorker, IsAskedToStop, BlocksInStop, StopEnds, Shape, AnyStatus
<1> QED
    BY <1>1, <1>2, <1>3
    DEF Enters, EntersInVain, CreatesEvent, CreatesNoEvent, AcceptsControls,
        StartsWorker, EventAtWork, IsAskedToStop, BlocksInStop, StopEnds, State

\* SvcMain's own steps keep what each thread has yet to count.
LEMMA CallsMain ==
    ASSUME IInv, Calls,
           Enters \/ EntersInVain \/ CreatesEvent \/ CreatesNoEvent \/ AcceptsControls
               \/ StartsWorker \/ IsAskedToStop \/ BlocksInStop
               \/ \E from \in {"stop", "blocked"} : StopEnds(from)
    PROVE  Calls'
<1> USE MainEffect DEF IInv, MainGoes, MainBegins
<1>1. at["main"] \in {"stop", "blocked"} => event = "set"
    BY DEF Calls, EventTells
<1>2. /\ MainReports' /\ HandlerReports' /\ CalledAfterReport' /\ EventTells'
      /\ ToldLate' /\ Checks'
    BY <1>1
    DEF Calls, MainReports, HandlerReports, CalledAfterReport, EventTells, ToldLate,
        Checks, Reporting, HasRun
<1>3. RunningOnce'
    BY DEF Calls, RunningOnce, EventTells, CalledAfterReport, Reporting, HasRun, InRun
<1>4. Owed'
    BY DEF Calls, EventTells, CalledAfterReport, Owed, Checks, MainOwes, HandlerOwes, ToCount,
        Reporting, HasRun
<1> QED BY <1>2, <1>3, <1>4 DEF Calls

\* The handler's own steps, seen from outside its reports.
HandlerGoes(from, to) ==
    /\ at["handler"] = from /\ at'["handler"] = to /\ ~Reporting("handler")
    /\ at'["main"] = at["main"]

LEMMA HandlerEffect ==
    ASSUME Shape, SignalsStop \/ ReportsAgain \/ HandlerReturns
    PROVE  /\ scm' = scm /\ told' = told /\ tick' = tick /\ status' = status
           /\ \/ HandlerGoes("signal", "again") /\ report' = report /\ event' = "set"
              \/ /\ HandlerGoes("again", "return") /\ event' = event
                 /\ report'["main"] = report["main"]
                 /\ report'["handler"].step = "fill"
                 /\ report'["handler"].state = status.state
              \/ HandlerGoes("return", "idle") /\ report' = report /\ event' = event
<1> USE DEF MainAt, HandlerAt
<1> "handler" \in Thread /\ "main" \in Thread \ {"handler"} BY DEF Thread
<1>1. status.state \in State BY DEF Shape, AnyStatus
<1>2. \A from, to : to \in HandlerAt /\ Moves("handler", from, to) => HandlerGoes(from, to)
    BY MovesEffect DEF HandlerGoes
<1>3. scm' = scm /\ told' = told /\ tick' = tick /\ status' = status
    BY DEF SignalsStop, ReportsAgain, HandlerReturns
<1>4. CASE SignalsStop BY <1>2, <1>3, <1>4 DEF SignalsStop
<1>5. CASE ReportsAgain
    <2>1. Reports("handler", status.state) /\ event' = event
        BY <1>5 DEF ReportsAgain, StateAgain
    <2>2. /\ report'["handler"].step = "fill" /\ report'["handler"].state = status.state
          /\ report'["main"] = report["main"]
        BY <1>1, <2>1, ReportsEffect
    <2> QED BY <1>2, <1>3, <1>5, <2>1, <2>2 DEF ReportsAgain
<1>6. CASE HandlerReturns BY <1>2, <1>3, <1>6 DEF HandlerReturns
<1> QED BY <1>4, <1>5, <1>6

\* The handler repeats a state that is not SERVICE_RUNNING.
LEMMA CallsHandler ==
    ASSUME IInv, Calls, SignalsStop \/ ReportsAgain \/ HandlerReturns
    PROVE  Calls'
<1> USE HandlerEffect DEF IInv, HandlerGoes
<1>1. /\ MainReports' /\ HandlerReports' /\ CalledAfterReport' /\ EventTells'
      /\ ToldLate' /\ Checks'
    BY DEF Calls, MainReports, HandlerReports, CalledAfterReport, EventTells, RunningOnce,
        ToldLate, Checks, Reporting, HasRun
<1>2. RunningOnce'
    BY DEF Calls, RunningOnce, EventTells, Reporting, HasRun, InRun
<1>3. Owed'
    BY DEF Calls, EventTells, Owed, Checks, MainOwes, HandlerOwes, ToCount, Reporting
<1> QED BY <1>1, <1>2, <1>3 DEF Calls

\* Nothing of a process outlives it.
LEMMA EndEffect ==
    ASSUME DispatcherReturns \/ \E from \in {"stop", "blocked"} : DiesIn(from)
    PROVE  /\ at'["main"] = "gone" /\ at'["handler"] = "idle"
           /\ report'["main"].step = "none" /\ report'["handler"].step = "none"
           /\ scm'.state = "STOPPED" /\ scm'.check = 0
           /\ status'.state = "STOPPED" /\ status'.check = 0
           /\ event' = "none" /\ told' = FALSE /\ tick' = 1
BY DEF DispatcherReturns, DiesIn, ProcessEnds, NoThread, NoReports, Thread, Blank

\* A new process has all its reports before it.
LEMMA CallsEnd ==
    ASSUME IInv, Calls, DispatcherReturns \/ \E from \in {"stop", "blocked"} : DiesIn(from)
    PROVE  Calls'
<1>1. /\ MainReports' /\ HandlerReports' /\ CalledAfterReport' /\ EventTells'
      /\ RunningOnce' /\ ToldLate'
    BY EndEffect
    DEF MainReports, HandlerReports, CalledAfterReport, EventTells, RunningOnce, ToldLate,
        Reporting, HasRun, InRun
<1>2. /\ at'["main"] = "gone" /\ at'["handler"] = "idle" /\ event' = "none" /\ tick' = 1
      /\ scm'.check = 0 /\ status'.check = 0
    BY EndEffect
<1>3. Owed' /\ Checks' BY <1>2 DEF Owed, MainOwes, HandlerOwes, Checks
<1> QED BY <1>1, <1>3 DEF Calls

\* The two steps of the control programs that reach the process.
Kept == status' = status /\ tick' = tick /\ event' = event /\ told' = told

LEMMA StartEffect ==
    ASSUME IInv, StartsService
    PROVE  /\ at["main"] = "gone" /\ at'["main"] = "entry"
           /\ at["handler"] = "idle" /\ at'["handler"] = "idle"
           /\ ~Reporting("main") /\ ~Reporting("handler") /\ report' = report
           /\ scm.state = "STOPPED" /\ scm'.state = "START_PENDING" /\ scm'.check = 0 /\ Kept
<1>1. /\ at["main"] = "gone" /\ at'["main"] = "entry" /\ at'["handler"] = at["handler"]
      /\ scm'.state = "START_PENDING" /\ scm'.check = 0
      /\ report' = report /\ Kept
    BY DEF StartsService, Blank, IInv, Shape, Thread, Kept
<1>2. /\ at["handler"] = "idle" /\ ~Reporting("main") /\ ~Reporting("handler")
      /\ scm.state = "STOPPED"
    BY <1>1 DEF IInv, Parts, GoneIsBlank, HandlerReportsInCall, Blank
<1> QED BY <1>1, <1>2

LEMMA ControlEffect ==
    ASSUME IInv, NEW p \in Program, SendsControl(p)
    PROVE  /\ scm.state = "RUNNING" /\ scm' = scm /\ Kept
           /\ at["handler"] = "idle" /\ ~Reporting("handler")
           /\ at'["handler"] = "signal" /\ at'["main"] = at["main"]
           /\ report'["handler"].step = "fill" /\ report'["handler"].state = "STOP_PENDING"
           /\ report'["main"] = report["main"]
<1>1. /\ scm.state = "RUNNING" /\ at["handler"] = "idle" /\ ~Reporting("handler")
      /\ scm' = scm /\ Kept
    BY DEF SendsControl, CanBeStopped, IInv, Parts, HandlerReportsInCall, Kept
<1>2. at'["handler"] = "signal" /\ at'["main"] = at["main"]
    BY DEF SendsControl, IInv, Shape, Thread
<1>3. /\ report'["handler"].step = "fill" /\ report'["handler"].state = "STOP_PENDING"
      /\ report'["main"] = report["main"]
    BY ReportsEffect DEF SendsControl, IInv, Thread, State
<1> QED BY <1>1, <1>2, <1>3

\* A process that starts, and one that is asked to stop, owe what they should.
LEMMA CallsControl ==
    ASSUME IInv, Calls, StartsService \/ \E p \in Program : SendsControl(p)
    PROVE  Calls'
<1> USE DEF Kept, Calls, MainReports, HandlerReports, CalledAfterReport, EventTells, RunningOnce,
            ToldLate, Owed, Checks, MainOwes, HandlerOwes, ToCount, Reporting, HasRun, InRun
<1>1. CASE StartsService BY <1>1, StartEffect
<1>2. CASE \E p \in Program : SendsControl(p) BY <1>2, ControlEffect
<1> QED BY <1>1, <1>2

LEMMA CallsLook ==
    ASSUME Calls, UNCHANGED serviceVars
    PROVE  Calls'
BY DEF serviceVars, processVars, Calls, MainReports, HandlerReports, CalledAfterReport,
       EventTells, RunningOnce, ToldLate, Owed, Checks, MainOwes, HandlerOwes, ToCount,
       Reporting, HasRun, InRun
-----------------------------------------------------------------------------
\* The other steps of the programs, and the SCM's, leave the process alone.
LEMMA OnlyTheyReach ==
    ASSUME [Next]_vars
    PROVE  \/ MainNext \/ BlockEnds \/ DispatcherNext
           \/ StartsService \/ \E p \in Program : SendsControl(p)
           \/ UNCHANGED serviceVars
<1>1. StartBegins \/ StarterNext => StartsService \/ UNCHANGED serviceVars
    BY DEF StartBegins, StarterNext, StarterMoves, FindsRunning, FindsStopped, FindsStopping,
           SeesProgress, SeesNoProgress, StartServiceFails, IsStarting, IsNotStarting,
           PollsAgain, PollsNoMore
<1>2. ASSUME NEW p \in Program, StopBegins(p) \/ StopperNext(p)
      PROVE  SendsControl(p) \/ UNCHANGED serviceVars
    BY <1>2
    DEF StopBegins, StopperNext, SeesStopped, SeesStopping, SeesRunning, GivesUpWaiting,
        ControlRefused, ControlReturns, ControlFails, Deletes
<1>3. Installs \/ EntryGoes \/ UNCHANGED vars => UNCHANGED serviceVars
    BY DEF Installs, EntryGoes, vars
<1> QED BY <1>1, <1>2, <1>3 DEF Next

\* All steps keep the bound on what is still to be counted.
LEMMA CallsStep == IInv /\ Calls /\ [Next]_vars => Calls'
<1> SUFFICES ASSUME IInv, Calls, [Next]_vars
             PROVE  Calls'
    OBVIOUS
<1>1. CASE MainNext
    BY <1>1, CallsFill, CallsCount, CallsSet, CallsMain, CallsEnd
    DEF MainNext, StopsWorker, DiesStoppingWorker, ThreadReports, Thread
<1>2. CASE DispatcherNext
    BY <1>2, CallsFill, CallsCount, CallsSet, CallsHandler, CallsEnd
    DEF DispatcherNext, ThreadReports, Thread
<1>3. CASE BlockEnds
    BY <1>3, CallsMain, CallsEnd DEF BlockEnds
<1> QED BY <1>1, <1>2, <1>3, CallsControl, CallsLook, OnlyTheyReach

\* With at most three reports counted, check points are what TypeOK says.
LEMMA CallsBound ==
    ASSUME Shape, Calls
    PROVE  scm \in Status /\ status \in Status /\ tick \in 1 .. 4
<1>1. MainOwes \in Nat /\ HandlerOwes \in Nat BY DEF MainOwes, HandlerOwes
<1>2. tick \in 1 .. 4 BY <1>1 DEF Calls, Owed, Checks
<1>3. scm.check \in 0 .. 3 /\ status.check \in 0 .. 3
    BY <1>2 DEF Calls, Checks, Shape, AnyStatus
<1> QED BY <1>2, <1>3 DEF Shape, AnyStatus, Status

\* What is left of TypeOK: a program remembers a check point it has been shown.
LEMMA RestStep ==
    ASSUME IInv, Calls, Rest, [Next]_vars
    PROVE  Rest'
<1>1. scm \in Status BY CallsBound DEF IInv
<1> DEFINE Starters ==
        [at : {"off", "query", "stopping", "start", "started", "starting"},
         check : 0 .. 3, tries : 0 .. Retries]
<1>2. CASE MainNext
    BY <1>2
    DEF Rest, programVars, MainNext, ThreadReports, FillsStatus, CountsCheckPoint, SetsServiceStatus,
        Steps, Enters, EntersInVain, CreatesEvent, CreatesNoEvent, AcceptsControls,
        StartsWorker, EventAtWork, IsAskedToStop, BlocksInStop, StopsWorker, StopEnds,
        BrokerAfterStop, DiesStoppingWorker, DiesIn, ProcessEnds
<1>3. CASE DispatcherNext
    BY <1>3
    DEF Rest, programVars, DispatcherNext, ThreadReports, FillsStatus, CountsCheckPoint,
        SetsServiceStatus, Steps, SignalsStop, ReportsAgain, HandlerReturns,
        DispatcherReturns, ProcessEnds
<1>4. CASE StartBegins \/ StarterNext
    <2>1. /\ told' = told /\ broker' = broker /\ event' = event
          /\ entry' = entry /\ stopper' = stopper
        BY <1>4
        DEF StartBegins, StarterNext, FindsRunning, FindsStopped, FindsStopping,
            SeesProgress, SeesNoProgress, StartsService, StartServiceFails, IsStarting,
            IsNotStarting, PollsAgain, PollsNoMore, StarterMoves, serviceVars, processVars
    <2>2. starter' \in Starters
        <3>1. starter \in Starters /\ scm.check \in 0 .. 3
            BY <1>1 DEF Rest, Status
        <3>2. CASE PollsAgain
            <4>1. starter.tries + 1 \in 0 .. Retries
                BY <3>1, <3>2, RetriesAssumption DEF PollsAgain
            <4> QED BY <3>1, <3>2, <4>1 DEF PollsAgain, NextTry
        <3>3. CASE FindsStopping
            BY <3>1, <3>3 DEF FindsStopping
        <3>4. CASE SeesProgress
            <4>1. starter' = [starter EXCEPT !.at = "stopping", !.check = scm.check]
                      \/ starter' = [starter EXCEPT !.at = "start", !.check = scm.check]
                BY <3>4 DEF SeesProgress
            <4> QED BY <3>1, <4>1
        <3>5. CASE IsStarting
            <4>1. 0 \in 0 .. Retries BY RetriesAssumption
            <4>2. starter' = [starter EXCEPT !.at = "starting", !.tries = 0]
                BY <3>5 DEF IsStarting
            <4> QED BY <3>1, <4>1, <4>2
        <3>6. CASE StartBegins \/ FindsRunning \/ FindsStopped \/ SeesNoProgress
            BY <3>1, <3>6
            DEF StartBegins, FindsRunning, FindsStopped, SeesNoProgress, StarterMoves
        <3>7. CASE StartServiceFails \/ IsNotStarting \/ PollsNoMore
            <4>1. starter' = [starter EXCEPT !.at = "off"]
                BY <3>7 DEF StartServiceFails, IsNotStarting, PollsNoMore, StarterMoves
            <4> QED BY <3>1, <4>1
        <3>8. CASE StartsService
            <4>1. starter' = [starter EXCEPT !.at = "started"]
                BY <3>8 DEF StartsService
            <4> QED BY <3>1, <4>1
        <3> QED BY <1>4, <3>2, <3>3, <3>4, <3>5, <3>6, <3>7, <3>8 DEF StarterNext
    <2> QED BY <2>1, <2>2 DEF Rest
<1>5. CASE \E p \in Program : StopBegins(p) \/ StopperNext(p)
    <2> DEFINE Places == {"off", "query", "pending", "control", "controlling", "waiting",
                          "delete"}
    <2>1. PICK p \in Program : StopBegins(p) \/ StopperNext(p)
        BY <1>5
    <2>2. AfterStop(p) \in Places
        BY DEF AfterStop
    <2>3. CASE StopBegins(p)
        BY <2>3 DEF Rest, StopBegins, serviceVars, processVars
    <2>4. CASE Deletes(p)
        BY <2>4 DEF Rest, Deletes, NotRun, serviceVars, processVars
    <2>5. ASSUME NEW from, NEW to \in Places, StopperMoves(p, from, to),
                 UNCHANGED <<told, event, broker>>
          PROVE  Rest'
        BY <2>5 DEF Rest, StopperMoves
    <2>6. CASE SeesStopped(p)
        BY <2>2, <2>5, <2>6 DEF SeesStopped, serviceVars, processVars
    <2>7. CASE SeesStopping(p) \/ SeesRunning(p)
        BY <2>5, <2>7 DEF SeesStopping, SeesRunning, serviceVars, processVars
    <2>8. CASE GivesUpWaiting(p) \/ ControlRefused(p) \/ ControlFails(p)
        BY <2>2, <2>5, <2>8
        DEF GivesUpWaiting, ControlRefused, ControlFails, serviceVars, processVars
    <2>9. CASE SendsControl(p)
        BY <2>5, <2>9 DEF SendsControl
    <2>10. CASE ControlReturns(p)
        <3>1. (IF scm.state = "STOPPED" THEN AfterStop(p) ELSE "waiting") \in Places
            BY <2>2
        <3> QED BY <2>5, <2>10, <3>1 DEF ControlReturns, serviceVars, processVars
    <2> QED BY <2>1, <2>3, <2>4, <2>6, <2>7, <2>8, <2>9, <2>10 DEF StopperNext
<1>6. CASE Installs \/ EntryGoes \/ UNCHANGED vars
    BY <1>6
    DEF Rest, Installs, EntryGoes, vars, programVars, serviceVars, processVars
<1>7. CASE BlockEnds
    BY <1>7 DEF Rest, programVars, BlockEnds, StopEnds, BrokerAfterStop, DiesIn, ProcessEnds
<1> QED BY <1>2, <1>3, <1>4, <1>5, <1>6, <1>7 DEF Next

\* The counter of check points, which ReportSvcStatus never resets, stays within
\* three reports of one process however the threads' reports mix, since the
\* handler of BrokerSvc.cpp is called once at most; the rest is well typed.
THEOREM TypeCorrect == Spec => []TypeOK
<1>1. IInv /\ Calls /\ Rest => TypeOK
    <2> SUFFICES ASSUME IInv, Calls, Rest
                 PROVE  TypeOK
        OBVIOUS
    <2>1. scm \in Status /\ status \in Status /\ tick \in 1 .. 4
        BY CallsBound DEF IInv
    <2>2. MainAt \cup HandlerAt = {"gone", "entry", "event", "accept", "work", "wait",
                "stop", "blocked", "returned", "idle", "signal", "again", "return"}
        BY DEF MainAt, HandlerAt
    <2> QED BY <2>1, <2>2 DEF IInv, Shape, Rest, TypeOK
<1>2. Init => IInv /\ Calls /\ Rest
    BY InitHolds, CallsInit
<1>3. IInv /\ Calls /\ Rest /\ [Next]_vars => (IInv /\ Calls /\ Rest)'
    BY Step, CallsStep, RestStep
<1> QED BY <1>1, <1>2, <1>3, PTL DEF Spec

-----------------------------------------------------------------------------
(***************************************************************************)
(* What the programs see.  The record the SCM shows follows the two threads*)
(* through the run of a process, so that a report under way, whichever     *)
(* thread has filled it in last, is of a state that may come next.         *)
(***************************************************************************)

Late == {"STOP_PENDING", "STOPPED"}

\* SERVICE_START_PENDING stands until SERVICE_RUNNING is sent, and that stands
\* until the handler sends its first report.
StartSeen ==
    at["main"] \in {"entry", "event", "accept"} \/ (at["main"] = "work" /\ Reporting("main"))
        => scm.state = "START_PENDING"
RunSeen ==
    InRun /\ ~Reporting("main") /\ event # "set"
        /\ (at["handler"] = "signal" => Reporting("handler"))
        => scm.state = "RUNNING"
StopSeen ==
    event = "set" \/ (at["handler"] = "signal" /\ ~Reporting("handler"))
        => scm.state \in Late /\ status.state \in Late

\* The handler repeats no state from before its own first report.
HandlerLate == Reporting("handler") => report["handler"].state \in Late

\* A first report is sent as it was filled in: the other thread is not there.
Filled ==
    /\ Reporting("main") /\ report["main"].step # "fill" /\ at["main"] # "returned"
           => status.state = report["main"].state
    /\ at["handler"] = "signal" /\ report["handler"].step # "fill"
           => status.state = "STOP_PENDING"

\* The handler comes once, and finds the event; a SvcMain that has returned
\* without having been asked to has not created one, and is alone.
EventMade ==
    /\ at["handler"] = "signal" => InRun /\ event \notin {"none", "set"}
    /\ at["main"] \in {"accept", "work", "wait", "stop", "blocked"} => event # "none"
    /\ at["main"] = "returned" => event \in {"none", "set"}
ReturnsEarly ==
    at["main"] = "returned" /\ event = "none" =>
        /\ scm.state \in {"START_PENDING", "STOPPED"}
        /\ Reporting("main") /\ report["main"].step # "fill" => status.state = "STOPPED"

Seen ==
    /\ StartSeen
    /\ RunSeen
    /\ StopSeen
    /\ HandlerLate
    /\ Filled
    /\ EventMade
    /\ ReturnsEarly

\* Before the first process there is nothing to be seen.
LEMMA SeenInit == Init => Seen
BY DEF Init, NoThread, NoReports, Thread, Blank, Seen, StartSeen, RunSeen, StopSeen, Filled,
       HandlerLate, EventMade, ReturnsEarly, Reporting, InRun

\* What is filled in is of the state that comes next for the reporting thread.
LEMMA SeenFill ==
    ASSUME IInv, Calls, Seen, NEW t \in Thread, FillsStatus(t)
    PROVE  Seen'
<1>1. Steps(t, "fill", "count") BY DEF FillsStatus
<1>2. /\ report[t].step = "fill"
      /\ report'[t].step = "count" /\ report'[t].state = report[t].state
      /\ \A u \in Thread \ {t} : report'[u] = report[u]
      /\ at' = at
    BY <1>1, StepsEffect DEF IInv
<1>3. scm' = scm /\ event' = event BY DEF FillsStatus, Steps
<1>4. status'.state = report[t].state BY DEF FillsStatus, IInv, Shape, AnyStatus
<1>5. t = "handler" => report[t].state \in Late
    BY <1>2 DEF Seen, HandlerLate, Reporting
<1> USE DEF IInv, Parts, HandlerReportsInCall, Calls, MainReports, HandlerReports,
            CalledAfterReport, EventTells, Seen, StartSeen, RunSeen, StopSeen, Filled,
            HandlerLate, EventMade, ReturnsEarly, Reporting, HasRun, InRun, Late
<1>6. CASE t = "main" BY <1>2, <1>3, <1>4, <1>6 DEF Thread
<1>7. CASE t = "handler" BY <1>2, <1>3, <1>4, <1>5, <1>7 DEF Thread
<1> QED BY <1>6, <1>7 DEF Thread

\* Counting leaves the states alone.
LEMMA SeenCount ==
    ASSUME IInv, Seen, NEW t \in Thread, CountsCheckPoint(t)
    PROVE  Seen'
<1>1. Steps(t, "count", "set") BY DEF CountsCheckPoint
<1>2. /\ report[t].step = "count"
      /\ report'[t].step = "set" /\ report'[t].state = report[t].state
      /\ \A u \in Thread \ {t} : report'[u] = report[u]
      /\ at' = at
    BY <1>1, StepsEffect DEF IInv
<1>3. scm' = scm /\ event' = event /\ status'.state = status.state
    BY DEF CountsCheckPoint, Steps, IInv, Shape, AnyStatus
<1> QED
    BY <1>2, <1>3
    DEF Seen, StartSeen, RunSeen, StopSeen, Filled, HandlerLate, EventMade,
        ReturnsEarly, Reporting, InRun, Thread

\* A report shows a state that may come next, or the one that is shown.
LEMMA SeenSet ==
    ASSUME IInv, Calls, Seen, NEW t \in Thread, SetsServiceStatus(t)
    PROVE  Seen' /\ (scm'.state = scm.state \/ <<scm.state, scm'.state>> \in Order)
<1>1. Steps(t, "set", "none") BY DEF SetsServiceStatus
<1>2. /\ report[t].step = "set"
      /\ report'[t].step = "none" /\ report'[t].state = report[t].state
      /\ \A u \in Thread \ {t} : report'[u] = report[u]
      /\ at' = at
    BY <1>1, StepsEffect DEF IInv
<1>3. /\ scm' = status \/ (told /\ scm' = scm)
      /\ status' = status /\ event' = event
    BY DEF SetsServiceStatus, Steps
<1> USE DEF IInv, Parts, HandlerReportsInCall, Calls, MainReports, HandlerReports,
            CalledAfterReport, EventTells, ToldLate, Seen, StartSeen, RunSeen, StopSeen, Filled,
            HandlerLate, EventMade, ReturnsEarly, Reporting, HasRun, InRun, Late, Order
<1>4. CASE t = "main"
    <2>1. /\ report["main"].step = "set" /\ report'["main"].step = "none"
          /\ report'["handler"] = report["handler"]
        BY <1>2, <1>4 DEF Thread
    <2>2. CASE at["main"] = "event" BY <1>2, <1>3, <2>1, <2>2
    <2>3. CASE at["main"] = "work" BY <1>2, <1>3, <2>1, <2>3
    <2>4. CASE at["main"] = "returned" BY <1>2, <1>3, <2>1, <2>4
    <2> QED BY <2>1, <2>2, <2>3, <2>4
<1>5. CASE t = "handler" BY <1>2, <1>3, <1>5 DEF Thread
<1> QED BY <1>4, <1>5 DEF Thread

\* SvcMain's and the handler's own steps show nothing.
LEMMA SeenMain ==
    ASSUME IInv, Calls, Seen,
           Enters \/ EntersInVain \/ CreatesEvent \/ CreatesNoEvent \/ AcceptsControls
               \/ StartsWorker \/ IsAskedToStop \/ BlocksInStop
               \/ \E from \in {"stop", "blocked"} : StopEnds(from)
    PROVE  Seen'
BY MainEffect
DEF IInv, MainGoes, MainBegins, Parts, HandlerReportsInCall, Calls, CalledAfterReport, EventTells,
    Seen, StartSeen, RunSeen, StopSeen, Filled, HandlerLate, EventMade, ReturnsEarly,
    Reporting, HasRun, InRun

LEMMA SeenHandler ==
    ASSUME IInv, Calls, Seen, SignalsStop \/ ReportsAgain \/ HandlerReturns
    PROVE  Seen'
BY HandlerEffect
DEF IInv, HandlerGoes, Calls, EventTells, Seen, StartSeen, RunSeen, StopSeen, Filled,
    HandlerLate, EventMade, ReturnsEarly, Reporting, HasRun, InRun

\* The end of a process shows a stopped service, whatever was shown before it.
LEMMA SeenEnd ==
    ASSUME IInv, Calls, Seen, DispatcherReturns \/ \E from \in {"stop", "blocked"} : DiesIn(from)
    PROVE  Seen' /\ (scm'.state = scm.state \/ <<scm.state, scm'.state>> \in Order)
<1>1. Seen'
    BY EndEffect
    DEF Seen, StartSeen, RunSeen, StopSeen, Filled, HandlerLate, EventMade, ReturnsEarly,
        Reporting, InRun
<1>2. scm'.state = "STOPPED" BY EndEffect
<1>3. scm.state \in State /\ scm.state # "RUNNING"
    BY DEF DispatcherReturns, DiesIn, Calls, ToldLate, EventTells, RunningOnce, InRun,
           IInv, Shape, AnyStatus
<1> QED BY <1>1, <1>2, <1>3 DEF Order, State

LEMMA SeenControl ==
    ASSUME IInv, Calls, Seen, StartsService \/ \E p \in Program : SendsControl(p)
    PROVE  Seen' /\ (scm'.state = scm.state \/ <<scm.state, scm'.state>> \in Order)
<1> USE DEF Kept, Calls, CalledAfterReport, EventTells, RunningOnce, Seen, StartSeen, RunSeen,
            StopSeen, Filled, HandlerLate, EventMade, ReturnsEarly, Reporting, HasRun, InRun,
            Late, Order
<1>1. CASE StartsService BY <1>1, StartEffect
<1>2. CASE \E p \in Program : SendsControl(p)
    <2>1. PICK p \in Program : SendsControl(p) BY <1>2
    <2>2. StartSeen' BY <2>1, ControlEffect
    <2>3. RunSeen' BY <2>1, ControlEffect
    <2>4. StopSeen' BY <2>1, ControlEffect
    <2>5. HandlerLate' BY <2>1, ControlEffect
    <2>6. Filled' BY <2>1, ControlEffect
    <2>7. EventMade' BY <2>1, ControlEffect
    <2>8. ReturnsEarly' BY <2>1, ControlEffect
    <2> QED BY <2>1, <2>2, <2>3, <2>4, <2>5, <2>6, <2>7, <2>8, ControlEffect
<1> QED BY <1>1, <1>2

LEMMA SeenLook ==
    ASSUME Seen, UNCHANGED serviceVars
    PROVE  Seen'
BY DEF serviceVars, processVars, Seen, StartSeen, RunSeen, StopSeen, Filled, HandlerLate,
       EventMade, ReturnsEarly, Reporting, InRun

\* A step keeps what is seen in line with the two threads, and shows states in
\* order: the record changes where a thread sends a report, and where a
\* process starts and ends.
LEMMA SeenStep ==
    ASSUME IInv, Calls, Seen, [Next]_vars
    PROVE  Seen' /\ (scm'.state = scm.state \/ <<scm.state, scm'.state>> \in Order)
<1>1. CASE MainNext
    <2>1. CASE \E t \in Thread : SetsServiceStatus(t) BY <2>1, SeenSet
    <2>2. CASE DiesStoppingWorker BY <2>2, SeenEnd DEF DiesStoppingWorker
    <2>3. CASE FillsStatus("main") \/ CountsCheckPoint("main")
        BY <2>3, SeenFill, SeenCount DEF FillsStatus, CountsCheckPoint, Steps, Thread
    <2>4. CASE \/ Enters \/ EntersInVain \/ CreatesEvent \/ CreatesNoEvent \/ AcceptsControls
               \/ StartsWorker \/ IsAskedToStop \/ BlocksInStop
               \/ \E from \in {"stop", "blocked"} : StopEnds(from)
        BY <2>4, SeenMain, MainEffect DEF IInv
    <2> QED
        BY <1>1, <2>1, <2>2, <2>3, <2>4 DEF MainNext, StopsWorker, ThreadReports, Thread
<1>2. CASE DispatcherNext
    <2>1. CASE \E t \in Thread : SetsServiceStatus(t) BY <2>1, SeenSet
    <2>2. CASE DispatcherReturns BY <2>2, SeenEnd
    <2>3. CASE FillsStatus("handler") \/ CountsCheckPoint("handler")
        BY <2>3, SeenFill, SeenCount DEF FillsStatus, CountsCheckPoint, Steps, Thread
    <2>4. CASE SignalsStop \/ ReportsAgain \/ HandlerReturns
        BY <2>4, SeenHandler, HandlerEffect DEF IInv
    <2> QED BY <1>2, <2>1, <2>2, <2>3, <2>4 DEF DispatcherNext, ThreadReports, Thread
<1>3. CASE StartsService \/ \E p \in Program : SendsControl(p)
    BY <1>3, SeenControl
<1>4. CASE UNCHANGED serviceVars
    BY <1>4, SeenLook DEF serviceVars, processVars
<1>5. CASE BlockEnds
    <2>1. CASE \E from \in {"stop", "blocked"} : DiesIn(from) BY <2>1, SeenEnd
    <2>2. CASE StopEnds("blocked") BY <2>2, SeenMain, MainEffect DEF IInv
    <2> QED BY <1>5, <2>1, <2>2 DEF BlockEnds
<1> QED BY <1>1, <1>2, <1>3, <1>4, <1>5, OnlyTheyReach

\* The event is set by the handler, created before the handler can be called,
\* and closed with the process.
LEMMA SignalStep ==
    ASSUME IInv, Calls, Seen, [Next]_vars
    PROVE  event = "set" => event' = "set" \/ at'["main"] = "gone"
<1> SUFFICES ASSUME event = "set" PROVE event' = "set" \/ at'["main"] = "gone"
    OBVIOUS
<1>1. \A t \in Thread : ThreadReports(t) => event' = event
    BY DEF ThreadReports, FillsStatus, CountsCheckPoint, SetsServiceStatus, Steps
<1>2. DispatcherReturns \/ (\E from \in {"stop", "blocked"} : DiesIn(from)) => at'["main"] = "gone"
    BY EndEffect
<1>3. CASE MainNext
    <2>1. at["main"] # "event" BY DEF Calls, EventTells
    <2>2. CASE \/ Enters \/ EntersInVain \/ CreatesEvent \/ CreatesNoEvent \/ AcceptsControls
               \/ StartsWorker \/ IsAskedToStop \/ BlocksInStop
               \/ \E from \in {"stop", "blocked"} : StopEnds(from)
        BY <2>1, <2>2, MainEffect DEF IInv, MainGoes
    <2> QED
        BY <1>1, <1>2, <1>3, <2>2 DEF MainNext, StopsWorker, DiesStoppingWorker, Thread
<1>4. CASE DispatcherNext
    <2>1. CASE SignalsStop \/ ReportsAgain \/ HandlerReturns
        BY <2>1, HandlerEffect DEF IInv
    <2> QED BY <1>1, <1>2, <1>4, <2>1 DEF DispatcherNext, Thread
<1>5. CASE StartsService \/ \E p \in Program : SendsControl(p)
    BY <1>5 DEF StartsService, SendsControl
<1>6. CASE UNCHANGED serviceVars
    BY <1>6 DEF serviceVars, processVars
<1>7. CASE BlockEnds
    <2>1. CASE StopEnds("blocked")
        BY <2>1, MainEffect DEF IInv, MainGoes, Calls, EventTells
    <2> QED BY <1>2, <1>7, <2>1 DEF BlockEnds
<1> QED BY <1>3, <1>4, <1>5, <1>6, <1>7, OnlyTheyReach

\* The two threads of BrokerSvc.cpp write one gSvcStatus and send what is
\* there, but the programs that poll the service see it start, run and stop.
THEOREM ReportsInOrderHolds == Spec => ReportsInOrder
<1>1. Init => IInv /\ Calls /\ Seen
    BY InitHolds, CallsInit, SeenInit
<1>2. IInv /\ Calls /\ Seen /\ [Next]_vars
          => (IInv /\ Calls /\ Seen)'
                 /\ [scm'.state # scm.state => <<scm.state, scm'.state>> \in Order]_vars
    BY Step, CallsStep, SeenStep
<1> QED BY <1>1, <1>2, PTL DEF Spec, ReportsInOrder

\* A stop signalled at any moment stays signalled as long as the process lives.
THEOREM StopSignalKeptHolds == Spec => StopSignalKept
<1>1. Init => IInv /\ Calls /\ Seen
    BY InitHolds, CallsInit, SeenInit
<1>2. IInv /\ Calls /\ Seen /\ [Next]_vars
          => (IInv /\ Calls /\ Seen)'
                 /\ [event = "set" => event' = "set" \/ at'["main"] = "gone"]_vars
    BY Step, CallsStep, SeenStep, SignalStep
<1> QED BY <1>1, <1>2, PTL DEF Spec, StopSignalKept
=============================================================================
