------------------------------- MODULE Service -------------------------------
(***************************************************************************)
(* The Windows service around the broker and the programs that control it: *)
(* BrokerSvc without arguments, and with "install", "start", "stop" and    *)
(* "uninstall".                                                            *)
(*                                                                         *)
(* The service process runs SvcMain on a thread of its own and the control *)
(* handler on the dispatcher's thread.  Both report through gSvcStatus,    *)
(* which nothing protects.  The Service Control Manager (SCM) keeps what   *)
(* it was told last; DoStartSvc and DoStopSvc see only that.               *)
(*                                                                         *)
(* Time is not modelled: a wait that may time out may do so at any poll.   *)
(* What the control programs return is left out, as _tmain discards it.    *)
(***************************************************************************)
EXTENDS Naturals

CONSTANTS
    Retries,     \* polls of DoStartSvc before it gives up (5)
    Program      \* copies of BrokerSvc at "stop" or "uninstall" at once

ASSUME RetriesAssumption == Retries \in Nat

Thread == {"main", "handler"}
State == {"STOPPED", "START_PENDING", "RUNNING", "STOP_PENDING"}
Status == [state : State, check : 0 .. 3, stops : BOOLEAN]

VARIABLES
    scm,        \* the SCM's record: state, check point, stop accepted
    told,       \* the SCM has had SERVICE_STOPPED from the process
    at,         \* at[t]: where the thread is between two reports
    report,     \* report[t]: the thread's ReportSvcStatus, and how far it is
    status,     \* gSvcStatus
    tick,       \* the static dwCheckPoint of ReportSvcStatus
    event,      \* ghSvcStopEvent
    broker,     \* the broker has been started and not been stopped
    entry,      \* the service's entry in the SCM database
    starter,    \* DoStartSvc: where it is, check point seen, polls
    stopper     \* stopper[p]: where p is in DoStopSvc and DoDeleteSvc

processVars == <<at, report, status, tick, event, broker>>
serviceVars == <<scm, told, processVars>>
programVars == <<entry, starter, stopper>>
vars == <<serviceVars, programVars>>

TypeOK ==
    /\ scm \in Status
    /\ told \in BOOLEAN
    /\ at \in [Thread -> {"gone", "entry", "event", "accept", "work", "wait", "stop",
                          "blocked", "returned", "idle", "signal", "again", "return"}]
    /\ report \in [Thread -> [step : {"none", "fill", "count", "set"}, state : State]]
    /\ status \in Status
    /\ tick \in 1 .. 4
    /\ event \in {"none", "unset", "set"}
    /\ broker \in BOOLEAN
    /\ starter \in [at : {"off", "query", "stopping", "start", "started", "starting"},
                    check : 0 .. 3, tries : 0 .. Retries]
    /\ entry \in {"absent", "present", "deleted"}
    /\ stopper \in [Program ->
                       [at : {"off", "query", "pending", "control", "controlling",
                              "waiting", "delete"},
                        deletes : BOOLEAN]]

Blank == [state |-> "STOPPED", check |-> 0, stops |-> FALSE]
NoThread == [main |-> "gone", handler |-> "idle"]
NotRun == [at |-> "off", deletes |-> FALSE]
NoReports == [t \in Thread |-> [step |-> "none", state |-> "STOPPED"]]

Init ==
    /\ scm = Blank /\ told = FALSE
    /\ at = NoThread /\ report = NoReports
    /\ status = Blank /\ tick = 1
    /\ event = "none" /\ broker = FALSE
    /\ starter = [at |-> "off", check |-> 0, tries |-> 0]
    /\ entry = "absent"
    /\ stopper = [p \in Program |-> NotRun]

-----------------------------------------------------------------------------
(***************************************************************************)
(* ReportSvcStatus, called by either thread, in the order of its writes    *)
(* to gSvcStatus; SetServiceStatus then sends whatever is there.           *)
(*                                                                         *)
(* A definition X_Fault, here and below, is X with a plausible mistake in  *)
(* it.  Nothing uses it: it stands in for X to show that a check of the    *)
(* property named with it would notice the mistake.                        *)
(***************************************************************************)

Moves(t, from, to) == at[t] = from /\ report[t].step = "none" /\ at' = [at EXCEPT ![t] = to]
Reports(t, s) == report' = [report EXCEPT ![t] = [step |-> "fill", state |-> s]]
Steps(t, from, to) ==
    /\ report[t].step = from
    /\ report' = [report EXCEPT ![t].step = to]
    /\ UNCHANGED <<at, event, broker, programVars>>

FillsStatus(t) ==
    LET s == report[t].state IN
    /\ Steps(t, "fill", "count")
    /\ status' = [status EXCEPT !.state = s, !.stops = @ /\ s # "START_PENDING"]
    /\ UNCHANGED <<scm, told, tick>>

Pending_Always(s) == TRUE                                       \* TypeOK
Pending(s) == s \in {"START_PENDING", "STOP_PENDING"}

CountsCheckPoint(t) ==
    /\ Steps(t, "count", "set")
    /\ IF Pending(report[t].state)
       THEN status' = [status EXCEPT !.check = tick] /\ tick' = tick + 1
       ELSE status' = [status EXCEPT !.check = 0] /\ UNCHANGED tick
    /\ UNCHANGED <<scm, told>>

\* Once it has been told that the service has stopped, the SCM may take what
\* the process still reports or not.
SetsServiceStatus(t) ==
    /\ Steps(t, "set", "none")
    /\ \/ scm' = status
       \/ told /\ UNCHANGED scm
    /\ told' = (told \/ status.state = "STOPPED")
    /\ UNCHANGED <<status, tick>>

-----------------------------------------------------------------------------
(***************************************************************************)
(* SvcMain and SvcInit                                                     *)
(***************************************************************************)

Enters ==
    /\ Moves("main", "entry", "event")
    /\ Reports("main", "START_PENDING")
    /\ UNCHANGED <<scm, told, status, tick, event, broker, programVars>>

\* RegisterServiceCtrlHandlerEx fails: SvcMain returns without a report.
EntersInVain ==
    /\ Moves("main", "entry", "returned")
    /\ UNCHANGED <<scm, told, report, status, tick, event, broker, programVars>>

CreatesEvent ==
    /\ Moves("main", "event", "accept")
    /\ event' = "unset"
    /\ UNCHANGED <<scm, told, report, status, tick, broker, programVars>>

CreatesNoEvent ==
    /\ Moves("main", "event", "returned")
    /\ Reports("main", "STOPPED")
    /\ UNCHANGED <<scm, told, status, tick, event, broker, programVars>>

AcceptsControls ==
    /\ Moves("main", "accept", "work")
    /\ status' = [status EXCEPT !.stops = TRUE]
    /\ Reports("main", "RUNNING")
    /\ UNCHANGED <<scm, told, tick, event, broker, programVars>>

EventAtWork_Reset == "unset"                     \* StopReachesWorker, StopSignalKept
EventAtWork == event

\* worker_start: a broker that does not start is logged, nothing else.
StartsWorker ==
    /\ Moves("main", "work", "wait")
    /\ broker' \in BOOLEAN
    /\ event' = EventAtWork
    /\ UNCHANGED <<scm, told, report, status, tick, programVars>>

IsAskedToStop ==
    /\ Moves("main", "wait", "stop")
    /\ event = "set"
    /\ UNCHANGED <<scm, told, report, status, tick, event, broker, programVars>>

BrokerAfterStop_Running == broker                               \* StoppedMeansIdle
BrokerAfterStop == FALSE

StopEnds(from) ==
    /\ Moves("main", from, "returned")
    /\ broker' = BrokerAfterStop
    /\ Reports("main", "STOPPED")
    /\ UNCHANGED <<scm, told, status, tick, event, programVars>>

StopsWorker == StopEnds("stop")

\* ipc_broker_stop may wait, for a client to read what is left for it, or for a
\* broker thread that it has not told to end: ServerLifecycle says when.
BlocksInStop ==
    /\ Moves("main", "stop", "blocked")
    /\ broker
    /\ UNCHANGED <<scm, told, report, status, tick, event, broker, programVars>>

(***************************************************************************)
(* SvcCtrlHandlerEx on SERVICE_CONTROL_STOP, the only control that changes *)
(* anything here.                                                          *)
(***************************************************************************)

SignalsStop ==
    /\ Moves("handler", "signal", "again")
    /\ event' = "set"
    /\ UNCHANGED <<scm, told, report, status, tick, broker, programVars>>

\* The second report repeats the state it finds in gSvcStatus.
StateAgain_AsCalled == "RUNNING"                                \* ReportsInOrder
StateAgain == status.state

ReportsAgain ==
    /\ Moves("handler", "again", "return")
    /\ Reports("handler", StateAgain)
    /\ UNCHANGED <<scm, told, status, tick, event, broker, programVars>>

HandlerReturns ==
    /\ Moves("handler", "return", "idle")
    /\ UNCHANGED <<scm, told, report, status, tick, event, broker, programVars>>

(***************************************************************************)
(* The end of the process                                                  *)
(***************************************************************************)

ProcessEnds ==
    /\ scm' = Blank /\ told' = FALSE
    /\ at' = NoThread /\ report' = NoReports
    /\ status' = Blank /\ tick' = 1
    /\ event' = "none" /\ broker' = FALSE
    /\ UNCHANGED programVars

\* StartServiceCtrlDispatcher returns, between two controls, once the SCM has
\* been told that the service has stopped.
DispatcherReturns ==
    /\ told /\ at["handler"] = "idle"
    /\ ProcessEnds

\* Stopping the broker may terminate the process: ServerLifecycle says when.
DiesIn(from) == at["main"] = from /\ broker /\ ProcessEnds
DiesStoppingWorker == DiesIn("stop")

\* The wait in ipc_broker_stop may be over at some time, or never.
BlockEnds == StopEnds("blocked") \/ DiesIn("blocked")

-----------------------------------------------------------------------------
(***************************************************************************)
(* DoStartSvc                                                              *)
(***************************************************************************)

StarterMoves(from, to) ==
    /\ starter.at = from
    /\ starter' = [starter EXCEPT !.at = to]
    /\ UNCHANGED <<serviceVars, entry, stopper>>

\* Opening the service fails if it is not installed, starting it if it has
\* been deleted.
StartBegins == entry # "absent" /\ StarterMoves("off", "query")

FindsRunning == scm.state \in {"START_PENDING", "RUNNING"} /\ StarterMoves("query", "off")
FindsStopped == scm.state = "STOPPED" /\ StarterMoves("query", "start")

FindsStopping ==
    /\ scm.state = "STOP_PENDING" /\ starter.at = "query"
    /\ starter' = [starter EXCEPT !.at = "stopping", !.check = scm.check]
    /\ UNCHANGED <<serviceVars, entry, stopper>>

\* The check point is looked at before the state is.
SeesProgress ==
    /\ starter.at = "stopping" /\ scm.check > starter.check
    /\ starter' = [starter EXCEPT
                      !.at = IF scm.state = "STOP_PENDING" THEN "stopping" ELSE "start",
                      !.check = scm.check]
    /\ UNCHANGED <<serviceVars, entry, stopper>>

\* The wait hint is 0 but in START_PENDING, which nobody else brings about
\* here: the first poll without progress is one too many.
SeesNoProgress == scm.check <= starter.check /\ StarterMoves("stopping", "off")

\* StartService: the SCM creates a process for a service that has stopped.
StartsService ==
    /\ starter.at = "start" /\ scm.state = "STOPPED" /\ at["main"] = "gone"
    /\ entry = "present"
    /\ starter' = [starter EXCEPT !.at = "started"]
    /\ scm' = [Blank EXCEPT !.state = "START_PENDING"]
    /\ at' = [at EXCEPT !["main"] = "entry"]
    /\ UNCHANGED <<told, report, status, tick, event, broker, entry, stopper>>
StartServiceFails == StarterMoves("start", "off")

IsStarting ==
    /\ scm.state = "START_PENDING" /\ starter.at = "started"
    /\ starter' = [starter EXCEPT !.at = "starting", !.tries = 0]
    /\ UNCHANGED <<serviceVars, entry, stopper>>
IsNotStarting == scm.state # "START_PENDING" /\ StarterMoves("started", "off")

NextTry_Reset == 0                                              \* ProgramsReturn
NextTry == starter.tries + 1

PollsAgain ==
    /\ starter.at = "starting" /\ scm.state = "START_PENDING" /\ starter.tries < Retries
    /\ starter' = [starter EXCEPT !.tries = NextTry]
    /\ UNCHANGED <<serviceVars, entry, stopper>>

\* The service runs, or no longer tries to, or has been polled often enough.
PollsNoMore ==
    /\ scm.state # "START_PENDING" \/ starter.tries = Retries
    /\ StarterMoves("starting", "off")

(***************************************************************************)
(* DoStopSvc                                                               *)
(***************************************************************************)

StopperMoves(p, from, to) ==
    /\ stopper[p].at = from
    /\ stopper' = [stopper EXCEPT ![p].at = to]
    /\ UNCHANGED <<entry, starter>>

\* "uninstall" calls DoDeleteSvc next, whatever DoStopSvc has returned.
AfterStop(p) == IF stopper[p].deletes THEN "delete" ELSE "off"

StopBegins(p) ==
    /\ entry # "absent" /\ stopper[p].at = "off"
    /\ \E uninstall \in BOOLEAN :
           stopper' = [stopper EXCEPT ![p] = [at |-> "query", deletes |-> uninstall]]
    /\ UNCHANGED <<serviceVars, entry, starter>>

\* First query, a poll of somebody else's stop, a poll of its own.
SeesStopped(p) ==
    /\ scm.state = "STOPPED"
    /\ \E from \in {"query", "pending", "waiting"} : StopperMoves(p, from, AfterStop(p))
    /\ UNCHANGED serviceVars

SeesStopping(p) ==
    /\ scm.state = "STOP_PENDING"
    /\ StopperMoves(p, "query", "pending")
    /\ UNCHANGED serviceVars

SeesRunning(p) ==
    /\ scm.state \in {"START_PENDING", "RUNNING"}
    /\ \E from \in {"query", "pending"} : StopperMoves(p, from, "control")
    /\ UNCHANGED serviceVars

GivesUpWaiting(p) ==
    /\ \E from \in {"pending", "waiting"} : StopperMoves(p, from, AfterStop(p))
    /\ UNCHANGED serviceVars

\* ControlService: the SCM hands the control to the handler and waits for it.
\* It fails when the service cannot take one, and when the handler takes too
\* long.
CanBeStopped == scm.state = "RUNNING" /\ scm.stops /\ at["handler"] = "idle"

SendsControl(p) ==
    /\ CanBeStopped
    /\ StopperMoves(p, "control", "controlling")
    /\ at' = [at EXCEPT !["handler"] = "signal"]
    /\ Reports("handler", "STOP_PENDING")
    /\ UNCHANGED <<scm, told, status, tick, event, broker>>

ControlRefused(p) ==
    /\ ~CanBeStopped
    /\ StopperMoves(p, "control", AfterStop(p))
    /\ UNCHANGED serviceVars

ControlReturns(p) ==
    /\ at["handler"] = "idle"
    /\ StopperMoves(p, "controlling", IF scm.state = "STOPPED" THEN AfterStop(p) ELSE "waiting")
    /\ UNCHANGED serviceVars

ControlFails(p) ==
    /\ StopperMoves(p, "controlling", AfterStop(p))
    /\ UNCHANGED serviceVars

(***************************************************************************)
(* DoInstallSvc and DoDeleteSvc.  The SCM keeps the entry of a service     *)
(* that has been deleted until the service has stopped and nobody has it   *)
(* open.                                                                   *)
(***************************************************************************)

\* CreateService fails as long as there is an entry.
Installs ==
    /\ entry = "absent" /\ entry' = "present"
    /\ UNCHANGED <<serviceVars, starter, stopper>>

Deletes(p) ==
    /\ stopper[p].at = "delete"
    /\ stopper' = [stopper EXCEPT ![p] = NotRun]
    /\ entry' = IF entry = "present" THEN "deleted" ELSE entry
    /\ UNCHANGED <<serviceVars, starter>>

NoHandles == starter.at = "off" /\ \A p \in Program : stopper[p].at \in {"off", "delete"}

EntryGoes ==
    /\ entry = "deleted" /\ NoHandles /\ scm.state = "STOPPED" /\ at["main"] = "gone"
    /\ entry' = "absent"
    /\ UNCHANGED <<serviceVars, starter, stopper>>

-----------------------------------------------------------------------------
ThreadReports(t) == FillsStatus(t) \/ CountsCheckPoint(t) \/ SetsServiceStatus(t)

MainNext ==
    \/ ThreadReports("main")
    \/ Enters \/ EntersInVain
    \/ CreatesEvent \/ CreatesNoEvent
    \/ AcceptsControls
    \/ StartsWorker
    \/ IsAskedToStop
    \/ StopsWorker \/ BlocksInStop \/ DiesStoppingWorker

DispatcherNext ==
    \/ ThreadReports("handler")
    \/ SignalsStop
    \/ ReportsAgain
    \/ HandlerReturns
    \/ DispatcherReturns

StarterNext ==
    \/ FindsRunning \/ FindsStopped \/ FindsStopping
    \/ SeesProgress \/ SeesNoProgress
    \/ StartsService \/ StartServiceFails
    \/ IsStarting \/ IsNotStarting
    \/ PollsAgain \/ PollsNoMore

StopperNext(p) ==
    \/ SeesStopped(p) \/ SeesStopping(p) \/ SeesRunning(p)
    \/ GivesUpWaiting(p)
    \/ SendsControl(p) \/ ControlRefused(p)
    \/ ControlReturns(p) \/ ControlFails(p)
    \/ Deletes(p)

Next ==
    \/ MainNext \/ BlockEnds \/ DispatcherNext
    \/ StartBegins \/ StarterNext
    \/ \E p \in Program : StopBegins(p) \/ StopperNext(p)
    \/ Installs \/ EntryGoes

Spec == Init /\ [][Next]_vars

-----------------------------------------------------------------------------
(***************************************************************************)
(* Safety                                                                  *)
(***************************************************************************)

\* While the SCM takes the service for stopped, so that it may be started
\* again or deleted, its broker does not run: the two threads that report may
\* mix their reports up, but not so that SERVICE_STOPPED comes too early.
StoppedMeansIdle == scm.state = "STOPPED" => ~broker

\* The states the programs that poll the service may see one after the other.
\* A report made after SERVICE_STOPPED may still be taken.
Order ==
    {<<"STOPPED", "START_PENDING">>, <<"START_PENDING", "RUNNING">>,
     <<"START_PENDING", "STOPPED">>, <<"RUNNING", "STOP_PENDING">>,
     <<"STOP_PENDING", "STOPPED">>, <<"STOPPED", "STOP_PENDING">>}

\* Whatever the two threads send from the gSvcStatus they both write, the
\* service is seen to start, run and stop in this order: DoStartSvc and
\* DoStopSvc, which poll it, never see a stopping service run again.
ReportsInOrder ==
    [][scm'.state # scm.state => <<scm.state, scm'.state>> \in Order]_vars

\* A stop that has been signalled stays so until the process ends, although
\* SvcInit creates the event and the signal may come before the worker starts.
StopSignalKept == [][event = "set" => event' = "set" \/ at'["main"] = "gone"]_vars

(***************************************************************************)
(* Liveness                                                                *)
(***************************************************************************)

\* Threads and programs run whenever they can; a poll that may time out does
\* so in the end.  Nothing is assumed of BlockEnds.
Fairness ==
    /\ WF_vars(MainNext)
    /\ WF_vars(DispatcherNext)
    /\ WF_vars(StarterNext)
    /\ \A p \in Program : WF_vars(StopperNext(p))
    /\ WF_vars(EntryGoes)

FairSpec == Spec /\ Fairness

\* The control programs return, also if the service hangs in worker_stop.
ProgramsReturn ==
    /\ starter.at # "off" ~> starter.at = "off"
    /\ \A p \in Program : stopper[p].at # "off" ~> stopper[p].at = "off"

\* A stop control is not lost, even one that comes before the worker has been
\* started: the service's main thread comes to worker_stop.  It also gets
\* through it, or the process ends there, if ipc_broker_stop does not wait for
\* ever.
StopReachesWorker ==
    /\ at["handler"] = "signal" ~> at["main"] = "stop"
    /\ []<>(at["main"] # "blocked") =>
           (at["handler"] = "signal" ~> at["main"] \in {"returned", "gone"})

(***************************************************************************)
(* Statements of comments the code does not keep                           *)
(***************************************************************************)

\* BrokerSvc.cpp:77: the dispatcher's call returns when the service has
\* stopped, and the process ends.  SvcMain's return is followed by that.
ReturnedServiceEnds == at["main"] = "returned" /\ event = "set" ~> at["main"] = "gone"
=============================================================================
