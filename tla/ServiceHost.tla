---------------------------- MODULE ServiceHost ----------------------------
(***************************************************************************)
(* The sensor service as the service control manager sees it: ServiceMain on *)
(* one thread, the control handler on another, the setup program that runs    *)
(* --uninstall before and --install after it replaces the files, and whoever  *)
(* else starts the service.  The service may die at any time.                  *)
(***************************************************************************)
EXTENDS Integers

CONSTANT Polls    \* sensor_service_main.cpp:226: queries that --uninstall makes

ASSUME HostAssumption == Polls \in Nat \ {0}

VARIABLES
    registered,   \* the manager has an entry of the service
    deleting,     \* the entry is marked for deletion
    reported,     \* the state the manager believes the service is in
    state,        \* service_status.dwCurrentState, shared by the two threads
    main,         \* where the service's main thread is, "none" without a process
    stopEvent,    \* stop_event
    handler,      \* where the control handler is
    setup,        \* where the setup program is
    queries,      \* QueryServiceStatusEx calls of this --uninstall
    shutDown      \* the system is shutting down

hostVars == <<registered, deleting, reported, state, main, stopEvent, handler, setup, queries, shutDown>>
manager == <<registered, deleting>>
setupVars == <<setup, queries>>

States == {"stopped", "startPending", "running", "stopPending"}

HostTypeOK ==
    /\ registered \in BOOLEAN /\ deleting \in BOOLEAN
    /\ reported \in States /\ state \in States
    /\ main \in {"none", "register", "create", "running", "initialize", "loop",
                 "close", "stopped", "report", "ended"}
    /\ stopEvent \in {"null", "unset", "set"}
    /\ handler \in {"idle", "write", "report", "signal"}
    /\ setup \in {"idle", "stop", "answer", "poll", "delete", "removed", "start", "installed", "failed"}
    /\ queries \in 0..Polls
    /\ shutDown \in BOOLEAN

HostInit ==
    /\ registered \in BOOLEAN /\ deleting = FALSE
    /\ reported = "stopped" /\ state = "stopped"
    /\ main = "none" /\ stopEvent = "null" /\ handler = "idle"
    /\ setup = "idle" /\ queries = 0 /\ shutDown = FALSE

-----------------------------------------------------------------------------
(* The service *)

\* SetServiceState writes the shared structure and reports it, in two steps.
Write(s) == state' = s
ReportState == reported' = state
SetServiceState(s) == Write(s) /\ reported' = s

\* Mutant: the service is reported running before it has its event.
RegisterRunning ==
    /\ main = "register" /\ main' = "create"
    /\ SetServiceState("running")
    /\ UNCHANGED <<manager, stopEvent, handler, setupVars, shutDown>>
\* Without a status handle ServiceMain returns and reports nothing: the manager goes
\* on believing that the service starts.
RegisterHandler ==
    /\ main = "register"
    /\ \/ main' = "create" /\ SetServiceState("startPending")
       \/ main' = "ended" /\ UNCHANGED <<reported, state>>
    /\ UNCHANGED <<manager, stopEvent, handler, setupVars, shutDown>>

CreateStopEvent ==
    /\ main = "create"
    /\ \/ main' = "running" /\ stopEvent' = "unset"
       \/ main' = "stopped" /\ UNCHANGED stopEvent
    /\ UNCHANGED <<manager, reported, state, handler, setupVars, shutDown>>

ReportRunning ==
    /\ main = "running" /\ main' = "initialize"
    /\ SetServiceState("running")
    /\ UNCHANGED <<manager, stopEvent, handler, setupVars, shutDown>>

\* RunCollector: without the section or without memory it returns at once.
InitializeCollector ==
    /\ main = "initialize" /\ main' \in {"loop", "close"}
    /\ UNCHANGED <<manager, reported, state, stopEvent, handler, setupVars, shutDown>>

\* The turn of the loop in which the wait finds the event set.
EndLoop ==
    /\ main = "loop" /\ stopEvent = "set"
    /\ main' = "close"
    /\ UNCHANGED <<manager, reported, state, stopEvent, handler, setupVars, shutDown>>

CloseStopEvent ==
    /\ main = "close" /\ main' = "stopped"
    /\ stopEvent' = "null"
    /\ UNCHANGED <<manager, reported, state, handler, setupVars, shutDown>>

WriteStopped ==
    /\ main = "stopped" /\ main' = "report"
    /\ Write("stopped")
    /\ UNCHANGED <<manager, reported, stopEvent, handler, setupVars, shutDown>>

ReportStopped ==
    /\ main = "report" /\ main' = "ended"
    /\ ReportState
    /\ UNCHANGED <<manager, state, stopEvent, handler, setupVars, shutDown>>

\* A process whose service is reported stopped ends; the entry goes if it is marked.
EndService ==
    /\ main = "ended" /\ reported = "stopped" /\ handler = "idle"
    /\ main' = "none"
    /\ registered' = (registered /\ ~deleting) /\ deleting' = FALSE
    /\ UNCHANGED <<reported, state, stopEvent, handler, setupVars, shutDown>>

Dies ==
    /\ main # "none"
    /\ main' = "none" /\ handler' = "idle" /\ stopEvent' = "null"
    /\ reported' = "stopped" /\ state' = "stopped"
    /\ registered' = (registered /\ ~deleting) /\ deleting' = FALSE
    /\ UNCHANGED <<setupVars, shutDown>>

MainStep == \/ RegisterHandler \/ CreateStopEvent \/ ReportRunning \/ InitializeCollector
            \/ EndLoop \/ CloseStopEvent \/ WriteStopped \/ ReportStopped \/ EndService

-----------------------------------------------------------------------------
(* ServiceControl, on the dispatcher's thread *)

\* Mutant: the event may be set before the state is written.
HandlerWritesLate ==
    /\ handler = "write"
    /\ \/ stopEvent = "unset" /\ stopEvent' = "set" /\ UNCHANGED <<state, handler>>
       \/ handler' = "report" /\ Write("stopPending") /\ UNCHANGED stopEvent
    /\ UNCHANGED <<manager, reported, main, setupVars, shutDown>>
HandlerWrites ==
    /\ handler = "write" /\ handler' = "report"
    /\ Write("stopPending")
    /\ UNCHANGED <<manager, reported, main, stopEvent, setupVars, shutDown>>
HandlerReports ==
    /\ handler = "report" /\ handler' = "signal"
    /\ ReportState
    /\ UNCHANGED <<manager, state, main, stopEvent, setupVars, shutDown>>
Signal ==
    /\ handler = "signal" /\ handler' = "idle"
    /\ stopEvent' = IF stopEvent = "unset" THEN "set" ELSE stopEvent
    /\ UNCHANGED <<manager, reported, state, main, setupVars, shutDown>>
HandlerStep == HandlerWrites \/ HandlerReports \/ Signal

(* The manager *)

Start == reported' = "startPending" /\ main' = "register"

\* Delayed automatic start, or a user.
StartedByOthers ==
    /\ registered /\ ~deleting /\ ~shutDown /\ reported = "stopped" /\ main = "none"
    /\ Start
    /\ UNCHANGED <<manager, state, stopEvent, handler, setupVars, shutDown>>

\* A shutdown is a control the service accepts while it is reported running.
ShutsDown ==
    /\ ~shutDown /\ shutDown' = TRUE
    /\ handler' = IF main # "none" /\ reported = "running" /\ handler = "idle" THEN "write" ELSE handler
    /\ UNCHANGED <<manager, reported, state, main, stopEvent, setupVars>>

-----------------------------------------------------------------------------
(* UninstallService and InstallService *)

Uninstall ==
    /\ setup = "idle" /\ queries' = 0
    /\ setup' = IF registered THEN "stop" ELSE "removed"
    /\ UNCHANGED <<manager, reported, state, main, stopEvent, handler, shutDown>>

\* A service that is starting or stopping takes no control: the call fails.
ControlStop ==
    /\ setup = "stop"
    /\ \/ reported = "running" /\ handler = "idle" /\ handler' = "write" /\ setup' = "answer"
       \/ reported = "stopped" /\ setup' = "poll" /\ UNCHANGED handler
       \/ reported \in {"startPending", "stopPending"} /\ setup' = "failed" /\ UNCHANGED handler
    /\ UNCHANGED <<manager, reported, state, main, stopEvent, queries, shutDown>>

\* ControlService returns when the handler has.
ControlReturns ==
    /\ setup = "answer" /\ handler = "idle" /\ setup' = "poll"
    /\ UNCHANGED <<manager, reported, state, main, stopEvent, handler, queries, shutDown>>

Poll ==
    /\ setup = "poll"
    /\ IF queries = Polls THEN setup' = "failed" /\ UNCHANGED queries
       ELSE /\ queries' = queries + 1
            /\ setup' = IF reported = "stopped" THEN "delete" ELSE "poll"
    /\ UNCHANGED <<manager, reported, state, main, stopEvent, handler, shutDown>>

\* Mutant: a service that is running again is not marked.
DeleteIfStopped ==
    /\ setup = "delete" /\ setup' = "removed"
    /\ IF main = "none" THEN registered' = FALSE ELSE UNCHANGED registered
    /\ UNCHANGED <<deleting, reported, state, main, stopEvent, handler, queries, shutDown>>
\* DeleteService marks the entry; it is gone once no process is left.
DeleteEntry ==
    /\ setup = "delete" /\ setup' = "removed"
    /\ registered' = (main # "none") /\ deleting' = (main # "none")
    /\ UNCHANGED <<reported, state, main, stopEvent, handler, queries, shutDown>>

\* The setup installs only after a removal that succeeded; an entry that is marked
\* for deletion cannot be opened or created.
InstallService ==
    /\ setup = "removed"
    /\ IF deleting THEN setup' = "failed" /\ UNCHANGED registered
                   ELSE setup' = "start" /\ registered' = TRUE
    /\ UNCHANGED <<deleting, reported, state, main, stopEvent, handler, queries, shutDown>>

\* StartService: any state but stopped counts as already running.
StartInstalled ==
    /\ setup = "start"
    /\ IF main = "none" /\ ~shutDown THEN Start /\ setup' = "installed"
       ELSE /\ setup' = IF shutDown THEN "failed" ELSE "installed"
            /\ UNCHANGED <<reported, main>>
    /\ UNCHANGED <<manager, state, stopEvent, handler, queries, shutDown>>

SetupEnds == /\ setup \in {"removed", "installed", "failed"}
             /\ setup' = "idle"
             /\ UNCHANGED <<manager, reported, state, main, stopEvent, handler, queries, shutDown>>

SetupStep == ControlStop \/ ControlReturns \/ Poll \/ DeleteEntry \/ StartInstalled

HostNext == \/ MainStep \/ Dies \/ HandlerStep \/ StartedByOthers \/ ShutsDown
            \/ SetupStep \/ Uninstall \/ InstallService \/ SetupEnds

\* Each turn of the loop ends, and so do the waits of the setup program.
HostFairness == WF_hostVars(MainStep) /\ WF_hostVars(HandlerStep) /\ WF_hostVars(SetupStep)
HostSpec == HostInit /\ [][HostNext]_hostVars /\ HostFairness

-----------------------------------------------------------------------------
(* A control that the handler takes while the collector's loop runs stops the     *)
(* service, however the two threads interleave on the shared status and the event *)
(* (sensor_service_main.cpp:34-40, 129-131, 151-153).                              *)
StopIsHonoured == (handler # "idle" /\ main = "loop") ~> (reported = "stopped")

(* A removal that reports success leaves an entry that is gone or goes with the     *)
(* process, also when someone started the service between the last query and the    *)
(* deletion (sensor_service_main.cpp:231-249).                                       *)
RemovalIsFinal == setup = "removed" => ~registered \/ (deleting /\ main # "none")

(* A service reported running or stopping has a process behind it, and one that is  *)
(* reported running can be told to stop: its event is there unless its collector     *)
(* has ended by itself (sensor_service_main.cpp:144-153).                             *)
RunningCanBeStopped ==
    /\ main = "none" => reported = "stopped"
    /\ reported = "running" => stopEvent # "null" \/ main \in {"stopped", "report"}

(* The service's entry and its process agree: what is reported running can be     *)
(* stopped, what is removed is gone or goes with the process                       *)
(* (sensor_service_main.cpp:144-153, 231-249).                                      *)
EntryIsTrue == RemovalIsFinal /\ RunningCanBeStopped
=============================================================================
