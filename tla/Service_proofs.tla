---------------------------- MODULE Service_proofs ----------------------------
(***************************************************************************)
(* Safety theorems about the service: ServiceHost, the process's life, for  *)
(* any number of queries, and PrivilegedSensors, what its thread reads, for *)
(* any intervals and any number of registers.                               *)
(***************************************************************************)
EXTENDS ServiceHost, PrivilegedSensors, TLAPS

-----------------------------------------------------------------------------
(* The service's life. *)

\* A control is handled only in a process, and only a process keeps a marked entry.
ProcessInv == /\ handler # "idle" => main # "none"
              /\ deleting => main # "none"

\* Where ServiceMain has the event: from its creation until the collector returns.
EventInv == main \in {"running", "initialize", "loop", "close"} => stopEvent # "null"

\* Before ServiceMain reports running, and from the moment it has written stopped,
\* nothing that either thread may still report says running.
StateInv ==
    /\ main \in {"none", "register", "create", "running", "report", "ended"} => state # "running"
    /\ main \in {"none", "register", "create", "running", "ended"} => reported # "running"

\* The two halves of the type invariant: what the provers treat as formulas, and what
\* they treat as values.
FlagsOK == registered \in BOOLEAN /\ deleting \in BOOLEAN /\ shutDown \in BOOLEAN

ValuesOK ==
    /\ reported \in States /\ state \in States
    /\ main \in {"none", "register", "create", "running", "initialize", "loop",
                 "close", "stopped", "report", "ended"}
    /\ stopEvent \in {"null", "unset", "set"}
    /\ handler \in {"idle", "write", "report", "signal"}
    /\ setup \in {"idle", "stop", "answer", "poll", "delete", "removed", "start", "installed", "failed"}
    /\ queries \in 0..Polls

HostIInv == FlagsOK /\ ValuesOK /\ ProcessInv /\ EventInv /\ StateInv /\ EntryIsTrue

LEMMA TypeHalves == HostTypeOK <=> FlagsOK /\ ValuesOK
  BY DEF HostTypeOK, FlagsOK, ValuesOK

LEMMA HostInitIInv == HostInit => HostIInv
<1> SUFFICES ASSUME HostInit PROVE HostIInv
  OBVIOUS
<1> USE DEF HostInit
<1>1. FlagsOK
  BY Zenon DEF FlagsOK
<1>2. ValuesOK
  BY HostAssumption DEF ValuesOK, States
<1>3. ProcessInv /\ EntryIsTrue
  BY Zenon DEF ProcessInv, EntryIsTrue, RemovalIsFinal, RunningCanBeStopped
<1>4. EventInv /\ StateInv
  BY DEF EventInv, StateInv
<1> QED BY <1>1, <1>2, <1>3, <1>4 DEF HostIInv

\* ServiceMain, and the death of its process.
LEMMA MainIInv ==
  ASSUME HostIInv, MainStep \/ Dies
  PROVE  HostIInv'
<1> USE DEF HostIInv, manager, setupVars, EntryIsTrue, SetServiceState, Write, ReportState, States
<1>0. FlagsOK'
  BY Zenon DEF FlagsOK, MainStep, RegisterHandler, CreateStopEvent, ReportRunning,
     InitializeCollector, EndLoop, CloseStopEvent, WriteStopped, ReportStopped, EndService, Dies
<1>1. ValuesOK'
  BY HostAssumption DEF ValuesOK, MainStep, RegisterHandler, CreateStopEvent, ReportRunning,
     InitializeCollector, EndLoop, CloseStopEvent, WriteStopped, ReportStopped, EndService, Dies
<1>2. ProcessInv' /\ RemovalIsFinal'
  <2>1. CASE EndService
    BY <2>1, Zenon DEF ProcessInv, RemovalIsFinal, EndService
  <2>2. CASE Dies
    BY <2>2, Zenon DEF ProcessInv, RemovalIsFinal, Dies
  <2>3. CASE ~EndService /\ ~Dies
    <3>1. main # "none" /\ main' # "none" /\ UNCHANGED <<deleting, registered, setup, handler>>
      BY <2>3 DEF MainStep, RegisterHandler, CreateStopEvent, ReportRunning, InitializeCollector,
         EndLoop, CloseStopEvent, WriteStopped, ReportStopped
    <3> QED BY <3>1, Zenon DEF ProcessInv, RemovalIsFinal
  <2> QED BY <2>1, <2>2, <2>3
<1>3. EventInv'
  BY DEF EventInv, MainStep, RegisterHandler, CreateStopEvent, ReportRunning,
     InitializeCollector, EndLoop, CloseStopEvent, WriteStopped, ReportStopped, EndService, Dies
<1>4. StateInv'
  BY DEF StateInv, MainStep, RegisterHandler, CreateStopEvent, ReportRunning,
     InitializeCollector, EndLoop, CloseStopEvent, WriteStopped, ReportStopped, EndService, Dies
<1>5. RunningCanBeStopped'
  BY DEF RunningCanBeStopped, EventInv, StateInv, MainStep, RegisterHandler, CreateStopEvent,
     ReportRunning, InitializeCollector, EndLoop, CloseStopEvent, WriteStopped, ReportStopped,
     EndService, Dies
<1> QED BY <1>0, <1>1, <1>2, <1>3, <1>4, <1>5

\* The control handler, and what makes the manager call it or start the service.
LEMMA ManagerIInv ==
  ASSUME HostIInv, HandlerStep \/ StartedByOthers \/ ShutsDown
  PROVE  HostIInv'
<1> USE DEF HostIInv, manager, setupVars, EntryIsTrue, Write, ReportState, Start, States
<1>0. FlagsOK'
  BY Zenon DEF FlagsOK, HandlerStep, HandlerWrites, HandlerReports, Signal, StartedByOthers,
     ShutsDown
<1>1. ValuesOK'
  BY HostAssumption DEF ValuesOK, HandlerStep, HandlerWrites, HandlerReports, Signal,
     StartedByOthers, ShutsDown
<1>2. ProcessInv' /\ RemovalIsFinal'
  <2>1. /\ UNCHANGED <<deleting, registered, setup>>
        /\ main # "none" => main' # "none"
        /\ handler' = handler \/ handler' = "idle" \/ main # "none"
    BY DEF ProcessInv, HandlerStep, HandlerWrites, HandlerReports, Signal, StartedByOthers, ShutsDown
  <2> QED BY <2>1, Zenon DEF ProcessInv, RemovalIsFinal
<1>3. EventInv'
  BY DEF EventInv, HandlerStep, HandlerWrites, HandlerReports, Signal, StartedByOthers, ShutsDown
<1>4. StateInv'
  BY DEF StateInv, HandlerStep, HandlerWrites, HandlerReports, Signal, StartedByOthers, ShutsDown
<1>5. RunningCanBeStopped'
  BY DEF RunningCanBeStopped, ProcessInv, EventInv, StateInv, ValuesOK, HandlerStep,
     HandlerWrites, HandlerReports, Signal, StartedByOthers, ShutsDown
<1> QED BY <1>0, <1>1, <1>2, <1>3, <1>4, <1>5

\* The setup program.
LEMMA SetupIInv ==
  ASSUME HostIInv, SetupStep \/ Uninstall \/ InstallService \/ SetupEnds
  PROVE  HostIInv'
<1> USE DEF HostIInv, manager, EntryIsTrue, Start, States
<1>0. FlagsOK'
  BY Zenon DEF FlagsOK, SetupStep, ControlStop, ControlReturns, Poll, DeleteEntry, StartInstalled,
     Uninstall, InstallService, SetupEnds
<1>1. ValuesOK'
  BY HostAssumption DEF ValuesOK, SetupStep, ControlStop, ControlReturns, Poll, DeleteEntry,
     StartInstalled, Uninstall, InstallService, SetupEnds
<1>2. ProcessInv' /\ RunningCanBeStopped'
  <2>1. CASE DeleteEntry
    BY <2>1, Zenon DEF ProcessInv, RunningCanBeStopped, DeleteEntry
  <2>2. CASE ~DeleteEntry
    <3>0. UNCHANGED deleting
      BY <2>2, Zenon DEF SetupStep, ControlStop, ControlReturns, Poll, StartInstalled,
         Uninstall, InstallService, SetupEnds
    <3>1. handler' = handler \/ main # "none"
      BY <2>2 DEF RunningCanBeStopped, SetupStep, ControlStop, ControlReturns, Poll,
         StartInstalled, Uninstall, InstallService, SetupEnds
    <3>2. CASE StartInstalled /\ main' # main
      BY <3>0, <3>2, Zenon DEF ProcessInv, RunningCanBeStopped, StartInstalled
    <3>3. CASE ~(StartInstalled /\ main' # main)
      <4>1. UNCHANGED <<main, reported, stopEvent>>
        BY <2>2, <3>3, Zenon DEF SetupStep, ControlStop, ControlReturns, Poll, StartInstalled,
           Uninstall, InstallService, SetupEnds
      <4> QED BY <3>0, <3>1, <4>1, Zenon DEF ProcessInv, RunningCanBeStopped
    <3> QED BY <3>2, <3>3
  <2> QED BY <2>1, <2>2
<1>3. EventInv' /\ StateInv'
  BY DEF EventInv, StateInv, SetupStep, ControlStop, ControlReturns, Poll, DeleteEntry,
         StartInstalled, Uninstall, InstallService, SetupEnds
<1>4. RemovalIsFinal'
  BY DEF RemovalIsFinal, SetupStep, ControlStop, ControlReturns, Poll, DeleteEntry,
         StartInstalled, Uninstall, InstallService, SetupEnds
<1> QED BY <1>0, <1>1, <1>2, <1>3, <1>4

LEMMA HostNextIInv == HostIInv /\ [HostNext]_hostVars => HostIInv'
<1> SUFFICES ASSUME HostIInv, [HostNext]_hostVars PROVE HostIInv'
  OBVIOUS
<1>1. CASE UNCHANGED hostVars
  BY <1>1 DEF hostVars, HostIInv, FlagsOK, ValuesOK, States, ProcessInv, EventInv, StateInv, EntryIsTrue,
     RemovalIsFinal, RunningCanBeStopped
<1>2. CASE HostNext
  BY <1>2, MainIInv, ManagerIInv, SetupIInv DEF HostNext
<1> QED BY <1>1, <1>2

LEMMA HostInvariance == HostSpec => []HostIInv
<1>1. HostInit => HostIInv
  BY HostInitIInv
<1>2. HostIInv /\ [HostNext]_hostVars => HostIInv'
  BY HostNextIInv
<1> QED BY <1>1, <1>2, PTL DEF HostSpec

(* Both threads, the manager and the setup program keep to their states, and no       *)
(* removal makes more queries than it may (sensor_service_main.cpp:34-40, 222-249).     *)
THEOREM HostTypeCorrect == HostSpec => []HostTypeOK
<1>1. HostIInv => HostTypeOK
  BY TypeHalves DEF HostIInv
<1> QED BY HostInvariance, <1>1, PTL

(* However ServiceMain, the control handler, the setup program and others who start   *)
(* the service interleave, and wherever it dies: a removal that succeeded leaves no     *)
(* entry or a marked one that goes with the process, and what is reported running can    *)
(* be told to stop (sensor_service_main.cpp:144-153, 231-249).                             *)
THEOREM EntryTrue == HostSpec => []EntryIsTrue
<1>1. HostIInv => EntryIsTrue
  BY DEF HostIInv
<1> QED BY HostInvariance, <1>1, PTL

-----------------------------------------------------------------------------
(* The privileged readings. *)

\* Where the thread owns each mutex.
Holding(m) == CASE m = "isa" -> {"probe1", "probe2", "identify1", "identify2", "probed",
                                 "boardSelect", "boardData", "boardFree", "boardDone"}
                [] m = "smbus" -> {"memoryPci", "memoryLoad", "memoryRead"}
                [] m = "pci" -> {"memoryLoad", "cpuRead"}

HoldInv == \A m \in Mutexes : holder[m] = "us" <=> at \in Holding(m)

Identifying == {"identify1", "identify2"}
BoardOpening == {"boardMutex", "probe1", "probe2", "probed"} \cup Identifying
BoardReading == {"boardLock", "boardSelect", "boardData", "boardFree", "boardDone"}
MemoryOpening == {"memoryMutex", "memoryPci", "memoryLoad"}
MemoryReading == {"memoryLock", "memoryRead"}

\* The chip is in configuration mode while its slot is identified, and our page is
\* selected from its selection to the end of the read, unless a write failed.
ChipInv ==
    /\ at \notin Identifying => chip.mode = "run" \/ "exit" \in lost
    /\ at = "boardData" => chip.page = "ours"
    /\ at \notin {"boardData", "boardFree"} =>
          chip.banked \/ chip.page # "ours" \/ "page" \in lost

\* A provider has its driver and handle if it is usable, or on the way to it; only
\* a usable one is read.
OwnedInv ==
    /\ "cpu" \in opened <=> "cpu" \in usable
    /\ IF at \in BoardOpening THEN "board" \in opened
                              ELSE "board" \in opened <=> "board" \in usable
    /\ IF at \in MemoryOpening THEN "memory" \in opened
                               ELSE "memory" \in opened <=> "memory" \in usable
    /\ at \in BoardReading => "board" \in usable
    /\ at \in MemoryReading => "memory" \in usable

\* Only a usable provider caches, of its own page and not before its last attempt.
CacheInv ==
    \A p \in Cached : cached[p] # NotRead =>
        /\ p \in usable
        /\ cached[p].time >= tried[p] /\ cached[p].page = "ours"

\* What a call appends it appends after the attempt.
Waiting(p) == IF p = "board" THEN {"boardOpen", "boardRefresh"} \cup BoardOpening
              ELSE {"boardOpen", "boardRefresh", "memoryOpen", "memoryRefresh"}
                   \cup BoardOpening \cup BoardReading \cup MemoryOpening
ShownInv == \A p \in Cached : at \in Waiting(p) => shown[p] = NotRead

\* A register is left while one is being read; no attempt is ahead of the clock.
CountInv == /\ at \in {"boardSelect", "boardData", "boardFree"} => reg # 0
            /\ \A p \in Cached : tried[p] <= seconds

PrivIInv == /\ PrivTypeOK /\ CountInv /\ HoldInv /\ ChipInv /\ OwnedInv /\ CacheInv /\ ShownInv
            /\ NoOldMeasurement /\ ReadsOwnPage

LEMMA ReadingTypes == NotRead \in Readings /\ \A page \in Pages : \A t \in 0..PrivMaxTime :
                         [time |-> t, page |-> page] \in Readings
  BY PrivAssumption DEF NotRead, Readings, Pages

\* Closing providers keeps the types of what they held and cached.
LEMMA ShutTypes ==
  ASSUME PrivTypeOK, NEW P, Shut(P)
  PROVE  /\ opened' \subseteq Providers /\ usable' \subseteq Providers
         /\ cached' \in [Cached -> Readings] /\ shown' \in [Cached -> Readings]
         /\ lastRead' \in [Cached -> 0..PrivMaxTime] /\ tried' \in [Cached -> 0..PrivMaxTime]
  BY PrivAssumption, ReadingTypes DEF Shut, PrivTypeOK

LEMMA PrivInitIInv == PrivInit => PrivIInv
<1> SUFFICES ASSUME PrivInit PROVE PrivIInv
  OBVIOUS
<1> USE PrivAssumption DEF PrivInit
<1>1. PrivTypeOK
  BY DEF PrivTypeOK, NotRead, Readings, Pages, Places
<1>2. CountInv /\ HoldInv /\ ChipInv /\ OwnedInv
  BY DEF CountInv, HoldInv, Holding, ChipInv, OwnedInv, Identifying, BoardOpening, BoardReading,
     MemoryOpening, MemoryReading, Mutexes
<1>3. CacheInv /\ ShownInv /\ NoOldMeasurement /\ ReadsOwnPage
  BY DEF CacheInv, ShownInv, NoOldMeasurement, ReadsOwnPage
<1> QED BY <1>1, <1>2, <1>3 DEF PrivIInv

\* The steps of the board's provider.
LEMMA PrivBoardIInv ==
  ASSUME PrivIInv, BoardStep
  PROVE  PrivIInv'
<1> USE PrivAssumption DEF PrivIInv, caches, chipVars, owned
<1>1. PrivTypeOK'
  <2>1. CASE OpenBoard
    BY <2>1 DEF OpenBoard, PrivTypeOK, CountInv, NotRead, Readings, Pages, Places, Providers,
       Cached, Mutexes
  <2>2. CASE WaitProbe
    BY <2>2, ShutTypes DEF WaitProbe, PrivTypeOK, Acquire, Grant, Refuse, Pages, Places,
       Providers, Cached, Mutexes
  <2>3. CASE WriteKeys
    BY <2>3 DEF WriteKeys, PrivTypeOK, NextSlot, CountInv, NotRead, Readings, Pages, Places,
       Providers, Cached, Mutexes
  <2>4. CASE Identify
    BY <2>4 DEF Identify, PrivTypeOK, NextSlot, LeaveConfiguration, CountInv, NotRead, Readings,
       Pages, Places, Providers, Cached, Mutexes
  <2>5. CASE EndProbe
    BY <2>5, ShutTypes DEF EndProbe, PrivTypeOK, Release, Pages, Places, Providers, Cached,
       Mutexes
  <2>6. CASE RefreshBoard
    BY <2>6 DEF RefreshBoard, PrivTypeOK, AfterBoard, Emptied, Due, CountInv, NotRead, Readings,
       Pages, Places, Providers, Cached, Mutexes
  <2>7. CASE LockBoard
    BY <2>7 DEF LockBoard, PrivTypeOK, Acquire, AfterBoard, AppendBoard, Grant, Refuse, CountInv,
       NotRead, Readings, Pages, Places, Providers, Cached, Mutexes
  <2>8. CASE SelectPage
    BY <2>8 DEF SelectPage, PrivTypeOK, NextRegister, CountInv, NotRead, Readings, Pages, Places,
       Providers, Cached, Mutexes
  <2>9. CASE ReadRegister
    BY <2>9 DEF ReadRegister, PrivTypeOK, CountInv, NotRead, Readings, Pages, Places, Providers,
       Cached, Mutexes
  <2>10. CASE FreePage
    BY <2>10 DEF FreePage, PrivTypeOK, GiveBack, NextRegister, CountInv, NotRead, Readings, Pages,
       Places, Providers, Cached, Mutexes
  <2>11. CASE EndBoard
    BY <2>11 DEF EndBoard, PrivTypeOK, Release, AfterBoard, AppendBoard, CountInv, NotRead,
       Readings, Pages, Places, Providers, Cached, Mutexes
  <2> QED BY <2>1, <2>2, <2>3, <2>4, <2>5, <2>6, <2>7, <2>8, <2>9, <2>10, <2>11 DEF BoardStep
<1>2. CountInv'
  BY DEF BoardStep, OpenBoard, WaitProbe, WriteKeys, Identify, EndProbe, RefreshBoard, LockBoard,
     SelectPage, ReadRegister, FreePage, EndBoard, CountInv, PrivTypeOK, Acquire, Release, Shut,
     NextSlot, LeaveConfiguration, GiveBack, NextRegister, AfterBoard, AppendBoard, Emptied, Due,
     Cached
<1>3. HoldInv'
  <2>1. CASE OpenBoard
    BY <2>1 DEF OpenBoard, HoldInv, PrivTypeOK, Holding, Mutexes
  <2>2. CASE WaitProbe
    BY <2>2 DEF WaitProbe, HoldInv, PrivTypeOK, Acquire, Shut, Grant, Refuse, Holding, Mutexes
  <2>3. CASE WriteKeys
    BY <2>3 DEF WriteKeys, HoldInv, PrivTypeOK, NextSlot, Holding, Mutexes
  <2>4. CASE Identify
    BY <2>4 DEF Identify, HoldInv, PrivTypeOK, NextSlot, LeaveConfiguration, Holding, Mutexes
  <2>5. CASE EndProbe
    BY <2>5 DEF EndProbe, HoldInv, PrivTypeOK, Release, Shut, Holding, Mutexes
  <2>6. CASE RefreshBoard
    BY <2>6 DEF RefreshBoard, HoldInv, PrivTypeOK, AfterBoard, Emptied, Due, Holding, Mutexes
  <2>7. CASE LockBoard
    BY <2>7 DEF LockBoard, HoldInv, PrivTypeOK, Acquire, AfterBoard, AppendBoard, Grant, Refuse,
       Holding, Mutexes
  <2>8. CASE SelectPage
    BY <2>8 DEF SelectPage, HoldInv, PrivTypeOK, NextRegister, Holding, Mutexes
  <2>9. CASE ReadRegister
    BY <2>9 DEF ReadRegister, HoldInv, PrivTypeOK, Holding, Mutexes
  <2>10. CASE FreePage
    BY <2>10 DEF FreePage, HoldInv, PrivTypeOK, GiveBack, NextRegister, Holding, Mutexes
  <2>11. CASE EndBoard
    BY <2>11 DEF EndBoard, HoldInv, PrivTypeOK, Release, AfterBoard, AppendBoard, Holding, Mutexes
  <2> QED BY <2>1, <2>2, <2>3, <2>4, <2>5, <2>6, <2>7, <2>8, <2>9, <2>10, <2>11 DEF BoardStep
<1>4. ChipInv'
  BY DEF BoardStep, OpenBoard, WaitProbe, WriteKeys, Identify, EndProbe, RefreshBoard, LockBoard,
     SelectPage, ReadRegister, FreePage, EndBoard, ChipInv, PrivTypeOK, Acquire, Release, Shut,
     NextSlot, LeaveConfiguration, GiveBack, NextRegister, AfterBoard, AppendBoard, Emptied, Due,
     Identifying, HoldInv, Holding, Mutexes
<1>5. OwnedInv'
  BY DEF BoardStep, OpenBoard, WaitProbe, WriteKeys, Identify, EndProbe, RefreshBoard, LockBoard,
     SelectPage, ReadRegister, FreePage, EndBoard, OwnedInv, PrivTypeOK, Acquire, Release, Shut,
     NextSlot, LeaveConfiguration, GiveBack, NextRegister, AfterBoard, AppendBoard, Emptied, Due,
     Identifying, BoardOpening, BoardReading, MemoryOpening, MemoryReading, Providers
<1>6. CacheInv'
  <2>1. CASE OpenBoard
    BY <2>1 DEF OpenBoard, CacheInv, PrivTypeOK, NotRead, Cached, ChipInv, OwnedInv, Identifying,
       BoardOpening, BoardReading, MemoryOpening, MemoryReading, CountInv
  <2>2. CASE WaitProbe
    BY <2>2 DEF WaitProbe, CacheInv, PrivTypeOK, Acquire, Shut, Grant, Refuse, NotRead, Cached,
       ChipInv, OwnedInv, Identifying, BoardOpening, BoardReading, MemoryOpening, MemoryReading,
       CountInv
  <2>3. CASE WriteKeys
    BY <2>3 DEF WriteKeys, CacheInv, PrivTypeOK, NextSlot, NotRead, Cached, ChipInv, OwnedInv,
       Identifying, BoardOpening, BoardReading, MemoryOpening, MemoryReading, CountInv
  <2>4. CASE Identify
    BY <2>4 DEF Identify, CacheInv, PrivTypeOK, NextSlot, LeaveConfiguration, NotRead, Cached,
       ChipInv, OwnedInv, Identifying, BoardOpening, BoardReading, MemoryOpening, MemoryReading,
       CountInv
  <2>5. CASE EndProbe
    BY <2>5 DEF EndProbe, CacheInv, PrivTypeOK, Release, Shut, NotRead, Cached, ChipInv, OwnedInv,
       Identifying, BoardOpening, BoardReading, MemoryOpening, MemoryReading, CountInv
  <2>6. CASE RefreshBoard
    BY <2>6 DEF RefreshBoard, CacheInv, PrivTypeOK, AfterBoard, Emptied, Due, NotRead, Cached,
       ChipInv, OwnedInv, Identifying, BoardOpening, BoardReading, MemoryOpening, MemoryReading,
       CountInv
  <2>7. CASE LockBoard
    BY <2>7 DEF LockBoard, CacheInv, PrivTypeOK, Acquire, AfterBoard, AppendBoard, Grant, Refuse,
       NotRead, Cached, ChipInv, OwnedInv, Identifying, BoardOpening, BoardReading, MemoryOpening,
       MemoryReading, CountInv
  <2>8. CASE SelectPage
    BY <2>8 DEF SelectPage, CacheInv, PrivTypeOK, NextRegister, NotRead, Cached, ChipInv,
       OwnedInv, Identifying, BoardOpening, BoardReading, MemoryOpening, MemoryReading, CountInv
  <2>9. CASE ReadRegister
    BY <2>9 DEF ReadRegister, CacheInv, PrivTypeOK, NotRead, Cached, ChipInv, OwnedInv,
       Identifying, BoardOpening, BoardReading, MemoryOpening, MemoryReading, CountInv
  <2>10. CASE FreePage
    BY <2>10 DEF FreePage, CacheInv, PrivTypeOK, GiveBack, NextRegister, NotRead, Cached, ChipInv,
       OwnedInv, Identifying, BoardOpening, BoardReading, MemoryOpening, MemoryReading, CountInv
  <2>11. CASE EndBoard
    BY <2>11 DEF EndBoard, CacheInv, PrivTypeOK, Release, AfterBoard, AppendBoard, NotRead,
       Cached, ChipInv, OwnedInv, Identifying, BoardOpening, BoardReading, MemoryOpening,
       MemoryReading, CountInv
  <2> QED BY <2>1, <2>2, <2>3, <2>4, <2>5, <2>6, <2>7, <2>8, <2>9, <2>10, <2>11 DEF BoardStep
<1>7. ShownInv'
  BY DEF BoardStep, OpenBoard, WaitProbe, WriteKeys, Identify, EndProbe, RefreshBoard, LockBoard,
     SelectPage, ReadRegister, FreePage, EndBoard, ShownInv, PrivTypeOK, Acquire, Release, Shut,
     NextSlot, LeaveConfiguration, GiveBack, NextRegister, AfterBoard, AppendBoard, Emptied, Due,
     NotRead, Waiting, Cached, Identifying, BoardOpening, BoardReading, MemoryOpening,
     MemoryReading
<1>8. NoOldMeasurement' /\ ReadsOwnPage'
  BY DEF BoardStep, OpenBoard, WaitProbe, WriteKeys, Identify, EndProbe, RefreshBoard, LockBoard,
     SelectPage, ReadRegister, FreePage, EndBoard, NoOldMeasurement, ReadsOwnPage, PrivTypeOK,
     Acquire, Release, Shut, NextSlot, LeaveConfiguration, GiveBack, NextRegister, AfterBoard,
     AppendBoard, Emptied, Due, NotRead, Cached, CacheInv, ShownInv, Waiting, CountInv
<1> QED BY <1>1, <1>2, <1>3, <1>4, <1>5, <1>6, <1>7, <1>8

\* The steps of the memory's provider.
LEMMA PrivMemoryIInv ==
  ASSUME PrivIInv, MemoryStep
  PROVE  PrivIInv'
<1> USE PrivAssumption DEF PrivIInv, caches, chipVars, owned
<1>1. PrivTypeOK'
  <2>1. CASE OpenMemory
    BY <2>1 DEF OpenMemory, PrivTypeOK, CountInv, NotRead, Readings, Pages, Places, Providers,
       Cached, Mutexes
  <2>2. CASE WaitSmbus
    BY <2>2, ShutTypes DEF WaitSmbus, PrivTypeOK, Acquire, Grant, Refuse, Pages, Places,
       Providers, Cached, Mutexes
  <2>3. CASE WaitPci
    <3>0. /\ at' \in Places /\ holder' \in [Mutexes -> {"nobody", "us", "tool"}]
          /\ UNCHANGED <<chipVars, call, seconds>>
      BY <2>3 DEF WaitPci, Grant, PrivTypeOK, Release, Places
    <3>1. CASE Shut({"memory"})
      BY <3>0, <3>1, ShutTypes DEF PrivTypeOK
    <3>2. CASE UNCHANGED <<owned, caches>>
      BY <3>0, <3>2 DEF PrivTypeOK
    <3> QED BY <2>3, <3>1, <3>2 DEF WaitPci
  <2>4. CASE LoadBuses
    <3>0. /\ at' \in Places /\ holder' \in [Mutexes -> {"nobody", "us", "tool"}]
          /\ UNCHANGED <<chipVars, call, seconds>>
      BY <2>4 DEF LoadBuses, PrivTypeOK, Release, Places
    <3>1. CASE Shut({"memory"})
      BY <3>0, <3>1, ShutTypes DEF PrivTypeOK
    <3>2. CASE usable' = usable \cup {"memory"} /\ UNCHANGED <<opened, caches>>
      BY <3>0, <3>2 DEF PrivTypeOK, Providers, Cached
    <3> QED BY <2>4, <3>1, <3>2 DEF LoadBuses
  <2>5. CASE RefreshMemory
    BY <2>5 DEF RefreshMemory, PrivTypeOK, AfterMemory, AppendMemory, Emptied, Due, CountInv,
       NotRead, Readings, Pages, Places, Providers, Cached, Mutexes
  <2>6. CASE LockMemory
    BY <2>6 DEF LockMemory, PrivTypeOK, Acquire, AfterMemory, AppendMemory, Grant, Refuse,
       CountInv, NotRead, Readings, Pages, Places, Providers, Cached, Mutexes
  <2>7. CASE ReadMemory
    BY <2>7 DEF ReadMemory, PrivTypeOK, Release, AfterMemory, AppendMemory, CountInv, NotRead,
       Readings, Pages, Places, Providers, Cached, Mutexes
  <2> QED BY <2>1, <2>2, <2>3, <2>4, <2>5, <2>6, <2>7 DEF MemoryStep
<1>2. CountInv'
  BY DEF MemoryStep, OpenMemory, WaitSmbus, WaitPci, LoadBuses, RefreshMemory, LockMemory,
     ReadMemory, CountInv, PrivTypeOK, Acquire, Grant, Release, Shut, AfterMemory, AppendMemory,
     Emptied, Due, Cached
<1>3. HoldInv'
  <2>1. CASE OpenMemory
    BY <2>1 DEF OpenMemory, HoldInv, PrivTypeOK, Holding, Mutexes
  <2>2. CASE WaitSmbus
    BY <2>2 DEF WaitSmbus, HoldInv, PrivTypeOK, Acquire, Shut, Grant, Refuse, Holding, Mutexes
  <2>3. CASE WaitPci
    BY <2>3 DEF WaitPci, HoldInv, PrivTypeOK, Grant, Release, Shut, Holding, Mutexes
  <2>4. CASE LoadBuses
    BY <2>4 DEF LoadBuses, HoldInv, PrivTypeOK, Release, Shut, Holding, Mutexes
  <2>5. CASE RefreshMemory
    BY <2>5 DEF RefreshMemory, HoldInv, PrivTypeOK, AfterMemory, AppendMemory, Emptied, Due,
       Holding, Mutexes
  <2>6. CASE LockMemory
    BY <2>6 DEF LockMemory, HoldInv, PrivTypeOK, Acquire, AfterMemory, AppendMemory, Grant,
       Refuse, Holding, Mutexes
  <2>7. CASE ReadMemory
    BY <2>7 DEF ReadMemory, HoldInv, PrivTypeOK, Release, AfterMemory, AppendMemory, Holding,
       Mutexes
  <2> QED BY <2>1, <2>2, <2>3, <2>4, <2>5, <2>6, <2>7 DEF MemoryStep
<1>4. ChipInv'
  BY DEF MemoryStep, OpenMemory, WaitSmbus, WaitPci, LoadBuses, RefreshMemory, LockMemory,
     ReadMemory, ChipInv, PrivTypeOK, Acquire, Grant, Release, Shut, AfterMemory, AppendMemory,
     Emptied, Due, Identifying, HoldInv, Holding, Mutexes
<1>5. OwnedInv'
  BY DEF MemoryStep, OpenMemory, WaitSmbus, WaitPci, LoadBuses, RefreshMemory, LockMemory,
     ReadMemory, OwnedInv, PrivTypeOK, Acquire, Grant, Release, Shut, AfterMemory, AppendMemory,
     Emptied, Due, Identifying, BoardOpening, BoardReading, MemoryOpening, MemoryReading,
     Providers
<1>6. CacheInv'
  <2>1. CASE OpenMemory
    BY <2>1 DEF OpenMemory, CacheInv, PrivTypeOK, NotRead, Cached, ChipInv, OwnedInv, Identifying,
       BoardOpening, BoardReading, MemoryOpening, MemoryReading, CountInv
  <2>2. CASE WaitSmbus
    BY <2>2 DEF WaitSmbus, CacheInv, PrivTypeOK, Acquire, Shut, Grant, Refuse, NotRead, Cached,
       ChipInv, OwnedInv, Identifying, BoardOpening, BoardReading, MemoryOpening, MemoryReading,
       CountInv
  <2>3. CASE WaitPci
    BY <2>3 DEF WaitPci, CacheInv, PrivTypeOK, Grant, Release, Shut, NotRead, Cached, ChipInv,
       OwnedInv, Identifying, BoardOpening, BoardReading, MemoryOpening, MemoryReading, CountInv
  <2>4. CASE LoadBuses
    BY <2>4 DEF LoadBuses, CacheInv, PrivTypeOK, Release, Shut, NotRead, Cached, ChipInv,
       OwnedInv, Identifying, BoardOpening, BoardReading, MemoryOpening, MemoryReading, CountInv
  <2>5. CASE RefreshMemory
    BY <2>5 DEF RefreshMemory, CacheInv, PrivTypeOK, AfterMemory, AppendMemory, Emptied, Due,
       NotRead, Cached, ChipInv, OwnedInv, Identifying, BoardOpening, BoardReading, MemoryOpening,
       MemoryReading, CountInv
  <2>6. CASE LockMemory
    BY <2>6 DEF LockMemory, CacheInv, PrivTypeOK, Acquire, AfterMemory, AppendMemory, Grant,
       Refuse, NotRead, Cached, ChipInv, OwnedInv, Identifying, BoardOpening, BoardReading,
       MemoryOpening, MemoryReading, CountInv
  <2>7. CASE ReadMemory
    BY <2>7 DEF ReadMemory, CacheInv, PrivTypeOK, Release, AfterMemory, AppendMemory, NotRead,
       Cached, ChipInv, OwnedInv, Identifying, BoardOpening, BoardReading, MemoryOpening,
       MemoryReading, CountInv
  <2> QED BY <2>1, <2>2, <2>3, <2>4, <2>5, <2>6, <2>7 DEF MemoryStep
<1>7. ShownInv'
  BY DEF MemoryStep, OpenMemory, WaitSmbus, WaitPci, LoadBuses, RefreshMemory, LockMemory,
     ReadMemory, ShownInv, PrivTypeOK, Acquire, Grant, Release, Shut, AfterMemory, AppendMemory,
     Emptied, Due, NotRead, Waiting, Cached, Identifying, BoardOpening, BoardReading,
     MemoryOpening, MemoryReading
<1>8. NoOldMeasurement' /\ ReadsOwnPage'
  <2>1. CASE OpenMemory
    BY <2>1 DEF OpenMemory, NoOldMeasurement, ReadsOwnPage, PrivTypeOK, NotRead, Cached, CacheInv,
       ShownInv, Waiting, CountInv
  <2>2. CASE WaitSmbus
    BY <2>2 DEF WaitSmbus, NoOldMeasurement, ReadsOwnPage, PrivTypeOK, Acquire, Shut, Grant,
       Refuse, NotRead, Cached, CacheInv, ShownInv, Waiting, CountInv
  <2>3. CASE WaitPci
    BY <2>3 DEF WaitPci, NoOldMeasurement, ReadsOwnPage, PrivTypeOK, Grant, Release, Shut,
       NotRead, Cached, CacheInv, ShownInv, Waiting, CountInv
  <2>4. CASE LoadBuses
    BY <2>4 DEF LoadBuses, NoOldMeasurement, ReadsOwnPage, PrivTypeOK, Release, Shut, NotRead,
       Cached, CacheInv, ShownInv, Waiting, CountInv
  <2>5. CASE RefreshMemory
    BY <2>5 DEF RefreshMemory, NoOldMeasurement, ReadsOwnPage, PrivTypeOK, AfterMemory,
       AppendMemory, Emptied, Due, NotRead, Cached, CacheInv, ShownInv, Waiting, CountInv
  <2>6. CASE LockMemory
    BY <2>6 DEF LockMemory, NoOldMeasurement, ReadsOwnPage, PrivTypeOK, Acquire, AfterMemory,
       AppendMemory, Grant, Refuse, NotRead, Cached, CacheInv, ShownInv, Waiting, CountInv
  <2>7. CASE ReadMemory
    BY <2>7 DEF ReadMemory, NoOldMeasurement, ReadsOwnPage, PrivTypeOK, Release, AfterMemory,
       AppendMemory, NotRead, Cached, CacheInv, ShownInv, Waiting, CountInv
  <2> QED BY <2>1, <2>2, <2>3, <2>4, <2>5, <2>6, <2>7 DEF MemoryStep
<1> QED BY <1>1, <1>2, <1>3, <1>4, <1>5, <1>6, <1>7, <1>8

\* The collector, the processor's provider and the clock.
LEMMA PrivCollectorIInv ==
  ASSUME PrivIInv, InitializeCpu \/ CpuStep \/ BeginCollect \/ Close \/ Second
  PROVE  PrivIInv'
<1> USE PrivAssumption DEF PrivIInv, caches, chipVars, owned
<1>1. PrivTypeOK'
  <2>1. CASE InitializeCpu
    BY <2>1, ReadingTypes DEF InitializeCpu, PrivTypeOK, Pages, Places, Providers, Cached, Mutexes
  <2>2. CASE LockCpu
    BY <2>2 DEF LockCpu, PrivTypeOK, Acquire, Grant, Refuse, CountInv, NotRead, Readings, Pages,
       Places, Providers, Cached, Mutexes
  <2>3. CASE ReadTemperatures
    BY <2>3 DEF ReadTemperatures, PrivTypeOK, Release, CountInv, NotRead, Readings, Pages, Places,
       Providers, Cached, Mutexes
  <2>4. CASE BeginCollect
    BY <2>4, ReadingTypes DEF BeginCollect, PrivTypeOK, Pages, Places, Providers, Cached, Mutexes
  <2>5. CASE Close
    BY <2>5, ShutTypes DEF Close, PrivTypeOK, Pages, Places, Providers, Cached, Mutexes
  <2>6. CASE Second
    BY <2>6 DEF Second, PrivTypeOK, CountInv, NotRead, Readings, Pages, Places, Providers, Cached,
       Mutexes
  <2> QED BY <2>1, <2>2, <2>3, <2>4, <2>5, <2>6 DEF CpuStep
<1>2. CountInv'
  BY DEF CpuStep, InitializeCpu, LockCpu, ReadTemperatures, BeginCollect, Close, Second, CountInv,
     PrivTypeOK, Acquire, Release, Shut, Cached
<1>3. HoldInv'
  <2>1. CASE InitializeCpu
    BY <2>1 DEF InitializeCpu, HoldInv, PrivTypeOK, Holding, Mutexes
  <2>2. CASE LockCpu
    BY <2>2 DEF LockCpu, HoldInv, PrivTypeOK, Acquire, Grant, Refuse, Holding, Mutexes
  <2>3. CASE ReadTemperatures
    BY <2>3 DEF ReadTemperatures, HoldInv, PrivTypeOK, Release, Holding, Mutexes
  <2>4. CASE BeginCollect
    BY <2>4 DEF BeginCollect, HoldInv, PrivTypeOK, Holding, Mutexes
  <2>5. CASE Close
    BY <2>5 DEF Close, HoldInv, PrivTypeOK, Shut, Holding, Mutexes
  <2>6. CASE Second
    BY <2>6 DEF Second, HoldInv, PrivTypeOK, Holding, Mutexes
  <2> QED BY <2>1, <2>2, <2>3, <2>4, <2>5, <2>6 DEF CpuStep
<1>4. ChipInv'
  BY DEF CpuStep, InitializeCpu, LockCpu, ReadTemperatures, BeginCollect, Close, Second, ChipInv,
     PrivTypeOK, Acquire, Release, Shut, Identifying, HoldInv, Holding, Mutexes
<1>5. OwnedInv'
  BY DEF CpuStep, InitializeCpu, LockCpu, ReadTemperatures, BeginCollect, Close, Second, OwnedInv,
     PrivTypeOK, Acquire, Release, Shut, Identifying, BoardOpening, BoardReading, MemoryOpening,
     MemoryReading, Providers
<1>6. CacheInv'
  BY DEF CpuStep, InitializeCpu, LockCpu, ReadTemperatures, BeginCollect, Close, Second, CacheInv,
     PrivTypeOK, Acquire, Release, Shut, NotRead, Cached, ChipInv, OwnedInv, Identifying,
     BoardOpening, BoardReading, MemoryOpening, MemoryReading, CountInv
<1>7. ShownInv'
  BY DEF CpuStep, InitializeCpu, LockCpu, ReadTemperatures, BeginCollect, Close, Second, ShownInv,
     PrivTypeOK, Acquire, Release, Shut, NotRead, Waiting, Cached, Identifying, BoardOpening,
     BoardReading, MemoryOpening, MemoryReading
<1>8. NoOldMeasurement' /\ ReadsOwnPage'
  BY DEF CpuStep, InitializeCpu, LockCpu, ReadTemperatures, BeginCollect, Close, Second,
     NoOldMeasurement, ReadsOwnPage, PrivTypeOK, Acquire, Release, Shut, NotRead, Cached,
     CacheInv, ShownInv, Waiting, CountInv
<1> QED BY <1>1, <1>2, <1>3, <1>4, <1>5, <1>6, <1>7, <1>8

\* The other program.
LEMMA PrivToolIInv ==
  ASSUME PrivIInv, Tool
  PROVE  PrivIInv'
<1> USE PrivAssumption DEF PrivIInv, caches, chipVars, owned
<1>1. PrivTypeOK'
  BY DEF Tool, PrivTypeOK, PrivTypeOK, ToolTakes, ToolGives, ToolSelects, ToolDies, CountInv,
     NotRead, Readings, Pages, Places, Providers, Cached, Mutexes
<1>2. CountInv'
  BY DEF Tool, CountInv, PrivTypeOK, ToolTakes, ToolGives, ToolSelects, ToolDies, Cached
<1>3. HoldInv'
  BY DEF Tool, HoldInv, PrivTypeOK, ToolTakes, ToolGives, ToolSelects, ToolDies, Holding, Mutexes
<1>4. ChipInv'
  BY DEF Tool, ChipInv, PrivTypeOK, ToolTakes, ToolGives, ToolSelects, ToolDies, Identifying,
     HoldInv, Holding, Mutexes
<1>5. OwnedInv'
  BY DEF Tool, OwnedInv, PrivTypeOK, ToolTakes, ToolGives, ToolSelects, ToolDies, Identifying,
     BoardOpening, BoardReading, MemoryOpening, MemoryReading, Providers
<1>6. CacheInv'
  BY DEF Tool, CacheInv, PrivTypeOK, ToolTakes, ToolGives, ToolSelects, ToolDies, NotRead, Cached,
     ChipInv, OwnedInv, Identifying, BoardOpening, BoardReading, MemoryOpening, MemoryReading,
     CountInv
<1>7. ShownInv'
  BY DEF Tool, ShownInv, PrivTypeOK, ToolTakes, ToolGives, ToolSelects, ToolDies, NotRead,
     Waiting, Cached, Identifying, BoardOpening, BoardReading, MemoryOpening, MemoryReading
<1>8. NoOldMeasurement' /\ ReadsOwnPage'
  BY DEF Tool, NoOldMeasurement, ReadsOwnPage, PrivTypeOK, ToolTakes, ToolGives, ToolSelects,
     ToolDies, NotRead, Cached, CacheInv, ShownInv, Waiting, CountInv
<1> QED BY <1>1, <1>2, <1>3, <1>4, <1>5, <1>6, <1>7, <1>8

LEMMA PrivNextIInv == PrivIInv /\ [PrivNext]_privVars => PrivIInv'
<1> SUFFICES ASSUME PrivIInv, [PrivNext]_privVars PROVE PrivIInv'
  OBVIOUS
<1>1. CASE UNCHANGED privVars
  BY <1>1 DEF privVars, PrivIInv, PrivTypeOK, CountInv, HoldInv, ChipInv, OwnedInv, CacheInv,
     ShownInv, NoOldMeasurement, ReadsOwnPage
<1>2. CASE PrivNext
  BY <1>2, PrivBoardIInv, PrivMemoryIInv, PrivCollectorIInv, PrivToolIInv DEF PrivNext, GoOn
<1> QED BY <1>1, <1>2

LEMMA PrivInvariance == PrivSpec => []PrivIInv
<1>1. PrivInit => PrivIInv
  BY PrivInitIInv
<1>2. PrivIInv /\ [PrivNext]_privVars => PrivIInv'
  BY PrivNextIInv
<1> QED BY <1>1, <1>2, PTL DEF PrivSpec

\* The three parts of RegistersShared follow from where the thread is.
LEMMA SharedAtRest == PrivIInv => RegistersShared
<1> SUFFICES ASSUME PrivIInv PROVE RegistersShared
  OBVIOUS
<1> USE DEF PrivIInv
<1>1. NothingHeldAtRest
  BY DEF NothingHeldAtRest, HoldInv, Holding, Mutexes
<1>2. UnusableIsClosed
  <2> SUFFICES ASSUME at \in {"off", "idle"}
               PROVE  opened = usable /\ \A p \in Cached \ usable : cached[p] = NotRead
    BY DEF UnusableIsClosed
  <2>1. \A p \in Providers : p \in opened <=> p \in usable
    BY DEF OwnedInv, Providers, Cached, BoardOpening, MemoryOpening, Identifying
  <2>2. opened = usable
    BY <2>1 DEF PrivTypeOK
  <2> QED BY <2>2 DEF CacheInv
<1>3. ChipLeftUsable
  <2> SUFFICES ASSUME holder["isa"] # "us"
               PROVE  /\ chip.mode = "run" \/ "exit" \in lost
                      /\ chip.banked \/ chip.page # "ours" \/ "page" \in lost
    BY DEF ChipLeftUsable
  <2>1. at \notin Identifying /\ at \notin {"boardData", "boardFree"}
    BY DEF HoldInv, Holding, Mutexes, Identifying
  <2> QED BY <2>1 DEF ChipInv
<1> QED BY <1>1, <1>2, <1>3 DEF RegistersShared

(* The providers' handles, caches and clocks keep their types, for any intervals and  *)
(* any number of registers (privileged_sensor_collector.cpp:9-37).                      *)
THEOREM PrivTypeCorrect == PrivSpec => []PrivTypeOK
<1>1. PrivIInv => PrivTypeOK
  BY DEF PrivIInv
<1> QED BY PrivInvariance, <1>1, PTL

(* On every path - a mutex refused, a driver missing, an unknown chip, a read that      *)
(* fails, another program that keeps a mutex or dies with its page selected - no mutex    *)
(* is kept between two calls, nothing is open of a provider that cannot be used and the    *)
(* chip is left as it was found, unless the very write that does so failed                  *)
(* (nct6687_provider.cpp:143-233, ddr5_temperature_provider.cpp:120-156).                    *)
THEOREM RegistersAreShared == PrivSpec => []RegistersShared
<1> QED BY PrivInvariance, SharedAtRest, PTL

(* "A failed refresh must not republish the preceding measurement as live": what a      *)
(* call appends was measured in its provider's last attempt, with our page selected         *)
(* (nct6687_provider.cpp:217-260, ddr5_temperature_provider.cpp:158-196).                     *)
THEOREM MeasuredLastOwnPage == PrivSpec => [](NoOldMeasurement /\ ReadsOwnPage)
<1>1. PrivIInv => NoOldMeasurement /\ ReadsOwnPage
  BY DEF PrivIInv
<1> QED BY PrivInvariance, <1>1, PTL
==============================================================================
