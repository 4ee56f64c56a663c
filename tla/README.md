# HardwareScope: a TLA+ development

HardwareScope is a Windows desktop monitor of temperatures, fans, loads and
frame rates. This directory holds TLA+ models of its processes, from the
hardware providers up to the settings dialog and the updater, the TLC
configurations that check them on small instances, and TLAPS proofs of what
matters most for every value of the constants. Paths such as
`sensor_bridge.cpp` are under `src/src/`, headers under
`src/include/hardwarescope/`. `PROJECT.json` maps every definition of the models
to the lines it stands for.

## 1. The system

Three processes run on the machine.

* `HardwareScopeSensorService` runs as LocalSystem. Its one loop
  (`RunCollector`, sensor_service_main.cpp) reads the privileged hardware
  providers, polls the control channel, captures a game's frame rate and
  publishes a snapshot in a shared section.
* `HardwareScope.exe` runs as the user. Its window thread (`NativeWindow`)
  owns the tray icon, the OSD, the graph and the dialogs; a telemetry thread
  (`SensorWorker`) merges the service's snapshots with the unprivileged
  providers; short-lived threads check for updates and write settings.
* `HardwareScope.Updater.exe` installs a verified package after the desktop
  has ended.

### 1.1 Components

**Sensor bridge** (sensor_bridge.cpp). *State*: the section
`SharedSensorSnapshot` (magic, version, sequence counter, stamp, count, slots);
on the client a mapping, a copy buffer and the time of the last attempt to
connect. *Operations*: `Initialize`, `Publish` and `Close` of the publisher;
`Connect`, `Collect` and `Close` of the client. *Interaction*: shared memory
without a lock; the section outlives the service for as long as the desktop maps
it. *Hard*: both processes touch the section at the same time; either may die
at any instruction; the service may restart over a section that is in use.
*Correct if*: an accepted copy is one publication; nothing is shown as live
that a live service did not capture in the last five seconds; stamps never go
back.

**Monitoring control channel** (sensor_bridge.cpp, monitoring_control.cpp).
*State*: a message pipe with one instance whose server is the desktop; the
service's handle, the request in effect and its time. *Operations*:
`SetFpsTarget` on the desktop, `PollFpsControl` and `ReadMonitoringControl` on
the service. *Hard*: nothing blocks, so every exchange takes several turns of
two loops that are not synchronised, and each side may vanish between any two.
*Correct if*: a request that is asked for steadily arrives and is kept, and one
nobody renews is dropped.

**PresentMon capture** (presentmon_fps_runner.cpp). *State*: a child process
and its output pipe; a reader thread; the stream it follows
(`PresentMonCsvStream`: swap chains, windows, reset flag); the history of frame
intervals and the cached 1% low, under a mutex; the target's process id.
*Operations*: `SetTarget`, `Start`, `Stop`, `Snapshot` on the service's loop;
`ReadOutput`, `Consume`, `RecordInterval` on the reader. *Hard*: the target
changes while the reader is between its check and the mutex; a blocking read
has to be cancelled before the thread is joined. *Correct if*: statistics are of
one uninterrupted stream of the game in effect, and `Stop` ends.

**Telemetry worker** (sensor_worker.cpp) **and window lifecycle**
(native_window.cpp). *State*: the configuration and its revision, the reset
request and the stop token under mutexes; the hardware cache, the history of
extrema and the deadlines, private to the thread; `SnapshotStore`; the window's
message queue; the window's own flags for suspension and for the wait after a
resume. *Operations*: the turn of `SensorWorker::Run`; suspend, resume,
settings, tray commands and destruction on the window. *Hard*: the check for a
pause and the publication are two steps; messages may be dropped or be late; a
suspend and a resume may overtake a collection; everything is joined at the end.
*Correct if*: a pause lets at most one snapshot through, stale values are
published at most once after a resume, no snapshot is lost on the way to the
window, extrema match their session, a resume is served, closing ends.

**Settings persistence** (app_settings.cpp). *State*: the file, a temporary
beside it, the pending and failed flags of `AsyncSettingsWriter`. *Operations*:
`Load`, `Save`, `Request`, the thread's `Run`, the destructor's flush.
*Hard*: a crash in the middle of `Save`; a request during a write; the
settings dialog writes back a copy taken when it was opened. *Correct if*: the
file is always an old or a new value, the last request is the one on disk after
an orderly end, a failure reaches the user.

**Update flow** (update_coordinator.cpp, update_client.cpp,
update_prompt_window.cpp, updater_main.cpp, native_window.cpp). *State*: one
operation at a time with a thread and a completion; pending prompt, snooze and
skip; the verified installer, held open; the updater process. *Operations*:
automatic and manual checks, prompt, download, hand-off, wait, install,
relaunch. *Hard*: completions arrive as messages that may not be posted; the
prompt runs a message loop of its own; the desktop may be slow to end.
*Correct if*: at most one operation runs, what is launched is what was verified,
the application comes back after a failure.

**Graph history** (graph_model.cpp, graph_window.cpp). *State*: a ring of
samples per series, each with its time and a mark where the line is broken; the
times of the last snapshot, the last sample and the last redraw; the window's
pause. *Operations*: `Configure`, `Update`, `AdvanceTime`, `Clear`, `Break`; the
window's pause, reset, hide and timer. *Hard*: the ring wraps, ages and is
emptied while snapshots stop, repeat or lack a sensor. *Correct if*: it holds the
window of time it stands for, joins no samples across an outage and never mixes
units.

**OSD, tray and sensor views** (osd_model.cpp, sensor_view_model.cpp,
tray_panel_window.cpp, osd_window.cpp) **and the settings dialog**
(settings_window.cpp). *State*: the settings' categories, pins, order and
favourites; the window's snapshot; the dialog's draft and its two lists; the tray
panel's own snapshot. *Operations*: what each view makes of a snapshot; a click
and a star in the table; the categories' default favourites; opening, editing,
transferring, saving and cancelling the dialog. *Hard*: a sensor may be chosen in
three ways at once and is missing at times; every pass through the dialog turns
categories into pins, through lists that hold positions in a snapshot that goes
on changing; the tray opens a dialog inside another one's loop. *Correct if*: the
views agree, a click toggles, a save shows what the dialog showed.

**Service host** (sensor_service_main.cpp). *State*: the status reported to the
control manager, the stop event, the manager's entry. *Operations*:
`ServiceMain`, `ServiceControl`, `RunCollector`'s loop, `--install`,
`--uninstall`. *Hard*: the handler runs on another thread without a lock; others
start the service while the setup removes it. *Correct if*: a stop that was
accepted ends the service, a removal that succeeded is final.

**Hardware providers** (privileged_sensor_collector.cpp, nct6687_provider.cpp,
ddr5_temperature_provider.cpp, amd_zen_provider.cpp,
storage_temperature_provider.cpp, system_performance_provider.cpp,
nvidia_gpu_provider.cpp, amd_gpu_provider.cpp). *State*: mutexes shared with
other monitoring programs, drivers, libraries, handles, and a cache with its
time. *Operations*: `Initialize`, `Collect`, its refresh, `Close`. *Hard*: every
one of many steps may fail; other programs hold mutexes, move the chip's page and
die; drives and cards come, go and are listed in several orders. *Correct if*:
what was taken is given back on every path, and what is shown is recent and of
the device whose name it bears.

**Update download** (update_client.cpp, file_verification.cpp, the second half of
updater_main.cpp). *State*: the `.partial` file, the installer, the updater's
handle of it. *Operations*: reuse, download, verify, move; open, verify, run,
delete. *Hard*: either process may end at any point, an earlier updater may still
be at work, the directory is the user's. *Correct if*: Setup runs from the build
that was verified.

Not modelled (section 8): **game detection** (game_detector.cpp), the
**frame-rate probe** (etw_fps_monitor.cpp, frame_rate_tracker.cpp), and
**start-up, registration and migration** (main.cpp, startup_registration.cpp,
legacy_settings_migration.cpp).

### 1.2 How they interact

    window thread --Configure, RequestMinMaxReset, stop--> telemetry thread
    telemetry thread --SnapshotStore + posted message----> window thread
    telemetry thread --control pipe (SetFpsTarget)-------> service loop
    service loop ------shared section (Publish)----------> telemetry thread
    service loop ------SetTarget, Snapshot---------------> PresentMon capture
    PresentMon --------output pipe-----------------------> reader thread
    window thread --Request--> settings thread;  --BeginWork--> update thread
    update thread --posted message--> window thread --handoff--> updater
    update thread --files in the update directory--------> updater
    service loop ------Initialize, Collect, Close--------> privileged providers
    telemetry thread --Initialize, Collect, Close--------> other providers
    control manager ---ServiceMain, ServiceControl-------> service
    setup --------------install, uninstall, start--------> control manager
    window thread --snapshot, settings--> table, OSD, tray panel, graph, dialog

The hazards are listed in `PROJECT.json` with the lines where they bite and the
properties that watch them.

## 2. The modules

| Module | Models | State and actions |
|---|---|---|
| `SensorBridge` | sensor_bridge.cpp, publisher and client of the section | one action per read or write of a memory cell that the other process can observe |
| `SnapshotBoard` | what the bridge promises | a board with whole snapshots, taken in one step |
| `ControlPipe` | the control channel, both ends | one action per turn of either loop; the pipe is external |
| `FpsCapture` | presentmon_fps_runner.cpp | one action per step between two points where another thread can interfere |
| `SensorWorker` | sensor_worker.cpp and native_window.cpp's lifecycle | one action per critical section or wait of the thread; one per message handler of the window |
| `SettingsWriter` | app_settings.cpp's writer and `Save`, native_window.cpp's saving | one action per critical section or step of `Save`; crash and restart |
| `UpdateFlow` | update_coordinator.cpp, the update half of native_window.cpp, the dialogs' loops, updater_main.cpp | a stack of message loops, one action per handler or end of a loop; one per step of the work thread and of the updater |
| `UpdateDownload` | update_client.cpp's download, file_verification.cpp, what the updater does with the file | one action per file operation; either process may end at any of them |
| `PrivilegedSensors` | the collector of the service and its three providers | one action per wait, driver load or register access between two points where another program can interfere |
| `StorageSensors` | storage_temperature_provider.cpp | one action per `Collect`; drives come and go in between |
| `ProcessorUsage` | the processor part of system_performance_provider.cpp | one action per query, succeeded or failed |
| `NvidiaGpu`, `AmdGpu` | the two graphics providers | one action per call of the provider; the libraries are external |
| `ServiceHost` | sensor_service_main.cpp's life as a service, the setup's two commands | one action per step of either thread that the other, the manager or the setup can observe |
| `GraphHistory` | graph_model.cpp, graph_window.cpp's feeding of it | one action per handler |
| `SensorDisplay` | osd_model.cpp, sensor_view_model.cpp, the rows of tray_panel_window.cpp | operators only |
| `SettingsDialog` | the sensors' page of settings_window.cpp, the clicks of native_window.cpp | extends `SensorDisplay`; a stack of dialogs, one action per handler or end of a loop |
| `..._proofs` | theorems of the module named, or of those that section 5 names | |
| `MCProviders`, `MCDesktop` | unions for TLC of modules that share no state | `part` says which one a behaviour moves |
| other `MC...` | instances for TLC | values of the constants |

### 2.1 SensorBridge and SnapshotBoard

`cell` is the section apart from magic, version and counter; a cell holds the
*snapshot whose value was written there last*, so a torn copy is a function whose
cells differ. `Publish` is `BeginPublish`, a `WriteCell` per cell in any order,
`EndPublish`; only the cells the snapshot's count covers are written, the others
keep what an earlier snapshot left, as in the code. `Initialize` opens the named
section, zeroes it cell by cell (`ZeroCell`, in any order, the counter and the
header among them) and writes the header. `Collect` is `BeginCollect`,
`ReadBefore`, `CopyCell`, `ReadAfter` (up to `Attempts` times) and `Judge`.
`ServiceExit` and `ClientExit` are enabled everywhere: an orderly end and a crash
look the same to the other side.

Interlocked operations and `MemoryBarrier` are on both sides of the cells'
accesses, so the counter is not reordered with them; between the fences any
order is allowed. A cell is read and written in one step: the code's cells
are wider than a word in places, and a cell torn within itself would be rejected
exactly as two cells of different snapshots are, because the counter has moved.

The abstract `SnapshotBoard` has one exception that the code has too: a start of
the service zeroes the section with the counter even on both sides, so a copy
that overlaps it may be anything (`window = "disturbed"`). `ImplementsBoard` is
the refinement; `Board` counts a publication from its first increment on, since
from then on nobody can accept the one before.

### 2.2 ControlPipe

A tick is five seconds, the service's slowest turn. `SetFpsTarget` follows the
cases of the code: no instance, listening, connected, broken, disconnected.
`PollFpsControl` opens the instance, waits for bytes, reads exactly one message
or drops the lot, and closes after reading. `ValidationFails` is the turn in which
the instance opens but its server cannot be identified: the end is closed again and
the desktop finds its client gone. The pipe's behaviour is Windows's
and is modelled from how the code uses it; where the documentation leaves a
choice (a write into a full message buffer may be queued or refused) both
outcomes are allowed.

*An assumption worth knowing.* `FirstListen` is the answer of `ConnectNamedPipe`
for an instance that was just disconnected. With `"listening"` the channel
recovers; the tests (src/tests/core_tests.cpp:916) show that much for an instance
that is opened anew, not for one in use. If it were `"success"` without a
client, the write that follows would fail, disconnect the instance again, and no
later poll would get out of that circle: `SteadyRequestArrives` fails in that
instance. The constant is there so that this dependence is visible.

### 2.3 FpsCapture

An interval is reduced to its origin (game, chain, uninterrupted stretch), so
"one stream" is "one origin". `ReadRow` ends where the code has looked at the
target and not yet taken the mutex; `Record` is the critical section. A row is
one that `Consume` uses: rows it ignores before looking at the chain are left
out. The 1% low is recomputed at most once a `LowPeriod`.

### 2.4 SensorWorker

The thread's turn is cut where another thread can interfere: reading the
configuration, the two waits, the collection, taking the reset request with the
check for a pause, the publication, the posting of the message. On the window
side every handler is one action; a handler runs to its end before the next
message. Ghosts (`granted`, `late`, `stale`, `session`,
`overridden`) only record history for the properties. The window here has no
modal dialog that swallows the end of its loop: that behaviour is in `UpdateFlow`.

Four handlers make the display visible or not: `HandleSnapshot` after a resume,
`ToggleOsd` (the tray's menu), `ApplySettings` (a dialog that was saved) and
`ClickRow` (a click on a sensor's row, whose `OsdWindow::ApplySettings` sets
`visible_` to `show_osd`, osd_window.cpp:117). The last three do not ask whether
the window is suspended or waits for a snapshot, so the display may come back in
the middle of a pause. `overridden` says that one of them has done so since the last
suspend or resume. `OsdHiddenUntilServed` is what remains true: while `Unserved`, the
display is visible exactly if one of these acts of the user made it so, and no
message does. That it comes back only when a snapshot was served is not true of the
code (section 6).

### 2.5 SettingsWriter

The module's names begin with `Writer` where they would meet another's in
`MCDesktop`. A value of the settings is the number of the request that handed it over, so
"the latest settings are on disk" is `file = requested`. `SaveSettings` on the
window is a request and the start of the one-second timer; the timer's handler
looks at `Pending` (`CheckPending`) and then takes the failure (`TakeFailure`), and
the thread can run between the two. `Save` is `OpenTemporary`, `WriteTemporary`
and `Replace`, each of which may fail; the last is one step because
`MoveFileEx` with `MOVEFILE_REPLACE_EXISTING` is taken to be. `Store` is two
steps, `failed_` before `completed_`: `NothingLostSilently` depends on that
order. `Crash` is enabled everywhere; `Restart` loads what the file holds. The
notice that a failure opens is not modal here: that it runs a loop of its own
matters to updates only (`TellSaveFailure` of `UpdateFlow`). The ghosts are `asked`
(a save since the window is open) and `told`.

### 2.6 UpdateFlow

A dialog runs a message loop inside the handler that opened it. The window
thread is therefore a stack: the innermost loop dispatches every message,
whichever window it is for, and the handler below goes on (`Leave`) when that
loop ends. A loop ends when its dialog is done, or when `GetMessage` gives it
WM_QUIT, which then is gone for the loops below (`quit`). `Destroyed` takes the
owned windows along: the settings dialog's procedure marks itself done in
WM_DESTROY, the prompt's does not. `EndProcess` is the main loop taking WM_QUIT.

`BeginWork`, `FinishWork`, `ClearProgress` and `Post` are the coordinator and
its thread at the grain of its atomics and its mutex. `Results` abstracts the
server, the network and the verification: any version or none, ready or failed.
Timers are set or not; how long they take is left open. User input is handled
after messages that are posted already (`AtRest`); an exit that is asked for
while a completion is posted is covered by the order in which the completion is
handled first and the user exits from the dialog it opens.

`GetLastActivePopup` is external: any dialog of the stack that is enabled, or
the main window if there is none (`Popups`).

Left out: the loop of the tray's menu, the import of a settings file into the
dialog, the state of the button that starts a check, the first-run dialog. A
relaunch is taken to succeed.

### 2.7 UpdateDownload

A file is the build its bytes are of and how many reads of it are there; a foreign
file is one that somebody else put there. A version has one file name, but its
manifest may name another build tomorrow, so an installer that is complete may
still be the wrong one. `BeginDownload`, `CreatePartial`, `Receive`, the end of
the stream, the verification, the move and `~PartialCleanup` are steps of their
own, and `ApplicationEnds` may come between any two. The updater opens the
installer once, verifies it through that handle and holds it, shared for reading
only, while Setup runs: until then `ReplaceInstaller` may exchange it.
`left` records why a `.partial` file is there.

### 2.8 The providers

`PrivilegedSensors`. A reading is when it was measured and whose page the chip
had selected at that moment. The other program takes and gives mutexes in any
order, selects its own page, and may die with both; a wait that finds a mutex
abandoned succeeds, as in the code, so an abandoned mutex counts as free. A
wait that finds it held may time out. Which registers are read and what their
bytes mean is left out: there are `Registers` of them and each is one step.
`Second` is refused in the middle of some calls, so that the clock's bound is
not used up within one of them.

`StorageSensors`. A handle outlives its drive, but queries through it fail from
then on, also when another drive takes the slot; `working` is the handles whose
drive is still there. A temperature is the time at which it was read.

`ProcessorUsage`. The counters are those of idle, kernel and user time, kernel
time including idle time; the idle counter may be taken back. The usage is the
share before its conversion to percent. Memory and power of the same provider
are one query each and left out.

`NvidiaGpu`. The order of the cards is NVAPI's; NVML has one of its own
(`listing`) and the two are matched by the bus, where the driver tells it. A
reading is what it is of, the card it was read from and when; "nobody" measured
the zero of a thermal channel that is not served. `loaded` and `started` count
the calls that need a counterpart.

`AmdGpu`. Several adapters belong to one card. The identifier of a record is
asked for, or made of the place on the bus when that fails, so two adapters of a
card meet only if both answered or neither did: `OneRecordPerCard` says exactly
that.

`ServiceHost`. A status is written and then reported, in two steps, by both
threads on the same variable; the event is created after the handler is
registered, and if that fails `ServiceMain` returns without any report. `Dies` is enabled wherever there is a process. `Uninstall` is the
stop, up to `Polls` queries and the deletion, which only marks the entry while a
process is left; `InstallService` can fail on an entry that is marked.

### 2.9 GraphHistory, SensorDisplay and SettingsDialog

The graph keeps the times of samples only. `taken`, a ghost, is all of them since
the series began, against which `RingIsTheWindow` compares the ring. A snapshot
arrives anew, again or not at all, with any sensors missing.

`SensorDisplay` has the pure functions of the views over a snapshot, a sequence
of sensors with or without a reading. Each sensor is of a kind (frame rate, 1%
low, frame time, a category, other), of a unit and of a section of the table. The
frame time is no item of the display: its row in the table, which the service
publishes like any other, is marked if the display's graph is on and draws it, and a
click on it switches the graph and makes it the graph's only source
(osd_model.cpp:156-162, 181-187). Of the graph the settings keep that it is on and
which sensors it draws, as a set; their order only chooses colours. The search text
is left out. The loops of the code are recursive functions of the number of turns
(`Picked`, `AddIds`, the `view` of `BuildSensorView`), which the provers can unfold.

Two assumptions restrict the constants. `DisplayAssumption`: the frame rate, its 1%
low and the frame time are one sensor each (`kFpsSensorId`,
`kFpsOnePercentLowSensorId`, `kFpsFrameTimeSensorId`). `DialogAssumption`: a
snapshot has no sensor twice, since each provider makes an identifier of its domain
and what it numbers, and the settings of a file have no list with a sensor twice or
longer than the code's arrays, which `ParseSensorIds` and `Normalize` see to
(app_settings.cpp:84-107, 181-190). That the lists stay so is proved.

In `SettingsDialog` a dialog has a draft, made when it opens; its list of sensors
holds positions in the snapshot of that moment, and the order list is made of that
list. The window's snapshot goes on changing meanwhile (`ReadLatest`: any snapshot
that may have been published). `ReadControls` is the conversion of the lists into
pins, of the draft's categories into none and of the order list into at most
`MaxIds` places (`OrderRead`), as far as the other pages' controls are not concerned.

`dialogs` is a sequence, since the tray's menu is served by a dialog's loop too and
opens another one inside it (native_window.cpp:643, 1352, 1359). Any of them takes
input; the loop that runs is the innermost one's, and a dialog that was saved or
cancelled returns to `ShowSettings` when the loops inside its own have ended
(`DialogReturns`). The main window is disabled when a dialog opens and enabled when
any of them ends (`enabled`; settings_window.cpp:1657, 1667), so rows and stars can be
clicked under an outer dialog that holds a copy of the settings from before. Its save
replaces all of them (native_window.cpp:1378). The properties say what is true
nevertheless:

* `SavedAsShown` compares what is displayed after a return with what the dialog was
  opened with (`base`), not with what the window had come to show meanwhile: a dialog
  puts its own draft in force and no other one's.
* `UnstarredStays` is of stars taken away before a dialog opened; a dialog that was
  open already gives its copy of the star back (`DialogReturns` drops it from the
  history). What was clicked under an outer dialog is lost with its save, as in the
  code (section 6).

The ghosts of a dialog are `base`, the stars gone when it opened (`unstarred`), that
the user changed nothing in it (`quiet`), that the sensors kept their places
(`steady`), and that its draft came from a file (`imported`).

### 2.10 The unions

The modules that `MCProviders` and `MCDesktop` bring together share no state: the
providers hand their readings to a caller that does not feed anything back, and
the four parts of the desktop meet in values only. A product of their states
would show nothing more, so a behaviour moves one part, chosen in the initial
state, and leaves the others as they began. The properties are conjunctions of
the parts' own.

## 3. What the runs check

A property with parts is named first, its parts after the colon.

| Run | Question | Bounds and why they suffice |
|---|---|---|
| `SensorBridge` | `TakenIsWhole`, `ImplementsBoard`: can a copy mix publications; `NeverShowsDeadService`, `StampsMoveForward`: can old data pass for live data | two prefix cells and one slot, counts 0 and 1, two publications, two incarnations: a tear needs two publications, a left-over slot a shorter snapshot after a longer one, a restart two incarnations. `MaxAge` of one tick and three ticks: fresh, just stale and beyond. One attempt to copy: a second is the first again. The theorems lift all bounds. |
| `ControlPipe` | `ChannelServesDesktop`: `ControlTypeOK`, `SteadyRequestArrives`; `SilentDesktopExpires` | one game: the channel carries any value alike, and no request is told from the request for it. The periods and limits are the code's at the fastest and the slowest interval, in ticks of five seconds. |
| `FpsCapture` | `StatisticsAreOfOneStream`: `TypeOK`, `OneStream`, `LowIsOfHistory`; `HistoryIsOfTarget`, `StopEnds` | two games and two chains, two streams, two presents a window: enough for "more than twice as often" to hold and to fail. |
| `SensorWorker` | `PauseIsObserved`: `TypeOK`, `PauseStopsPublishing`, `OneStaleSnapshot`; `NoSnapshotLost`, `ExtremaMatchSession`, `OsdHiddenUntilServed`, `ResumeIsServed`, `ResetIsHonoured`, `CloseTerminates` | two readings: a new minimum or maximum is told from an old one. A queue of one: it can be full. |
| `SensorWorkerFresh` | what a test says of a resume | violated, see 6 |
| `UpdateFlow` | `CompletionsAreServed`: `TypeOK`, `ResultsArrive`; `DownloadIsChosen`, `OneHandoff` | two versions: what is offered, chosen and skipped may differ. The user opens a dialog of his own accord while none is open; checks that he asks for in it, completions and refusals open prompts and notices on top of that. |
| `UpdateFlowEnd` | `CloseEnds`, `ComesBack` | one version and one dialog of the user's, as liveness costs more; a notice or prompt over it is still reached. |
| `UpdateFlowSkip` | what a test says of skipped versions | violated, see 6 |
| `Providers` | `ResourcesAreReturned`: mutexes, chip, drivers and libraries; `ReadingsAreSound`: recent, of the own page, no share above the whole; `DrivesAreFollowed`; `CardsAreIdentified`: the memory of the same card, every card once; `EntryIsTrue`; `CallEnds`, `UsageIsSinceLastQuery`, `StopIsHonoured` | one register of the board and two seconds: a refresh that fails after one that succeeded. Two slots and seven ticks for intervals of 3 and 2: each clock resets the other. Two processors whose counters reach 1: both directions and no change. Two cards of each maker, three adapters, two records: two orders, a card listed twice, a list that is full. Two queries of the setup: the last and one before it. |
| `Desktop` | `GraphIsTrue`: ring, gaps, units, current values; `DisplayIsConsistent`: nothing twice, the mark is true, stars stay away, a row each; `ClickToggles`, `SavedAsShown`; `NothingLostSilently`, `FlushedAtExit`, `CloseEnds`; `DownloadIsSound`: what runs, what is complete, what is left | rings of two samples in windows of three and four ticks: full before and after it ages. Seven sensors of all kinds in two snapshots with different places and the empty one, at most three pins, two sources and three rows of the tray: full lists, a sensor without a reading, one that is gone, a place that another has taken. Three acts of the user: two dialogs inside each other and a click under the outer one, or a change between two others. Four requests to save: one being saved, one waiting, one replacing it, the last at the end. Two builds of two reads: a part, the whole and another build. The theorems lift the bounds of all four. |
| `GpuZero` | what a document says of missing hardware | violated, see 6 |
| `SettingsEarly` | what the release notes say of an early dialog | violated, see 6 |

`ProvidersTypeOK` and `DesktopTypeOK` are the parts' type invariants. Every
property has a mutant (`Mutant:` in the modules, `mutants` in `PROJECT.json`): a
plausible slip in the code under which TLC finds the property violated.

Deadlock is checked in `ControlPipe`, `FpsCapture`, `Providers`, `Desktop`,
`GpuZero` and `SettingsEarly`, where something can always be called, started or
pressed again. It is not in `SensorBridge` (the bounds on time, publications and
restarts run out) nor in the runs of `SensorWorker` and `UpdateFlow` (the process
ends).

## 4. Fairness

* `SensorWorker`: weak fairness of the thread's step as a whole, since the
  scheduler runs it and each of its waits has a timeout or, while paused, a
  condition that is checked under the mutex its writers hold; of
  `HandleSnapshot`, since the message loop serves its queue; and of `Join`, which
  follows the end of the loop. Nobody is required to suspend, resume, ask for a
  reset or close the window.
* `FpsCapture`: weak fairness of the reader and of the two steps of `Stop` (its
  wait for PresentMon has a timeout, after which the process is terminated). The
  game, PresentMon and the calls of `SetTarget` owe nothing: the reader may stay
  in its read forever unless the pipe breaks.
* `SettingsWriter`: weak fairness of the thread's step as a whole (its wait wakes
  up for a request and for a stop, and file operations return) and of the
  two steps of the destructor. Requests, crashes and restarts owe nothing.
* `UpdateFlow`: weak fairness of the work thread (its network calls have
  timeouts), of the handling of posted messages and of closing, of the end of a
  loop and of the process, and of the updater's two steps. The user answers
  nothing and opens nothing unless he likes, which is why `CloseEnds` says nothing
  of a prompt that is left open.
* `PrivilegedSensors`: weak fairness of the steps of a call under way
  (`PrivFairness`): each of its waits has a timeout and each access returns.
  Nobody has to call it, and the other program owes nothing.
* `ServiceHost`: weak fairness of the main thread, of the control handler and of
  the setup's steps (`HostFairness`): each turn of the collector's loop and each
  wait of the setup ends. The manager, users and a shutdown owe nothing.
* `SensorBridge` and `ControlPipe` need none. The control channel's progress is
  stated with ticks, and what is assumed is in the guard of `Tick`: in five
  seconds each loop turns at least as often as its longest wait allows.

## 5. What is proved

`SensorBridge_proofs` proves, for every set of slots, every age limit and number
of attempts, and without using the bounds on time, captures and restarts:

* `TypeCorrect`, the type invariant;
* `CopiesAreWhole`, that is `TakenIsWhole`;
* `DeadServiceIsNotShown`, that is `NeverShowsDeadService`;
* `StampsAreMonotone`, that is `StampsMoveForward`;
* `BridgeImplementsBoard`, the refinement of `SnapshotBoard`.

The only assumption is `BridgeAssumption`, the types of the constants.

*The argument.* `TakenIsWhole` is not inductive: it says nothing of a copy under
way. `WriterInv` says what the section holds when the counter is even (one whole
snapshot) and odd (the cells already written are of the current one). `ReaderInv`
says that, as long as the counter has not moved since it was read, what has been
copied is still what the section holds; the parity of the counter and its
monotonicity between two `Initialize` carry this over every step of the service.
When `ReadAfter` finds the counter unmoved, the copy is a piece of a whole
section and so whole. For the ages, `StampInv` orders the stamps of the section,
the buffer, the screen and the last capture, zero excepted; `Fresh` rejects zero,
which is what makes the order strict enough. The refinement needs `IdInv` as
well: what is about to be published is newer than what the section holds.

Of `ControlPipe` it proves, for any games, periods and limits:

* `ControlTypeCorrect`, that is `ControlTypeOK`;
* `SilenceReleasesGame`, that is `SilentDesktopExpires`;
* `SteadyDesktopServed`, that is `ChannelServesDesktop`, under the hypothesis
  `FirstListen = "listening"`, without which it is false (section 2.2).

`ControlAssumption` is the types of the constants. `TimingAssumption` is what the
code has of them: the service's limit is three polls of the desktop and not less
than 15 seconds, and a request is expected after two polls and three ticks.

*The argument.* Nothing that is true of one state says when a request arrives, so
the proof counts. `Place` is where the request is: in the pipe, before an open
pipe, before one that the service has yet to open, or whose last end it has yet to
close, and so on. `Wait` bounds the ticks until it is read from there, given when
the two ends poll next. `WaitSteps` says that a poll of either end moves the
request to a place from which the wait is no longer, and a tick makes it shorter
by one. `SteadyInv` then says that a steady request either has time left to arrive
(`Arriving`), or is in effect and will be renewed before it expires (`Kept`).
`SilentInv` says that what a silent desktop left in the pipe is read within a
tick.

`Service_proofs` proves of `PrivilegedSensors`, for any intervals and any number
of registers, and without using the bound on time: `PrivTypeCorrect`;
`RegistersAreShared` (no mutex is kept between calls, nothing is open of a
provider that cannot be used, the chip is left as found); `MeasuredLastOwnPage`
(what is appended was measured in the last attempt, with the own page selected).
`PrivAssumption` is the types of the constants.

*The argument.* The properties speak of the time between calls, the proof of
every step in one. `PrivIInv` says at each place `at` of the thread: which mutexes
it holds (`HoldInv`), in which mode and with whose page it has the chip
(`ChipInv`), what is open of a provider that is still being initialised
(`OwnedInv`), how old the caches are (`CacheInv`, `ShownInv`), and how many
registers are left to read (`CountInv`). The other program disturbs the page only
with the mutex, or dies with it, which is where `ChipInv` needs `HoldInv`.

Of `ServiceHost` it proves `HostTypeCorrect` and `EntryTrue` (`EntryIsTrue`) from
`HostAssumption`. `ProcessInv` says that a handler at work or a marked entry has a
process, `EventInv` at which places of the main thread the event exists, and
`StateInv` that before `ServiceMain` reports running, and once it has written
stopped, nothing that either thread may still report says running.

`Providers_proofs` proves `MemoryOfSameCard` and `NvReadingsRecent` of
`NvidiaGpu`, for any number of cards in any two orders, from `NvAssumption` and
from `NoCardAssumption`, that no card is called "none". `HandleInv` says that a
record's NVML handle is of its own card or of none, `FreshInv` that nothing is
in the buffer until `Initialize`. It also proves `CardsListedOnce` of `AmdGpu`
(`CardsAreListedOnce`), for any list of adapters, from `AmdAssumption`. There
the records are what a recursive function, the loop over the adapters, gives for
its last argument. `SetInduction` is induction without an operator parameter: a
set of numbers that holds zero and each successor is all of them, since its
complement would have a least member. `LoopExists` uses it to show that there is
such a function, `FoundIsSound` that after each turn `n` the list is `Sound` for
the adapters up to `n`: no identifier twice, and every usable adapter listed
unless the list is full.

Of `StorageSensors` it proves `StoreTypeCorrect` and `DrivesFollowed`
(`DrivesAreFollowed`) from `StorageAssumption`, for any two intervals, whichever
is the longer: `StoreClocksInv` says that no clock is ahead of the time and that a
`Collect` leaves an enumeration behind, `StoreCacheInv` that a cached temperature
is of the last refresh, `FoundInv` that every drive which came before the last
enumeration has a handle. It proves `UsageSinceLastQuery`
(`UsageIsSinceLastQuery`) from `UsageAssumption`, with `KeptInv`: the sample kept
of a processor that was active at the last query is what that query read. Then it
composes: every step of `ProvidersSpec` is a step of one machine that leaves the
variables of the others alone (`StepOfOne`), so the invariants of the six machines
hold together, and with them all that the run `Providers` checks of their states:
`ProvidersTypeCorrect` (`ProvidersTypeOK`), `AllReturned`
(`ResourcesAreReturned`), `ReadingsSound` (`ReadingsAreSound`) and
`CardsIdentified` (`CardsAreIdentified`).

`SensorWorker_proofs` proves, for any readings and any length of the message
queue, from `WorkerAssumption`:

* `PauseObserved`, that is `PauseIsObserved`;
* `NothingLostOnTheWay`, that is `NoSnapshotLost`;
* `ExtremaAreOfSession`, that is `ExtremaMatchSession`;
* `HiddenUntilServed`, that is `OsdHiddenUntilServed`.

*The argument.* The window sets the thread's flags in the handlers that change its
own state, and nobody else does, which is `FlagInv`. `GrantInv` says that a
snapshot which is being published during a pause was checked before it. The count
of old snapshots needs to know where old values can still be: `StaleInv` says that
they are those of the turn which a resume overtook, with `dirty` telling the next
turn, or the hardware is due to be read before the next one is served.
`SessionInv` is that a session that is not empty has a least and a greatest
reading, from which the extrema after one more reading follow (`MinIs`, `MaxIs`,
`MinOfTwo`, `MaxOfTwo`). `OsdHiddenUntilServed` is an equivalence and inductive as it
stands: the handlers that show the display in a pause are the ones that `overridden`
records.

`FpsCapture_proofs` proves, for any games, swap chains, windows, silences and
counts, from `CaptureAssumption`: `HistoryOfTarget` (`HistoryIsOfTarget`) and
`OneStreamStatistics` (`StatisticsAreOfOneStream`).

*The argument.* `TargetInv`: a reader is of a game, and of the target unless the
loop is in `Stop`, during which there is no target; so what is recorded late by a
reader of the previous game is recorded in a history that `Stop` has yet to clear.
`OriginInv`: the history is of the current stretch of the chain followed, or the
next sample starts another one; a reader that finds its target gone clears that
mark without a sample, and is harmless because it never records again. `StreamInv`
keeps a stream without a chain empty, and `StreamAfterPresent` is the step of the
election: whichever chain takes over, by its count or after a silence, the mark is
set.

`Desktop_proofs` proves of `SettingsWriter`, for every number of requests, with
crashes and restarts:

* `WriterTypeCorrect`, the type invariant;
* `NothingIsLostSilently`, that is `NothingLostSilently`;
* `ExitFlushes`, that is `FlushedAtExit`.

The only assumption is `WriterAssumption`, that the bound is a number.

*The argument.* Both properties speak of the file, but the window decides by
`requested # completed` and by `failed`, and the end of the process follows the
thread. `OrderInv` orders the numbers: what is completed, what is being saved,
what is waiting, what was requested last. `ResultInv` ties the outcome of the
save that is being stored, and of the last one completed, to the file: a success
left its value there, a failure is in `failed` or was told. `WatchInv` says that
while the timer is off and the handler at rest nothing is outstanding, and that a
handler between its two tests has a completed save behind it if it stopped the
timer. `EndInv` says that the thread ends with nothing pending, after the stop.

Of `UpdateDownload` it proves `DownloadTypeCorrect` and `DownloadSound`
(`DownloadIsSound`), for any builds of any length, from `DownloadAssumption`.
`MoveIsVerified` says that what is about to be moved is the whole build of the
manifest unless somebody else removed or exchanged it; `PartialHasReason` ties a
`.partial` file to a download under way, an end of the process or a removal that
failed.

Of `GraphHistory` it proves `GraphTypeCorrect` and `GraphShowsTruth`
(`GraphIsTrue`), for any sensors and units, rings of any size, any windows and any
two intervals, from `GraphAssumption`. That the refresh interval is not zero is
part of it: the code keeps it between 50 and 1000 milliseconds
(app_settings.cpp:169).

*The argument.* `RingIsTheWindow` compares two sets and is not inductive. `Window`
is: it says of each sample taken that it is in the ring, or too old, or older than
all of a full ring. `CellOf` and `CellsDiffer` say where the samples of a ring lie
when it wraps; with them `AgedRing` shows that ageing drops a beginning of the
ring (`Dropped`) and nothing else, and `AppendedSeries` that a sample written to a
ring with room (`Roomy`), possibly made by dropping the oldest, disturbs no other.
`RingHoldsWindow` gets the property back from `Window` by counting. For the line,
`Joined` says that a series whose next sample would be joined ends at the last
sampling, and `GraphClocks` that the last snapshot followed it within a refresh.
An `Outage` would have marked the gap, so the two samples are closer than the two
intervals together. `SeriesOK` adds that a ring that is not empty is of the sensor
now configured in its place and of the first one's unit.

`UpdateFlow_proofs` proves of `UpdateFlow`, for any versions and any number of
dialogs over one another, from `FlowAssumption`:

* `CompletionsServed`, that is `CompletionsAreServed`;
* `DownloadsAreChosen`, that is `DownloadIsChosen`;
* `HandedOffOnce`, that is `OneHandoff`.

*The argument.* A version is chosen in a prompt, and downloaded after the prompt's
loop has ended, or when the prompt under which other dialogs stand ends with them.
So `StackOK` says of each dialog on the stack that its answer is one of its kind
and that a prompt answered with "Update now" is for a version that was chosen;
`DialogEnds`, `DestroyedDialogs` and `LeftDialog` carry it over the ends of loops
and windows. `WorkOK` says that one operation is finished, stored, posted and
handled before the next begins, and that its result is there until then.
`ClosingOK` says that once an updater was started the messages that close the
windows are queued, the main window's last, which is why no further completion is
handled.

`SettingsDialog_proofs` proves of `SettingsDialog` and `SensorDisplay`, for any
sensors and sections, any layouts of the snapshots, any settings a file may
hold and any number of dialogs inside each other, without using the bound on what
the user does:

* `DialogTypeCorrect`, that is `DialogTypeOK`: no list has a sensor twice or is
  longer than the code's limits, and the order lists hold no frame rate;
* `DisplayConsistency`, that is `DisplayIsConsistent`;
* `ClicksToggle`, that is `ClickToggles`;
* `SavingKeepsShown`, that is `SavedAsShown`.

*The argument.* It has three layers.

1. *What the loops compute.* `Iteration` gets the recursive function from its two
   equations, and `SetInduction` the facts on `Picked`, `Kept`, `Deduped` and
   `AddIds`: `PickedPlaces` says that the elements of the result are those at the
   places picked, in their order; the others (`KeptElements`, `KeptTwice`,
   `KeptOfBoth`, ...) follow from it.
2. *What the views show.* `ItemElements` says which sensors are on the display as
   a set, whatever the order: those with a reading that are a frame rate switched
   on, the first of a chosen category, or pinned. `SectionElements`, `ViewIsLoop`
   and `ViewElements` say the same of the rows of the table, by induction over the
   sections; `RowsFit` counts them against the array.
3. *What the handlers preserve.* `DialogIInv` is `WindowOK`, the types of the
   window's state and that stars taken away are gone from its favourites, and for
   each of the open dialogs, whichever loop runs, `DialogInv`. That has four parts.
   `DialogOK`: the dialog is of its types and its list holds no position twice.
   `DraftStars`: a star that was gone when the dialog opened is in no favourites of
   its draft, where the defaults are initialised, which is why none is given again; a
   dialog that imported a file is exempt, and its return starts the history anew.
   `QuietInv`: a dialog in which nothing was changed, over sensors that stayed where
   they were, has the list of those sensors, the entries chosen and the boxes of the
   frame rates ticked that the settings said with which it opened. `SavedInv`: a
   dialog that was saved, but still waits for a loop inside its own, holds what its
   controls said. `QuietSave` turns these into the pins that `ReadControls` makes
   (`PinnedAreFew` bounds them), and `OrderObeyed` says that a sort by the order
   which was read from the list gives the list's order back. Every part speaks of one
   dialog and its own past, so a step of one, or of the window under them, carries
   over all of them, and a return leaves the parts of those that are left.

`Desktop_proofs` then composes the four machines of the run `Desktop`: every step
is one of a single machine that leaves the others alone (`DesktopStepOfOne`), so
their invariants hold together, and with them `DesktopTypeCorrect`
(`DesktopTypeOK`).

*Model-checked only*: liveness, that is `StopEnds`, `ResumeIsServed`,
`ResetIsHonoured`, `CloseTerminates`, `CloseEnds` (of the update's dialogs and of
the writer), `ComesBack`, `CallEnds` and `StopIsHonoured`: fairness and `ENABLED`
are out of the prover's reach. Every invariant and every action property of the
runs that pass is stated by a theorem. The library's theorems on induction take an
operator parameter, which none of the provers can instantiate; where a proof needs
induction it is over a set of numbers, as above. No module declares a `RECURSIVE`
operator.

## 6. Where code and text disagree

* `SensorWorkerFresh`: src/tests/ui_smoke_tests.cpp:483 says that a resume waits
  for fresh telemetry before restoring the OSD. The window ends the wait at the
  first snapshot message (native_window.cpp:691), which may be of values
  collected before the suspend.
* `UpdateFlowSkip`: src/tests/ui_smoke_tests.cpp:355 has the prompt offer "never
  for that version". `ShowSettings` assigns back a copy of the settings taken
  before its dialog opened (native_window.cpp:1378). Check from the dialog, skip
  the version in the prompt over it, save the dialog: the skip is gone.
* `GpuZero`: docs/SECOND_PC_VALIDATION.md:38 says that a missing capability is
  omitted and never replaced by zero. The thermal channels that `Collect` reads
  are fixed (nvidia_gpu_provider.cpp:359), whether or not the mask that
  `Initialize` found covers them; a channel that is not served is left at zero,
  which is plausible (line 162) and shown.
* `SettingsEarly`: RELEASE_NOTES_2.0.6.md:11 says that the selections survive a
  dialog opened before the first snapshot. `ReadControls` gives up the categories
  in any case (settings_window.cpp:901) and makes pins of them only if the list
  has entries (line 955): the pins survive, the categories do not.

Four more are in the models without a run of their own.

* src/tests/ui_smoke_tests.cpp:483 also has the OSD restored after the wait only.
  A click on a row (native_window.cpp:1167) and a saved settings dialog (line 1382)
  call `OsdWindow::ApplySettings`, which shows it before that if `show_osd` says so
  (osd_window.cpp:117). `OsdHiddenUntilServed` therefore excepts these acts, and
  no other (`overridden` of `SensorWorker`).
* src/tests/ui_smoke_tests.cpp:494 speaks of a modal settings window and checks that
  the main window is disabled under it. A second one, opened from the tray, enables the
  main window when it ends (settings_window.cpp:1667), with the first still open; what
  is clicked then is lost when that one is saved, a star taken away included
  (`enabled` and `DialogReturns` of `SettingsDialog`).
* The comment at sensor_bridge.cpp:267 says that queued bytes are kept alive
  until the service reads them. In `ControlPipe` a second poll before that loses
  both; `SteadyRequestArrives` shows that repetition makes up for it.
* src/tests/updater_recovery_tests.cpp:65 says that a failed hand-off relaunches
  the application. When the application takes longer than two minutes to end, the
  updater gives up (updater_main.cpp:72) before it has set up its recovery.
  `ComesBack` is therefore stated of an updater that saw the application end.

## 7. Plan

Done, in this order: `SensorBridge` with `SnapshotBoard` and its proofs,
`ControlPipe`, `FpsCapture`, `SensorWorker`, `SettingsWriter` with its proofs,
`UpdateFlow`; then the providers and the service host with their proofs and
their composition, the graph, the views and the settings dialog, the
download with its proofs, the proofs of `SensorWorker` and `FpsCapture`, those
of `ControlPipe`, `UpdateFlow` and `GraphHistory`, and those of `SettingsDialog`
with the views.

Left, in the order of what they would add:

* a composition of `SensorWorker` with `SnapshotBoard`, whose snapshots may be
  old or missing;
* `UpdateFlow` over `UpdateDownload`, with the outcome of a download taken from it;
* the remaining pages of the settings dialog.

## 8. What is not modelled, and why

* *Game detection* is a heuristic over windows and processes; the models accept
  any answer it may give. *The frame-rate probe* is a diagnostic executable that
  the application does not use. *Start-up, registration and migration* are one-shot
  sequential code over the registry and files.
* *Providers*: which registers are read and how their bytes become values; a fan's
  value read in two registers that may change in between; memory and power of
  `SystemPerformanceProvider`, a query each.
* *Telemetry worker*: a start that fails for want of memory, the choice between the
  service and providers of its own, a snapshot that is full at 512 sensors.
* *PresentMon*: the decoding of its text, the flushing of the trace session, the
  clean-up of sessions that an earlier service left; the delay before a capture
  that ended is started again.
* *Service host*: the console modes, the registration's details.
* *Settings*: the text of the file and the normalisation of its values; the pages
  of the dialog other than the sensors'. That a dialog whose snapshot changed may
  pin another sensor than the one that was ticked (settings_window.cpp:960) is in
  `SettingsDialog`; no document promises otherwise, and `SavedAsShown` is stated
  of a dialog during which the sensors kept their places. Message boxes and the file
  chooser of a transfer, which run loops of their own over the dialog, are left out,
  and so is the end of the window under a dialog, which is in `UpdateFlow`; a choice of
  several entries with Shift is several clicks here.
* *Windows*: drawing, layout, palettes, texts, placement, the search in the table,
  the look of the button that starts a check, the first-run dialog, the loop of
  the tray's menu.

Of the modelled parts, the details that are left out are named in section 2.
