---------------------------- MODULE SensorWorker ----------------------------
(***************************************************************************)
(* The desktop process: the telemetry thread (SensorWorker::Run), the      *)
(* window thread that configures, pauses, resumes and stops it             *)
(* (NativeWindow), the store that hands the latest snapshot over, and the  *)
(* queue of snapshot messages between the two.                             *)
(*                                                                         *)
(* A snapshot is reduced to what the protocol is about: whether its        *)
(* hardware values were collected since the machine last resumed, and one  *)
(* reading with its session minimum and maximum.  Of the configuration the *)
(* loop branches on the pause, on the reset at a game launch and on the    *)
(* revision, of which only its difference from the applied one matters:    *)
(* the flag dirty.  Intervals are left out (a wait may end at any time),   *)
(* and with them the period of the automatic reset (it may have elapsed).  *)
(***************************************************************************)
EXTENDS Integers, FiniteSetsExt

CONSTANTS Readings,   \* values a sensor may report
          QueueLimit  \* bound on queued snapshot messages, as Windows has one

ASSUME WorkerAssumption ==
  /\ Readings \subseteq Int /\ Readings # {} /\ IsFiniteSet(Readings)
  /\ QueueLimit \in Nat \ {0}

VARIABLES
  pause,          \* configuration_.suspended
  onLaunch,       \* configuration_.reset_min_max_on_game_launch
  dirty,          \* configuration_.revision # applied_revision
  resetRequest,   \* reset_history_requested_
  stop,           \* the stop token
  worker,         \* where the thread is
  turn,           \* what this turn of its loop works with
  previousGame,   \* previous_game_target_active
  due,            \* next_hardware_refresh has been cleared
  hardware,       \* last_hardware_snapshot
  history,        \* the sensor's entry in history_
  store,          \* SnapshotStore; number is 0 while there is none and tells
                  \* a snapshot from the last one
  queue,          \* snapshot messages in the window's queue
  window,         \* "open", then "destroyed" (WM_DESTROY), then "ended"
  suspended,      \* NativeWindow::suspended_
  resumeWaiting,  \* resume_waiting_for_snapshot_
  showOsd,        \* settings_.show_osd
  osdVisible,     \* OsdWindow::visible_
  shown,          \* ui_snapshot_
  overridden,     \* ghost: the user has shown the OSD since a suspend or a
                  \* resume that no snapshot has served
  granted,        \* ghost: the snapshot had been checked when the pause came
  late,           \* ghost: another one was published during the pause
  stale,          \* ghost: stale publications since the last resume
  session         \* ghost: readings published since the last applied reset

configVars == <<pause, onLaunch, dirty, resetRequest, stop>>
loopVars   == <<worker, turn, previousGame, due, hardware, history>>
windowVars == <<window, suspended, resumeWaiting, showOsd, osdVisible, shown>>
ghostVars  == <<overridden, granted, late, stale, session>>
vars == <<configVars, loopVars, store, queue, windowVars, ghostVars>>

-----------------------------------------------------------------------------
NoReading  == [seen |-> FALSE, minimum |-> 0, maximum |-> 0]
NoSnapshot == [fresh |-> FALSE, number |-> 0]
NoTurn     == [onLaunch |-> FALSE, game |-> FALSE]

\* Mutant: a new entry starts from zero.
WidenedFromZero(h, r) ==
  [seen |-> TRUE, minimum |-> Min({h.minimum, r}), maximum |-> Max({h.maximum, r})]

\* Mutant: the maximum is taken when the entry is made and not widened.
WidenedDownOnly(h, r) ==
  IF h.seen THEN [h EXCEPT !.minimum = Min({@, r})]
            ELSE [seen |-> TRUE, minimum |-> r, maximum |-> r]

\* ApplyHistory, for one sensor.
Widened(h, r) ==
  IF h.seen THEN [h EXCEPT !.minimum = Min({@, r}), !.maximum = Max({@, r})]
            ELSE [seen |-> TRUE, minimum |-> r, maximum |-> r]

Init ==
  /\ pause = FALSE /\ onLaunch \in BOOLEAN /\ dirty = TRUE
  /\ resetRequest \in BOOLEAN /\ stop = FALSE
  /\ worker = "top" /\ turn = NoTurn /\ previousGame = FALSE /\ due = TRUE
  /\ hardware = [fresh |-> FALSE, reading |-> CHOOSE r \in Readings : TRUE]
  /\ history = NoReading /\ store = NoSnapshot /\ queue = 0
  /\ window = "open" /\ suspended = FALSE /\ resumeWaiting = FALSE
  /\ showOsd \in BOOLEAN /\ osdVisible = showOsd /\ shown = NoSnapshot
  /\ overridden = FALSE /\ granted = FALSE /\ late = FALSE /\ stale = 0
  /\ session = {}

-----------------------------------------------------------------------------
\* The telemetry thread.

\* Mutant: a new revision leaves the hardware's deadline alone.
ReadConfigurationKeepingDeadline ==
  /\ worker = "top"
  /\ IF stop
       THEN worker' = "leaving" /\ UNCHANGED <<turn, dirty>>
       ELSE /\ dirty' = FALSE
            /\ turn' = [NoTurn EXCEPT !.onLaunch = onLaunch /\ ~pause]
            /\ worker' = IF pause THEN "paused" ELSE "collecting"
  /\ UNCHANGED <<pause, onLaunch, resetRequest, stop, previousGame, due,
                 hardware, history, store, queue, windowVars, ghostVars>>

\* The top of the loop: leave if asked to stop, otherwise copy the
\* configuration under its mutex; a new revision makes the hardware due.
ReadConfiguration ==
  /\ worker = "top"
  /\ IF stop
       THEN worker' = "leaving" /\ UNCHANGED <<turn, due, dirty>>
       ELSE /\ due' = (due \/ dirty) /\ dirty' = FALSE
            /\ turn' = [NoTurn EXCEPT !.onLaunch = onLaunch /\ ~pause]
            /\ worker' = IF pause THEN "paused" ELSE "collecting"
  /\ UNCHANGED <<pause, onLaunch, resetRequest, stop, previousGame, hardware,
                 history, store, queue, windowVars, ghostVars>>

\* Mutants: the wait for the end of a pause ignores one of its two causes.
AwaitStopOnly ==
  /\ worker = "paused" /\ stop
  /\ worker' = "top"
  /\ UNCHANGED <<configVars, turn, previousGame, due, hardware, history, store,
                 queue, windowVars, ghostVars>>
AwaitResumeOnly ==
  /\ worker = "paused" /\ ~pause
  /\ worker' = "top"
  /\ UNCHANGED <<configVars, turn, previousGame, due, hardware, history, store,
                 queue, windowVars, ghostVars>>

\* Paused: wait for the pause to be lifted or for a stop.  The condition is
\* checked under the mutex that guards it, so no wakeup is lost.
AwaitResume ==
  /\ worker = "paused" /\ (~pause \/ stop)
  /\ worker' = "top"
  /\ UNCHANGED <<configVars, turn, previousGame, due, hardware, history, store,
                 queue, windowVars, ghostVars>>

\* Look for a game (with FPS disabled there is none), and read the hardware
\* if its deadline has passed or was cleared; otherwise the snapshot repeats
\* the previous hardware values.
Collect ==
  /\ worker = "collecting"
  /\ \E game \in BOOLEAN : turn' = [turn EXCEPT !.game = game]
  /\ \/ \E r \in Readings : hardware' = [fresh |-> TRUE, reading |-> r]
     \/ ~due /\ UNCHANGED hardware
  /\ due' = FALSE /\ worker' = "history"
  /\ UNCHANGED <<configVars, previousGame, history, store, queue, windowVars,
                 ghostVars>>

\* Mutant: the snapshot is published without checking for a pause.
ResetHistoryUnchecked ==
  /\ worker = "history"
  /\ \E elapsed \in BOOLEAN :
       LET launch == turn.onLaunch /\ turn.game /\ ~previousGame
           reset  == resetRequest \/ elapsed \/ launch
       IN  /\ history' = IF reset THEN NoReading ELSE history
           /\ session' = IF reset THEN {} ELSE session
  /\ resetRequest' = FALSE /\ previousGame' = turn.game /\ turn' = NoTurn
  /\ worker' = "publishing"
  /\ UNCHANGED <<pause, onLaunch, dirty, stop, due, hardware, store, queue,
                 windowVars, overridden, granted, late, stale>>

\* Mutant: the request is looked at last, after the automatic resets.
ResetHistoryRequestLast ==
  /\ worker = "history"
  /\ \E elapsed \in BOOLEAN :
       LET launch == turn.onLaunch /\ turn.game /\ ~previousGame
           reset  == elapsed \/ launch \/ resetRequest
       IN  /\ history' = IF reset THEN NoReading ELSE history
           /\ session' = IF reset THEN {} ELSE session
           /\ resetRequest' = (resetRequest /\ (elapsed \/ launch))
  /\ previousGame' = turn.game /\ turn' = NoTurn
  /\ worker' = IF pause \/ stop THEN "top" ELSE "publishing"
  /\ UNCHANGED <<pause, onLaunch, dirty, stop, due, hardware, store, queue,
                 windowVars, overridden, granted, late, stale>>

\* Start a new session of minima and maxima if the user asked for it, a
\* period has elapsed or a game was launched; then, under the mutex, drop the
\* snapshot if a pause or a stop has been requested.
ResetHistory ==
  /\ worker = "history"
  /\ \E elapsed \in BOOLEAN :
       LET launch == turn.onLaunch /\ turn.game /\ ~previousGame
           reset  == resetRequest \/ elapsed \/ launch
       IN  /\ history' = IF reset THEN NoReading ELSE history
           /\ session' = IF reset THEN {} ELSE session
  /\ resetRequest' = FALSE /\ previousGame' = turn.game /\ turn' = NoTurn
  /\ worker' = IF pause \/ stop THEN "top" ELSE "publishing"
  /\ UNCHANGED <<pause, onLaunch, dirty, stop, due, hardware, store, queue,
                 windowVars, overridden, granted, late, stale>>

\* Fold the reading into its session and hand the snapshot over.
Publish ==
  /\ worker = "publishing"
  /\ history' = Widened(history, hardware.reading)
  /\ store' = [fresh |-> hardware.fresh, number |-> IF store.number = 1 THEN 2 ELSE 1]
  /\ worker' = "notifying"
  /\ late' = (late \/ (suspended /\ ~granted)) /\ granted' = FALSE
  /\ stale' = IF hardware.fresh THEN stale ELSE Min({2, stale + 1})
  /\ session' = session \cup {hardware.reading}
  /\ UNCHANGED <<configVars, turn, previousGame, due, hardware, queue,
                 windowVars, overridden>>

\* SnapshotPublished posts a message; a full queue drops it.
Notify ==
  /\ worker = "notifying"
  /\ queue' = Min({QueueLimit, queue + 1}) /\ worker' = "waiting"
  /\ UNCHANGED <<configVars, turn, previousGame, due, hardware, history, store,
                 windowVars, ghostVars>>

\* wait_for: the interval passes, or a new revision or a stop ends it early.
AwaitInterval ==
  /\ worker = "waiting"
  /\ worker' = "top"
  /\ UNCHANGED <<configVars, turn, previousGame, due, hardware, history, store,
                 queue, windowVars, ghostVars>>

\* Release the FPS target, close the providers and the bridge.
Leave ==
  /\ worker = "leaving"
  /\ worker' = "ended"
  /\ UNCHANGED <<configVars, turn, previousGame, due, hardware, history, store,
                 queue, windowVars, ghostVars>>

-----------------------------------------------------------------------------
\* The window thread.

\* PBT_APMSUSPEND: ask for a pause, drop the queued messages, hide the OSD.
Suspend ==
  /\ window = "open" /\ ~suspended
  /\ suspended' = TRUE /\ resumeWaiting' = FALSE
  /\ pause' = TRUE /\ dirty' = TRUE
  /\ queue' = 0 /\ osdVisible' = FALSE
  /\ overridden' = FALSE /\ granted' = (worker = "publishing") /\ late' = FALSE
  /\ UNCHANGED <<onLaunch, resetRequest, stop, loopVars, store, window, showOsd,
                 shown, stale, session>>

\* PBT_APMRESUME*: the queued messages are dropped, the OSD waits for the
\* first snapshot and the pause is lifted, in a new revision of the
\* configuration.  Whatever was collected before is from before the resume.
ResumeWith(revised, visible) ==
  /\ window = "open" /\ suspended
  /\ suspended' = FALSE /\ resumeWaiting' = TRUE
  /\ pause' = FALSE /\ dirty' = revised
  /\ queue' = 0 /\ osdVisible' = visible
  /\ hardware' = [hardware EXCEPT !.fresh = FALSE]
  /\ store' = [store EXCEPT !.fresh = FALSE]
  /\ shown' = [shown EXCEPT !.fresh = FALSE]
  /\ overridden' = FALSE /\ granted' = FALSE /\ late' = FALSE /\ stale' = 0
  /\ UNCHANGED <<onLaunch, resetRequest, stop, worker, turn, previousGame, due,
                 history, window, showOsd, session>>

\* Mutants: the OSD is restored at once; the revision is left alone.
ResumeShowing == ResumeWith(TRUE, showOsd)
ResumeUnrevised == ResumeWith(dirty, FALSE)

Resume == ResumeWith(TRUE, FALSE)

\* The OSD is to be hidden.
Unserved == suspended \/ resumeWaiting

\* HandleSnapshotMessage
HandleSnapshot ==
  /\ window # "ended" /\ queue > 0
  /\ queue' = queue - 1
  /\ IF suspended
       THEN UNCHANGED <<shown, resumeWaiting, osdVisible, overridden>>
       ELSE /\ shown' = store /\ resumeWaiting' = FALSE /\ overridden' = FALSE
            /\ osdVisible' = IF resumeWaiting THEN showOsd ELSE osdVisible
  /\ UNCHANGED <<configVars, loopVars, store, window, suspended, showOsd,
                 granted, late, stale, session>>

\* kCommandToggleOsd
ToggleOsd ==
  /\ window = "open"
  /\ showOsd' = ~showOsd /\ osdVisible' = ~showOsd /\ overridden' = (osdVisible' /\ Unserved)
  /\ UNCHANGED <<configVars, loopVars, store, queue, window, suspended,
                 resumeWaiting, shown, granted, late, stale,
                 session>>

\* kCommandResetMinMax: the request does not wake the thread.
RequestMinMaxReset ==
  /\ window = "open"
  /\ resetRequest' = TRUE
  /\ UNCHANGED <<pause, onLaunch, dirty, stop, loopVars, store, queue,
                 windowVars, overridden, granted, late, stale, session>>

\* HandleContentClick, on a row: its sensor joins or leaves the OSD, whose
\* settings are applied, and with them show_osd, whether or not the window is
\* suspended or waits for a snapshot.  A frame rate's row configures the
\* thread too.  There are rows once there is a snapshot.
ClickRow ==
  /\ window = "open" /\ store.number # 0
  /\ shown' = store /\ osdVisible' = showOsd /\ overridden' = (osdVisible' /\ Unserved)
  /\ (dirty' = dirty \/ dirty' = TRUE)
  /\ UNCHANGED <<pause, onLaunch, resetRequest, stop, loopVars, store, queue,
                 window, suspended, resumeWaiting, showOsd, granted, late,
                 stale, session>>

\* ShowSettings, opening the dialog: the window's snapshot is refreshed, as it
\* is by a click that sets nothing.  Messages are served while it is open, and
\* it may be cancelled.
OpenSettings ==
  /\ window = "open"
  /\ shown' = store
  /\ UNCHANGED <<configVars, loopVars, store, queue, window, suspended,
                 resumeWaiting, showOsd, osdVisible, ghostVars>>

\* ShowSettings, applying the dialog's values.  The three Configure calls are
\* one step: a turn of the loop between two of them is a turn between two
\* applications of the same values.
ApplySettings ==
  /\ window = "open"
  /\ \E show \in BOOLEAN : showOsd' = show /\ osdVisible' = show
  /\ onLaunch' \in BOOLEAN /\ dirty' = TRUE /\ overridden' = (osdVisible' /\ Unserved)
  /\ UNCHANGED <<pause, resetRequest, stop, loopVars, store, queue, window,
                 suspended, resumeWaiting, shown, granted, late, stale,
                 session>>

\* WM_DESTROY asks the thread to stop and does not wait for it.
Destroy ==
  /\ window = "open"
  /\ window' = "destroyed" /\ stop' = TRUE
  /\ UNCHANGED <<pause, onLaunch, dirty, resetRequest, loopVars, store, queue,
                 suspended, resumeWaiting, showOsd, osdVisible, shown,
                 ghostVars>>

\* The message loop is over: Stop joins the thread.
Join ==
  /\ window = "destroyed" /\ worker = "ended"
  /\ window' = "ended"
  /\ UNCHANGED <<configVars, loopVars, store, queue, suspended, resumeWaiting,
                 showOsd, osdVisible, shown, ghostVars>>

-----------------------------------------------------------------------------
WorkerNext ==
  \/ ReadConfiguration \/ AwaitResume \/ Collect \/ ResetHistory
  \/ Publish \/ Notify \/ AwaitInterval \/ Leave

WindowNext ==
  \/ Suspend \/ Resume \/ HandleSnapshot \/ ToggleOsd \/ RequestMinMaxReset
  \/ ClickRow \/ OpenSettings \/ ApplySettings \/ Destroy \/ Join

Next == WorkerNext \/ WindowNext

\* The thread runs and its waits end; the window thread serves its queue and
\* joins.  Nobody has to suspend, resume, configure or close anything.
Fairness == WF_vars(WorkerNext) /\ WF_vars(HandleSnapshot) /\ WF_vars(Join)

Spec == Init /\ [][Next]_vars /\ Fairness

-----------------------------------------------------------------------------
TypeOK ==
  /\ {pause, onLaunch, dirty, resetRequest, stop, previousGame, due, suspended,
      resumeWaiting, showOsd, osdVisible, overridden, granted, late} \subseteq BOOLEAN
  /\ worker \in {"top", "paused", "collecting", "history", "publishing",
                 "notifying", "waiting", "leaving", "ended"}
  /\ turn \in [onLaunch : BOOLEAN, game : BOOLEAN]
  /\ hardware \in [fresh : BOOLEAN, reading : Readings]
  /\ history.seen => {history.minimum, history.maximum} \subseteq Readings
  /\ {store, shown} \subseteq [fresh : BOOLEAN, number : 0 .. 2]
  /\ queue \in 0 .. QueueLimit
  /\ window \in {"open", "destroyed", "ended"}
  /\ stale \in 0 .. 2 /\ session \subseteq Readings

\* The check under the mutex is before the publication, not around it: a
\* pause that lands in between is followed by that snapshot and no other.
PauseStopsPublishing == ~late

\* A collection that a suspend and a resume overtook is published
\* once; from then on only values collected after the resume are.
OneStaleSnapshot == stale <= 1

\* What a pause leaves behind, in states of the right types: see the parts.
PauseIsObserved == TypeOK /\ PauseStopsPublishing /\ OneStaleSnapshot

\* No snapshot is lost on the way to the window: if the window does not show
\* the latest one, then a message is queued, the thread is about to post one,
\* or a resume dropped the messages and the thread is about to collect anew.
NoSnapshotLost ==
  (window = "open" /\ ~suspended /\ shown # store) =>
    \/ queue > 0 \/ worker = "notifying"
    \/ resumeWaiting /\ (dirty \/ worker \in {"collecting", "history", "publishing"})

\* What a snapshot reports as minimum and maximum is the range of what was
\* published since the session began, dropped snapshots and pauses included.
ExtremaMatchSession ==
  IF session = {} THEN ~history.seen
  ELSE history = [seen |-> TRUE, minimum |-> Min(session),
                  maximum |-> Max(session)]

\* From a suspend until the resume has been served by a snapshot, the OSD is
\* hidden unless an act of the user has shown it since: the menu, the settings
\* or a click on a row.  Nothing else shows it, whatever messages are queued,
\* and nothing hides again what the user has shown.
OsdHiddenUntilServed == Unserved => (osdVisible <=> overridden)

\* A resume is always served: a snapshot arrives and the OSD is restored.
ResumeIsServed == resumeWaiting ~> (~resumeWaiting \/ window # "open")

\* A request to reset the extrema is honoured although it wakes nobody,
\* unless the machine is suspended first or the window is closed.
ResetIsHonoured == resetRequest ~> (~resetRequest \/ suspended \/ window # "open")

\* Closing the window ends the process: the thread is never left waiting.
CloseTerminates == (window = "destroyed") ~> (window = "ended")

\* What ui_smoke_tests.cpp says of a resume: the OSD is restored with fresh
\* telemetry only.
RestoredWithFreshTelemetry ==
  [][resumeWaiting /\ ~resumeWaiting' /\ osdVisible' => shown'.fresh]_vars
=============================================================================
