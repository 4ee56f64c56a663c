---------------------------- MODULE SettingsWriter ----------------------------
(***************************************************************************)
(* How the desktop's settings reach the disk (app_settings.cpp and the     *)
(* saving half of native_window.cpp): the window thread hands its latest   *)
(* settings to AsyncSettingsWriter, whose thread saves them through a      *)
(* temporary file, and watches with a timer until the save is complete.    *)
(*                                                                         *)
(* Settings are identified by the number of the request that handed them   *)
(* over, which goes on from the settings that were loaded at the start; 0  *)
(* is no settings at all.  requested_ and completed_ count from zero in    *)
(* the code, where only their difference is looked at.                     *)
(***************************************************************************)
EXTENDS Integers

CONSTANT MaxRequests \* bound on the requests

ASSUME WriterAssumption == MaxRequests \in Nat

VARIABLES
  process,   \* the desktop: "up", "ended" or "crashed"
  window,    \* its window: "none", "open" or "destroyed"
  stop,      \* the writer's stop token
  timer,     \* kSettingsWriteTimer is set
  handler,   \* the timer's handler: "idle", or "checked" between its two tests
  requested, \* requested_: what the window thread handed over last
  pending,   \* pending_, 0 if empty
  completed, \* completed_
  failed,    \* failed_
  worker,    \* the writer's thread
  value,     \* what it is saving
  temporary, \* its temporary file: "none", "partial" or "whole"
  success,   \* what its last Save returned
  file,      \* the settings in the file
  asked,     \* ghost: something was saved since the window is open
  told       \* ghost: the user was told that the last save had failed

windowVars == <<window, stop, timer, handler>>
slotVars   == <<requested, pending, completed, failed>>
saveVars   == <<worker, value, temporary, success>>
writerVars == <<process, windowVars, slotVars, saveVars, file, asked, told>>

-----------------------------------------------------------------------------
\* The first process, on a machine without settings.
WriterInit ==
  /\ process = "up" /\ window = "none" /\ stop = FALSE
  /\ timer = FALSE /\ handler = "idle"
  /\ requested = 0 /\ pending = 0 /\ completed = 0 /\ failed = FALSE
  /\ worker = "waiting" /\ value = 0 /\ temporary = "none" /\ success = TRUE
  /\ file = 0 /\ asked = FALSE /\ told = FALSE

\* Mutant: settings that are already waiting are not replaced.
RequestIfEmpty ==
  /\ requested < MaxRequests
  /\ requested' = requested + 1
  /\ pending' = IF pending = 0 THEN requested + 1 ELSE pending
  /\ UNCHANGED <<completed, failed>>

\* Request, under the mutex: the slot holds the latest settings only.
Request ==
  /\ requested < MaxRequests
  /\ requested' = requested + 1 /\ pending' = requested + 1
  /\ UNCHANGED <<completed, failed>>

-----------------------------------------------------------------------------
\* The window thread.

\* The constructor found no settings and migrates those of version 1.  There is
\* no window yet, and no timer.
Migrate ==
  /\ process = "up" /\ window = "none" /\ file = 0 /\ requested = 0
  /\ Request
  /\ UNCHANGED <<process, windowVars, saveVars, file, asked, told>>

OpenWindow ==
  /\ process = "up" /\ window = "none"
  /\ window' = "open"
  /\ UNCHANGED <<process, stop, timer, handler, slotVars, saveVars, file, asked,
                 told>>

SaveSettings ==
  /\ process = "up" /\ window = "open" /\ handler = "idle"
  /\ Request /\ timer' = TRUE /\ asked' = TRUE
  /\ UNCHANGED <<process, window, stop, handler, saveVars, file, told>>

\* Every second: the timer is stopped once nothing is pending any more, ...
CheckPending ==
  /\ process = "up" /\ window = "open" /\ timer /\ handler = "idle"
  /\ timer' = (requested # completed) /\ handler' = "checked"
  /\ UNCHANGED <<process, window, stop, slotVars, saveVars, file, asked, told>>

\* ... and then a failure is taken and told.
TakeFailure ==
  /\ process = "up" /\ handler = "checked"
  /\ handler' = "idle" /\ failed' = FALSE /\ told' = (told \/ failed)
  /\ UNCHANGED <<process, window, stop, timer, requested, pending, completed,
                 saveVars, file, asked>>

\* WM_DESTROY saves once more; the window's timers go with it.
Destroy ==
  /\ process = "up" /\ window = "open" /\ handler = "idle"
  /\ Request /\ window' = "destroyed" /\ timer' = FALSE
  /\ UNCHANGED <<process, stop, handler, saveVars, file, asked, told>>

\* The message loop is over: the writer's destructor asks for a stop ...
RequestStop ==
  /\ process = "up" /\ window = "destroyed" /\ ~stop
  /\ stop' = TRUE
  /\ UNCHANGED <<process, window, timer, handler, slotVars, saveVars, file,
                 asked, told>>

\* ... and joins the thread.
Join ==
  /\ process = "up" /\ stop /\ worker = "ended"
  /\ process' = "ended"
  /\ UNCHANGED <<windowVars, slotVars, saveVars, file, asked, told>>

-----------------------------------------------------------------------------
\* The writer's thread.

\* Mutant: a stop ends the thread whatever is pending.
TakeUnlessStopped ==
  /\ process = "up" /\ worker = "waiting" /\ (pending # 0 \/ stop)
  /\ IF stop
       THEN worker' = "ended" /\ UNCHANGED <<value, pending>>
       ELSE worker' = "opening" /\ value' = pending /\ pending' = 0
  /\ UNCHANGED <<process, windowVars, requested, completed, failed, temporary,
                 success, file, asked, told>>

\* Mutant: the thread waits for settings only.
TakeNeverStopping ==
  /\ process = "up" /\ worker = "waiting" /\ pending # 0
  /\ worker' = "opening" /\ value' = pending /\ pending' = 0
  /\ UNCHANGED <<process, windowVars, requested, completed, failed, temporary,
                 success, file, asked, told>>

\* Wait for settings or a stop; what is pending is saved before it ends.
Take ==
  /\ process = "up" /\ worker = "waiting" /\ (pending # 0 \/ stop)
  /\ IF pending = 0
       THEN worker' = "ended" /\ UNCHANGED <<value, pending>>
       ELSE worker' = "opening" /\ value' = pending /\ pending' = 0
  /\ UNCHANGED <<process, windowVars, requested, completed, failed, temporary,
                 success, file, asked, told>>

\* Save returned.
Return(result) == worker' = "saved" /\ success' = result

\* Save truncates or creates the thread's temporary file.
OpenTemporary ==
  /\ process = "up" /\ worker = "opening"
  /\ \/ temporary' = "partial" /\ worker' = "writing" /\ UNCHANGED success
     \/ UNCHANGED temporary /\ Return(FALSE)
  /\ UNCHANGED <<process, windowVars, slotVars, value, file, asked, told>>

\* It is written and flushed; if that fails it is left as it is.
WriteTemporary ==
  /\ process = "up" /\ worker = "writing"
  /\ \/ temporary' = "whole" /\ worker' = "replacing" /\ UNCHANGED success
     \/ UNCHANGED temporary /\ Return(FALSE)
  /\ UNCHANGED <<process, windowVars, slotVars, value, file, asked, told>>

\* It replaces the file in one step, or it is deleted.
Replace ==
  /\ process = "up" /\ worker = "replacing"
  /\ temporary' = "none"
  /\ \/ file' = value /\ Return(TRUE)
     \/ UNCHANGED file /\ Return(FALSE)
  /\ UNCHANGED <<process, windowVars, slotVars, value, asked, told>>

\* Mutant: the save is marked completed before its failure is stored.
StoreCompletedFirst ==
  /\ process = "up"
  /\ \/ /\ worker = "saved" /\ worker' = "stored"
        /\ completed' = value /\ UNCHANGED <<value, failed, told>>
     \/ /\ worker = "stored" /\ worker' = "waiting" /\ value' = 0
        /\ failed' = ~success /\ told' = FALSE /\ UNCHANGED completed
  /\ UNCHANGED <<process, windowVars, requested, pending, temporary, success,
                 file, asked>>

\* The result of the save is stored first, and then that it is completed.
Store ==
  /\ process = "up"
  /\ \/ /\ worker = "saved" /\ worker' = "stored"
        /\ failed' = ~success /\ told' = FALSE /\ UNCHANGED <<value, completed>>
     \/ /\ worker = "stored" /\ worker' = "waiting" /\ value' = 0
        /\ completed' = value /\ UNCHANGED <<failed, told>>
  /\ UNCHANGED <<process, windowVars, requested, pending, temporary, success,
                 file, asked>>

-----------------------------------------------------------------------------
\* The process is killed, at any point.  Its temporary file is never used
\* again: it carries the number of the process and of the thread.
Crash ==
  /\ process = "up"
  /\ process' = "crashed"
  /\ UNCHANGED <<windowVars, slotVars, saveVars, file, asked, told>>

\* A new process loads the file.
Restart ==
  /\ process # "up"
  /\ process' = "up" /\ window' = "none" /\ stop' = FALSE
  /\ timer' = FALSE /\ handler' = "idle"
  /\ requested' = file /\ pending' = 0 /\ completed' = file /\ failed' = FALSE
  /\ worker' = "waiting" /\ value' = 0 /\ temporary' = "none"
  /\ success' = TRUE /\ asked' = FALSE /\ told' = FALSE
  /\ UNCHANGED file

WindowNext ==
  \/ Migrate \/ OpenWindow \/ SaveSettings \/ CheckPending \/ TakeFailure
  \/ Destroy \/ RequestStop \/ Join

WorkerNext ==
  \/ Take \/ OpenTemporary \/ WriteTemporary \/ Replace \/ Store

WriterNext == WindowNext \/ WorkerNext \/ Crash \/ Restart

\* The thread runs and the file system answers; the window thread comes to
\* the end of its loop once the window is gone.
Fairness == WF_writerVars(WorkerNext) /\ WF_writerVars(RequestStop) /\ WF_writerVars(Join)

WriterSpec == WriterInit /\ [][WriterNext]_writerVars /\ Fairness

-----------------------------------------------------------------------------
WriterTypeOK ==
  /\ process \in {"up", "ended", "crashed"}
  /\ window \in {"none", "open", "destroyed"}
  /\ stop \in BOOLEAN /\ timer \in BOOLEAN /\ failed \in BOOLEAN
  /\ success \in BOOLEAN /\ asked \in BOOLEAN /\ told \in BOOLEAN
  /\ handler \in {"idle", "checked"}
  /\ worker \in {"waiting", "opening", "writing", "replacing", "saved",
                 "stored", "ended"}
  /\ requested \in 0 .. MaxRequests /\ pending \in {0, requested}
  /\ completed \in 0 .. requested
  /\ value \in 0 .. MaxRequests /\ file \in 0 .. MaxRequests
  /\ temporary \in {"none", "partial", "whole"}

\* The window thread stops watching a save only when the latest settings are
\* in the file or the user has been told that they are not.  The settings
\* migrated before there was a window are not watched.
NothingLostSilently ==
  window = "open" /\ asked /\ ~timer /\ handler = "idle"
    => file = requested \/ told

\* An orderly end saves the latest settings, as the comment in the writer's
\* destructor says, unless that last save fails; a request that arrived
\* during a save is not forgotten.
FlushedAtExit == process = "ended" => file = requested \/ ~success

\* Once the window is gone the process ends: the writer's wait has no timeout.
CloseEnds == window = "destroyed" ~> process # "up"
=============================================================================
