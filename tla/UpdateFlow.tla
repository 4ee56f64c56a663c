------------------------------ MODULE UpdateFlow ------------------------------
(***************************************************************************)
(* Updates of the desktop application: the coordinator's work thread and   *)
(* its completion (update_coordinator.cpp), the window that asks for       *)
(* checks and downloads and offers what they find (native_window.cpp),     *)
(* the dialogs it does that in (update_prompt_window.cpp,                  *)
(* settings_window.cpp) and the updater process (updater_main.cpp).        *)
(*                                                                         *)
(* A dialog runs a message loop of its own inside the handler that opened  *)
(* it, so the window thread is a stack of loops: the innermost dispatches  *)
(* every message, whichever window it is for, and the handler goes on only *)
(* when that loop has ended.  Windows are numbered by their place on the   *)
(* stack, the main window is 0.  Delays are abstract: a timer that is set  *)
(* goes off some time.  The settings are reduced to those of updates.      *)
(***************************************************************************)
EXTENDS Integers, Sequences

CONSTANTS
  Versions, \* the releases newer than the one that runs
  MaxFrames \* bound on the dialogs open when the user opens another one

ASSUME FlowAssumption == Versions \subseteq Nat \ {0} /\ MaxFrames \in Nat

VARIABLES
  process,    \* the application: "up", "ended", or "relaunched" by the updater
  window,     \* its main window: "open" or "destroyed"
  quit,       \* PostQuitMessage was called and no loop has taken it
  stack,      \* the dialogs' loops, innermost last
  closing,    \* the windows that WM_CLOSE is posted to
  timer,      \* kStartupUpdateTimer is set
  settings,   \* settings_, what concerns updates
  pending,    \* pending_update_: the version in the tray's menu, 0 if none
  request,    \* kManualUpdateRequestMessage is posted
  work,       \* the work thread
  inProgress, \* update_in_progress
  completion, \* pending_completion
  message,    \* kUpdateCompletedMessage is posted
  updater,    \* the updater: "none", "waiting", "installing", "failed", "done"
  chosen,     \* ghost: the versions that "Update now" was selected for
  never       \* ghost: the version the user chose never to be offered, 0 if none

loopVars   == <<window, quit, stack, closing>>
workVars   == <<work, inProgress>>
resultVars == <<completion, message>>
ghostVars  == <<chosen, never>>
vars == <<process, loopVars, timer, settings, pending, request, workVars,
          resultVars, updater, ghostVars>>

VersionOrNone == Versions \cup {0}
Settings == [skipped : VersionOrNone, automatic : BOOLEAN]

Idle == [kind |-> "none", automatic |-> FALSE, version |-> 0, stage |-> "idle"]
NoCompletion == [status |-> "none", automatic |-> FALSE, version |-> 0]

\* A start with any saved settings; the first check is scheduled.
Init ==
  /\ process = "up" /\ window = "open" /\ quit = FALSE
  /\ stack = <<>> /\ closing = <<>>
  /\ settings \in Settings /\ timer = settings.automatic
  /\ pending = 0 /\ request = FALSE
  /\ work = Idle /\ inProgress = FALSE
  /\ completion = NoCompletion /\ message = FALSE
  /\ updater = "none" /\ chosen = {} /\ never = 0

-----------------------------------------------------------------------------
\* Windows and loops.

Top == stack[Len(stack)]

\* The innermost loop dispatches: it looks at its own flag first.
Dispatching ==
  process = "up" /\ window = "open" /\ (stack # <<>> => ~Top.done)

\* What the user does comes after the messages that are posted already.
AtRest == Dispatching /\ closing = <<>>

\* A dialog disables its owner, no other window.
Enabled(i) ==
  i \in DOMAIN stack /\ stack[i].live /\ \A j \in DOMAIN stack : stack[j].owner # i

\* GetLastActivePopup of the main window: a dialog that can be active or, if
\* there is none, the main window.
Popups ==
  IF \E i \in DOMAIN stack : Enabled(i)
    THEN {i \in DOMAIN stack : Enabled(i)} ELSE {0}

Dialog(kind, owner, version, draft, outcome) ==
  [kind |-> kind, owner |-> owner, version |-> version, draft |-> draft,
   outcome |-> outcome, live |-> TRUE, done |-> FALSE]

NoSettings == [skipped |-> 0, automatic |-> FALSE]

\* The settings dialog works on a copy of the settings.
SettingsDialog == Dialog("settings", 0, 0, settings, "dismissed")

\* Mutant: the outcome of a prompt that nobody answers is to install.
PromptInstalling(owner, version) ==
  Dialog("prompt", owner, version, NoSettings, "install")

\* The outcome of a prompt that nobody answers is to remind later.
Prompt(owner, version) == Dialog("prompt", owner, version, NoSettings, "remind")

Notice(owner) == Dialog("notice", owner, 0, NoSettings, "dismissed")

Exists(i) == IF i = 0 THEN window = "open" ELSE stack[i].live

\* A window and those it owns, directly or not.
Family(i) ==
  LET under[j \in 0 .. Len(stack)] == j = i \/ (j # 0 /\ under[stack[j].owner])
  IN  {j \in DOMAIN stack : under[j]}

\* Mutant: only the buttons of a dialog end its loop.
DestroyedOutside(i, outcome) ==
  [j \in DOMAIN stack |->
     IF j \in Family(i)
       THEN [stack[j] EXCEPT !.live = FALSE, !.done = @ \/ j = i,
                             !.outcome = IF j = i THEN outcome ELSE @]
       ELSE stack[j]]

\* DestroyWindow takes the owned windows along.  The settings dialog ends its
\* loop when it is destroyed; a prompt does so only when it is answered.
Destroyed(i, outcome) ==
  [j \in DOMAIN stack |->
     IF j \in Family(i)
       THEN [stack[j] EXCEPT !.live = FALSE,
                             !.done = @ \/ j = i \/ stack[j].kind = "settings",
                             !.outcome = IF j = i THEN outcome ELSE @]
       ELSE stack[j]]

\* What an answer to each kind of dialog can be, and what closing it is: the
\* close button of a prompt answers with the reminder that is selected.
Answers(kind) ==
  CASE kind = "prompt"   -> {"install", "remind", "skip"}
    [] kind = "settings" -> {"saved", "dismissed"}
    [] kind = "notice"   -> {"dismissed"}

Closed(kind) == IF kind = "prompt" THEN {"remind", "skip"} ELSE {"dismissed"}

-----------------------------------------------------------------------------
\* The work thread.

\* Mutant: a completion that is not consumed yet does not matter.
BeginWorkUnconsumed(kind, automatic, version) ==
  /\ ~inProgress
  /\ inProgress' = TRUE
  /\ work' = [kind |-> kind, automatic |-> automatic, version |-> version,
              stage |-> "working"]

\* BeginWork: one operation at a time, and none before the last completion is
\* consumed.  version is that of the download, or that a check leaves out.
BeginWork(kind, automatic, version) ==
  /\ ~inProgress /\ completion = NoCompletion
  /\ inProgress' = TRUE
  /\ work' = [kind |-> kind, automatic |-> automatic, version |-> version,
              stage |-> "working"]

\* It is refused otherwise, or there is no thread to be had.
RefuseWork == UNCHANGED workVars

Completion(status, version) ==
  [status |-> status, automatic |-> work.automatic, version |-> version]

\* What the server and the network can make of the operation.
Results ==
  IF work.kind = "download"
    THEN {Completion(s, work.version) : s \in {"ready", "failed"}}
    ELSE {Completion("failed", 0), Completion("current", 0)}
         \cup {Completion(IF work.automatic /\ v = work.version
                            THEN "current" ELSE "available", v) : v \in Versions}

FinishWork ==
  /\ process = "up" /\ work.stage = "working"
  /\ completion' \in Results
  /\ work' = [work EXCEPT !.stage = "stored"]
  /\ UNCHANGED <<process, loopVars, timer, settings, pending, request,
                 inProgress, message, updater, ghostVars>>

ClearProgress ==
  /\ process = "up" /\ work.stage = "stored"
  /\ inProgress' = FALSE /\ work' = [work EXCEPT !.stage = "cleared"]
  /\ UNCHANGED <<process, loopVars, timer, settings, pending, request,
                 resultVars, updater, ghostVars>>

\* Mutant: a completion whose message cannot be posted is kept.
PostKeeping ==
  /\ process = "up" /\ work.stage = "cleared"
  /\ work' = Idle
  /\ message' \in {FALSE, window = "open"} /\ UNCHANGED completion
  /\ UNCHANGED <<process, loopVars, timer, settings, pending, request,
                 inProgress, updater, ghostVars>>

\* The message cannot be posted when the window is gone or its queue is full;
\* the completion is dropped then.
Post ==
  /\ process = "up" /\ work.stage = "cleared"
  /\ work' = Idle
  /\ \/ window = "open" /\ message' = TRUE /\ UNCHANGED completion
     \/ completion' = NoCompletion /\ UNCHANGED message
  /\ UNCHANGED <<process, loopVars, timer, settings, pending, request,
                 inProgress, updater, ghostVars>>

-----------------------------------------------------------------------------
\* Messages of the main window, dispatched by the innermost loop.

\* ScheduleAutomaticUpdateCheck, with the settings it finds.
Scheduled(s) == window = "open" /\ s.automatic

StartupTimer ==
  /\ AtRest /\ timer
  /\ \/ BeginWork("check", TRUE, settings.skipped) /\ timer' = FALSE
     \/ RefuseWork /\ timer' = Scheduled(settings)
  /\ UNCHANGED <<process, loopVars, settings, pending, request, resultVars,
                 updater, ghostVars>>

\* "Check for updates" in a settings dialog.
RequestCheck ==
  /\ AtRest /\ ~request /\ Len(stack) <= MaxFrames
  /\ \E i \in Popups \ {0} : stack[i].kind = "settings"
  /\ request' = TRUE
  /\ UNCHANGED <<process, loopVars, timer, settings, pending, workVars,
                 resultVars, updater, ghostVars>>

HandleRequest ==
  /\ Dispatching /\ request
  /\ request' = FALSE
  /\ \/ BeginWork("check", FALSE, 0) /\ UNCHANGED stack
     \/ RefuseWork /\ \E p \in Popups : stack' = Append(stack, Notice(p))
  /\ UNCHANGED <<process, window, quit, closing, timer, settings, pending,
                 resultVars, updater, ghostVars>>

\* HandleUpdateCompletion, by the completion's status.

\* Mutant: after the hand-off only the dialog is closed.
InstallVerifiedClosingPopup(p) ==
  \/ /\ updater' = "waiting"
     /\ closing' = IF p # 0 THEN <<p>> ELSE <<>>
     /\ UNCHANGED stack
  \/ stack' = Append(stack, Notice(p)) /\ UNCHANGED <<updater, closing>>

\* The updater is started and the application closed, or neither.
InstallVerified(p) ==
  \/ /\ updater' = "waiting"
     /\ closing' = IF p # 0 THEN <<p, 0>> ELSE <<0>>
     /\ UNCHANGED stack
  \/ stack' = Append(stack, Notice(p)) /\ UNCHANGED <<updater, closing>>

TellManual(p) ==
  /\ IF completion.automatic THEN UNCHANGED stack
                             ELSE stack' = Append(stack, Notice(p))
  /\ UNCHANGED <<updater, closing>>

Ready(p) ==
  completion.status = "ready" /\ InstallVerified(p)
    /\ UNCHANGED <<pending, timer>>

Failed(p) ==
  completion.status = "failed" /\ TellManual(p) /\ UNCHANGED <<pending, timer>>

\* A skipped version postpones the next check.
Current(p) ==
  /\ completion.status = "current" /\ TellManual(p)
  /\ timer' = IF /\ completion.automatic /\ settings.skipped # 0
                 /\ settings.skipped = completion.version
                THEN Scheduled(settings) ELSE timer
  /\ UNCHANGED pending

\* What an automatic check found is left in the tray; what the user asked for
\* is offered at once.
Available(p) ==
  /\ completion.status = "available"
  /\ IF completion.automatic
       THEN /\ pending' = completion.version /\ timer' = Scheduled(settings)
            /\ UNCHANGED stack
       ELSE /\ pending' = 0 /\ stack' = Append(stack, Prompt(p, completion.version))
            /\ UNCHANGED timer
  /\ UNCHANGED <<updater, closing>>

HandleCompletion ==
  /\ AtRest /\ message
  /\ message' = FALSE /\ completion' = NoCompletion
  /\ \E p \in Popups : Ready(p) \/ Failed(p) \/ Current(p) \/ Available(p)
  /\ UNCHANGED <<process, window, quit, settings, request, workVars, ghostVars>>

\* The notice that settings could not be saved belongs to the main window,
\* whatever else is open.
TellSaveFailure ==
  /\ AtRest /\ Len(stack) < MaxFrames
  /\ stack' = Append(stack, Notice(0))
  /\ UNCHANGED <<process, window, quit, closing, timer, settings, pending,
                 request, workVars, resultVars, updater, ghostVars>>

-----------------------------------------------------------------------------
\* The user, at the tray icon and in the dialogs that are enabled.

OpenSettings ==
  /\ AtRest /\ Len(stack) < MaxFrames
  /\ stack' = Append(stack, SettingsDialog)
  /\ UNCHANGED <<process, window, quit, closing, timer, settings, pending,
                 request, workVars, resultVars, updater, ghostVars>>

\* PromptForPendingUpdate, from the notification or the menu.
OpenPending ==
  /\ AtRest /\ Len(stack) < MaxFrames /\ pending # 0
  /\ \E p \in Popups : stack' = Append(stack, Prompt(p, pending))
  /\ pending' = 0
  /\ UNCHANGED <<process, window, quit, closing, timer, settings, request,
                 workVars, resultVars, updater, ghostVars>>

Answer ==
  /\ AtRest
  /\ \E i \in Popups \ {0} : \E a \in Answers(stack[i].kind) :
       /\ stack' = Destroyed(i, a)
       /\ chosen' = IF a = "install" THEN chosen \cup {stack[i].version} ELSE chosen
  /\ UNCHANGED <<process, window, quit, closing, timer, settings, pending,
                 request, workVars, resultVars, updater, never>>

Exit ==
  /\ AtRest
  /\ closing' = <<0>>
  /\ UNCHANGED <<process, window, quit, stack, timer, settings, pending,
                 request, workVars, resultVars, updater, ghostVars>>

\* WM_CLOSE of a dialog, unless it is gone.
CloseDialog ==
  /\ Dispatching /\ closing # <<>> /\ Head(closing) # 0
  /\ closing' = Tail(closing)
  /\ IF Head(closing) \in DOMAIN stack /\ stack[Head(closing)].live
       THEN \E a \in Closed(stack[Head(closing)].kind) :
              stack' = Destroyed(Head(closing), a)
       ELSE UNCHANGED stack
  /\ UNCHANGED <<process, window, quit, timer, settings, pending, request,
                 workVars, resultVars, updater, ghostVars>>

\* WM_CLOSE and WM_DESTROY of the main window: its timers and the messages
\* posted to it go with it.
CloseWindow ==
  /\ Dispatching /\ closing # <<>> /\ Head(closing) = 0
  /\ window' = "destroyed" /\ quit' = TRUE /\ closing' = <<>>
  /\ stack' = Destroyed(0, "dismissed")
  /\ timer' = FALSE /\ request' = FALSE /\ message' = FALSE
  /\ UNCHANGED <<process, settings, pending, workVars, completion, updater,
                 ghostVars>>

-----------------------------------------------------------------------------
\* The end of a loop.

SetSkipped(version) ==
  /\ settings' = [settings EXCEPT !.skipped = version]
  /\ never' = version

\* ShowSettings goes on: the copy replaces the settings, with what the user
\* changed in the dialog.
AfterSettings(rest) ==
  /\ stack' = rest
  /\ IF Top.outcome = "saved"
       THEN /\ settings' \in {[Top.draft EXCEPT !.automatic = a] : a \in BOOLEAN}
            /\ timer' = Scheduled(settings')
       ELSE UNCHANGED <<settings, timer>>
  /\ UNCHANGED <<workVars, never>>

\* PromptForUpdate goes on; its notice has the owner the prompt had.
AfterPrompt(rest) ==
  \/ /\ Top.outcome \in {"remind", "skip"}
     /\ SetSkipped(IF Top.outcome = "skip" THEN Top.version ELSE 0)
     /\ timer' = Scheduled(settings)
     /\ stack' = rest /\ UNCHANGED workVars
  \/ /\ Top.outcome = "install"
     /\ SetSkipped(0) /\ UNCHANGED timer
     /\ \/ BeginWork("download", FALSE, Top.version) /\ stack' = rest
        \/ /\ RefuseWork
           /\ stack' = IF Exists(Top.owner)
                         THEN Append(rest, Notice(Top.owner)) ELSE rest

AfterNotice(rest) ==
  stack' = rest /\ UNCHANGED <<settings, timer, workVars, never>>

\* A dialog's loop ends when it is done, or when it takes WM_QUIT, which is
\* delivered once no other message is left.
Leave ==
  /\ process = "up" /\ stack # <<>>
  /\ Top.done \/ quit
  /\ quit' = (quit /\ Top.done)
  /\ LET rest == SubSeq(stack, 1, Len(stack) - 1)
     IN  CASE Top.kind = "settings" -> AfterSettings(rest)
           [] Top.kind = "prompt"   -> AfterPrompt(rest)
           [] Top.kind = "notice"   -> AfterNotice(rest)
  /\ UNCHANGED <<process, window, closing, pending, request, resultVars,
                 updater, chosen>>

\* The main loop takes WM_QUIT; the process ends and takes its threads along.
EndProcess ==
  /\ process = "up" /\ stack = <<>> /\ quit
  /\ process' = "ended" /\ quit' = FALSE
  /\ UNCHANGED <<window, stack, closing, timer, settings, pending, request,
                 workVars, resultVars, updater, ghostVars>>

-----------------------------------------------------------------------------
\* The updater waits for the end of the application, two minutes at most.
UpdaterWait ==
  /\ updater = "waiting"
  /\ updater' = IF process = "ended" THEN "installing" ELSE "failed"
  /\ UNCHANGED <<process, loopVars, timer, settings, pending, request, workVars,
                 resultVars, ghostVars>>

\* Mutant: the application is started again only after an installation.
InstallWithoutRecovery ==
  /\ updater = "installing"
  /\ \/ updater' = "done" /\ process' = "relaunched"
     \/ updater' = "failed" /\ UNCHANGED process
  /\ UNCHANGED <<loopVars, timer, settings, pending, request, workVars,
                 resultVars, ghostVars>>

\* From here on it starts the application again, whatever comes of the
\* verification and of Setup.  A start is taken to succeed.
Install ==
  /\ updater = "installing"
  /\ updater' \in {"done", "failed"} /\ process' = "relaunched"
  /\ UNCHANGED <<loopVars, timer, settings, pending, request, workVars,
                 resultVars, ghostVars>>

WorkNext == FinishWork \/ ClearProgress \/ Post

WindowNext ==
  \/ StartupTimer \/ RequestCheck \/ HandleRequest \/ HandleCompletion
  \/ TellSaveFailure \/ OpenSettings \/ OpenPending \/ Answer
  \/ Exit \/ CloseDialog \/ CloseWindow \/ Leave \/ EndProcess

Next == WorkNext \/ WindowNext \/ UpdaterWait \/ Install

\* Loops end and messages are dispatched, the work thread runs (its network
\* calls have timeouts), and so does the updater.  The user owes nothing.
Fairness ==
  /\ WF_vars(WorkNext) /\ WF_vars(HandleRequest) /\ WF_vars(HandleCompletion)
  /\ WF_vars(CloseDialog \/ CloseWindow) /\ WF_vars(Leave)
  /\ WF_vars(EndProcess) /\ WF_vars(UpdaterWait) /\ WF_vars(Install)

Spec == Init /\ [][Next]_vars /\ Fairness

-----------------------------------------------------------------------------
TypeOK ==
  /\ process \in {"up", "ended", "relaunched"}
  /\ window \in {"open", "destroyed"} /\ settings \in Settings
  /\ {quit, timer, request, inProgress, message} \subseteq BOOLEAN
  /\ pending \in VersionOrNone /\ never \in VersionOrNone
  /\ chosen \subseteq Versions
  /\ updater \in {"none", "waiting", "installing", "failed", "done"}
  /\ \A i \in DOMAIN stack :
       /\ stack[i].owner \in 0 .. i - 1 /\ stack[i].draft \in Settings
       /\ stack[i].outcome \in Answers(stack[i].kind)
       /\ stack[i].version \in VersionOrNone
  /\ inProgress <=> work.stage \in {"working", "stored"}
  /\ work.stage \in {"stored", "cleared"} \/ message => completion # NoCompletion

\* A completion that keeps later operations out is on its way to the window:
\* the thread is about to post its message, or the message is posted.
ResultsArrive ==
  process = "up" /\ window = "open" /\ completion # NoCompletion
    => message \/ work.stage \in {"stored", "cleared"}

\* The flow's states are of their types, and no completion is stuck.
CompletionsAreServed == TypeOK /\ ResultsArrive

\* RELEASE_NOTES_2.0.14.md:22: an installer is downloaded, and handed to the
\* updater, only after "Update now" was selected for that version, however the
\* prompt for it came to an end.
DownloadIsChosen ==
  /\ work.kind = "download" => work.version \in chosen
  /\ completion.status = "ready" => completion.version \in chosen

\* At most one updater is started: the window that started one takes no other
\* completion, whatever is still posted to it or downloaded, before it closes.
OneHandoff ==
  [][/\ updater' = "waiting" => updater \in {"none", "waiting"}
     /\ updater # "none" /\ message /\ ~message' => window' = "destroyed"]_vars

\* An application that closes while no prompt or notice is open ends,
\* whatever settings dialogs are: none of their loops takes the WM_QUIT that is
\* meant for the main loop.
CloseEnds ==
  (quit /\ \A i \in DOMAIN stack : stack[i].kind = "settings")
    ~> process # "up"

\* When the updater has seen the application end, it is started again.
ComesBack ==
  (updater = "waiting" /\ process = "ended") ~> process = "relaunched"

\* An automatic check that begins after the user chose never to be offered a
\* version leaves that version out.  src/tests/ui_smoke_tests.cpp:355 has it that
\* the updater offers "never for that version".
NeverMeansNever ==
  [][work = Idle /\ work' # Idle /\ work'.automatic /\ never # 0
       => work'.version = never]_vars
=============================================================================
