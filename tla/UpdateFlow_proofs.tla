-------------------------- MODULE UpdateFlow_proofs --------------------------
(***************************************************************************)
(* Safety theorems about UpdateFlow, for any versions and any number of     *)
(* dialogs open at a time.                                                  *)
(***************************************************************************)
EXTENDS UpdateFlow, SequenceTheorems, TLAPS

\* What is a formula to the provers, and what is a value.
FlagsOK ==
  /\ quit \in BOOLEAN /\ timer \in BOOLEAN /\ request \in BOOLEAN
  /\ inProgress \in BOOLEAN /\ message \in BOOLEAN

ValuesOK ==
  /\ process \in {"up", "ended", "relaunched"}
  /\ window \in {"open", "destroyed"} /\ settings \in Settings
  /\ pending \in VersionOrNone /\ never \in VersionOrNone
  /\ chosen \subseteq Versions
  /\ updater \in {"none", "waiting", "installing", "failed", "done"}

Kinds == {"prompt", "settings", "notice"}
Outcomes == {"install", "remind", "skip", "saved", "dismissed"}
Dialogs == [kind : Kinds, owner : Nat, version : VersionOrNone, draft : Settings,
            outcome : Outcomes, live : BOOLEAN, done : BOOLEAN]

\* A dialog at place i of the stack.  A prompt is for a version, and its
\* outcome is to install only if that was selected, c being what was.
DialogOK(d, i, c) ==
  /\ d \in Dialogs /\ d.owner < i
  /\ d.outcome \in Answers(d.kind)
  /\ d.kind = "prompt" => d.version \in Versions
  /\ d.outcome = "install" => d.version \in c

StackOK == stack \in Seq(Dialogs) /\ \A i \in 1 .. Len(stack) : DialogOK(stack[i], i, chosen)

\* One operation and its completion: what was begun is finished, posted and
\* handled before the next begins.
Works == [kind : {"none", "check", "download"}, automatic : BOOLEAN,
          version : VersionOrNone,
          stage : {"idle", "working", "stored", "cleared"}]
Completions == [status : {"none", "ready", "failed", "current", "available"},
                automatic : BOOLEAN, version : VersionOrNone]

WorkOK ==
  /\ work \in Works /\ completion \in Completions
  /\ inProgress <=> work.stage \in {"working", "stored"}
  /\ work.stage \in {"stored", "cleared"} \/ message => completion # NoCompletion
  /\ message => work.stage = "idle"
  /\ completion.status = "available" => completion.version \in Versions
  /\ DownloadIsChosen

\* The messages that close windows: the main window's is the last.
ClosingOK ==
  /\ closing = <<>> \/ closing = <<0>> \/ \E p \in Nat : closing = <<p, 0>>
  /\ updater # "none" => closing # <<>> \/ window = "destroyed"

FlowInv == FlagsOK /\ ValuesOK /\ StackOK /\ WorkOK /\ ResultsArrive /\ ClosingOK

LEMMA DialogEnds ==
  ASSUME NEW d \in Dialogs, NEW b \in BOOLEAN, NEW o \in Outcomes
  PROVE  LET e == [d EXCEPT !.live = FALSE, !.done = b, !.outcome = o]
         IN  /\ e \in Dialogs /\ e.outcome = o
             /\ e.kind = d.kind /\ e.owner = d.owner /\ e.version = d.version
  BY DEF Dialogs

\* Answering or closing a dialog, and destroying what it owns, leaves a stack of
\* dialogs, if the answer is one it knows.
LEMMA DestroyedDialogs ==
  ASSUME StackOK, NEW i, NEW o \in Outcomes, NEW c, chosen \subseteq c,
         i \in 1 .. Len(stack) =>
           /\ o \in Answers(stack[i].kind)
           /\ o = "install" => stack[i].version \in c
  PROVE  /\ Destroyed(i, o) \in Seq(Dialogs) /\ Len(Destroyed(i, o)) = Len(stack)
         /\ \A j \in 1 .. Len(stack) : DialogOK(Destroyed(i, o)[j], j, c)
<1> DEFINE done(j) == stack[j].done \/ j = i \/ stack[j].kind = "settings"
           outcome(j) == IF j = i THEN o ELSE stack[j].outcome
           ended(j) == [stack[j] EXCEPT !.live = FALSE, !.done = done(j),
                                        !.outcome = outcome(j)]
           new(j) == IF j \in Family(i) THEN ended(j) ELSE stack[j]
<1>1. DOMAIN stack = 1 .. Len(stack) /\ Len(stack) \in Nat
  BY DEF StackOK
<1>2. Destroyed(i, o) = [j \in 1 .. Len(stack) |-> new(j)]
  BY <1>1, Zenon DEF Destroyed
<1>3. ASSUME NEW j \in 1 .. Len(stack) PROVE DialogOK(new(j), j, c)
  <2>1. DialogOK(stack[j], j, chosen) /\ stack[j] \in Dialogs
    BY <1>3 DEF StackOK, DialogOK
  <2>2. outcome(j) \in Outcomes /\ outcome(j) \in Answers(stack[j].kind)
        /\ (outcome(j) = "install" => stack[j].version \in c)
    BY <2>1 DEF DialogOK, Dialogs
  <2>3. done(j) \in BOOLEAN
    BY Zenon
  <2> HIDE DEF done, outcome
  <2>4. /\ ended(j) \in Dialogs /\ ended(j).outcome = outcome(j)
        /\ ended(j).kind = stack[j].kind /\ ended(j).owner = stack[j].owner
        /\ ended(j).version = stack[j].version
    BY <2>1, <2>2, <2>3 DEF Dialogs
  <2> HIDE DEF ended
  <2>5. DialogOK(ended(j), j, c)
    BY <2>1, <2>2, <2>4, Zenon DEF DialogOK
  <2>6. DialogOK(stack[j], j, c)
    BY <2>1, Zenon DEF DialogOK
  <2> QED BY <2>5, <2>6
<1>4. \A j \in 1 .. Len(stack) : new(j) \in Dialogs
  BY <1>3, Zenon DEF DialogOK
<1> HIDE DEF new
<1> QED BY <1>1, <1>2, <1>3, <1>4

\* Opening a dialog.
LEMMA OpenedDialog ==
  ASSUME StackOK, NEW d, DialogOK(d, Len(stack) + 1, chosen),
         stack' = Append(stack, d), chosen' = chosen
  PROVE  StackOK'
<1>1. stack \in Seq(Dialogs) /\ d \in Dialogs /\ Len(stack) \in Nat
  BY DEF StackOK, DialogOK
<1>2. stack' \in Seq(Dialogs) /\ Len(stack') = Len(stack) + 1
  BY <1>1
<1>3. ASSUME NEW i \in 1 .. Len(stack') PROVE DialogOK(stack'[i], i, chosen')
  <2>1. CASE i = Len(stack) + 1
    BY <1>1, <2>1
  <2>2. CASE i \in 1 .. Len(stack)
    <3>1. stack'[i] = stack[i]
      BY <1>1, <2>2
    <3> QED BY <2>2, <3>1 DEF StackOK
  <2> QED BY <1>1, <1>2, <2>1, <2>2
<1> QED BY <1>2, <1>3 DEF StackOK

\* Leaving the innermost one.
LEMMA LeftDialog ==
  ASSUME StackOK, stack # <<>>
  PROVE  LET rest == SubSeq(stack, 1, Len(stack) - 1)
         IN  /\ rest \in Seq(Dialogs) /\ Len(rest) = Len(stack) - 1
             /\ Len(stack) \in Nat /\ Len(stack) >= 1
             /\ DialogOK(Top, Len(stack), chosen)
             /\ \A i \in 1 .. Len(rest) : DialogOK(rest[i], i, chosen)
<1> DEFINE rest == SubSeq(stack, 1, Len(stack) - 1)
<1>1. stack \in Seq(Dialogs) /\ Len(stack) \in Nat /\ Len(stack) >= 1
  BY DEF StackOK
<1>2. /\ rest \in Seq(Dialogs) /\ Len(rest) = Len(stack) - 1
      /\ \A i \in 1 .. Len(stack) - 1 : rest[i] = stack[i]
  <2>1. \A i \in 1 .. Len(stack) - 1 : stack[i] \in Dialogs
    BY <1>1 DEF StackOK
  <2>2. /\ rest \in Seq(Dialogs)
        /\ Len(rest) = IF 1 <= Len(stack) - 1 THEN Len(stack) - 1 - 1 + 1 ELSE 0
        /\ \A i \in 1 .. Len(stack) - 1 - 1 + 1 : rest[i] = stack[1 + i - 1]
    BY <1>1, <2>1, SubSeqProperties
  <2> HIDE DEF rest
  <2>3. Len(rest) = Len(stack) - 1 /\ Len(stack) - 1 - 1 + 1 = Len(stack) - 1
    <3>1. ASSUME NEW n \in Nat, n >= 1
          PROVE  (IF 1 <= n - 1 THEN n - 1 - 1 + 1 ELSE 0) = n - 1 /\ n - 1 - 1 + 1 = n - 1
      BY <3>1
    <3> QED BY <1>1, <2>2, <3>1, Zenon
  <2>4. ASSUME NEW i \in 1 .. Len(stack) - 1 PROVE rest[i] = stack[i]
    <3>1. 1 + i - 1 = i
      BY <1>1
    <3>2. rest[i] = stack[1 + i - 1]
      BY <2>2, <2>3, Zenon
    <3> QED BY <3>1, <3>2, Zenon
  <2> QED BY <2>2, <2>3, <2>4
<1> HIDE DEF rest
<1>3. DialogOK(Top, Len(stack), chosen)
  BY <1>1 DEF StackOK, Top
<1>4. \A i \in 1 .. Len(rest) : DialogOK(rest[i], i, chosen)
  BY <1>1, <1>2 DEF StackOK
<1> QED BY <1>1, <1>2, <1>3, <1>4 DEF rest

LEMMA FlowInit == Init => FlowInv
<1> SUFFICES ASSUME Init PROVE FlowInv
  OBVIOUS
<1>1. FlagsOK
  <2>1. settings.automatic \in BOOLEAN
    BY DEF Init, Settings
  <2> QED BY <2>1, Zenon DEF Init, FlagsOK
<1>2. ValuesOK /\ ClosingOK
  BY DEF Init, ValuesOK, VersionOrNone, ClosingOK
<1>3. StackOK
  BY DEF Init, StackOK
<1>4. WorkOK /\ ResultsArrive
  <2>1. work \in Works /\ completion \in Completions
    BY DEF Init, Idle, NoCompletion, Works, Completions, VersionOrNone
  <2>2. work.stage = "idle" /\ work.kind = "none" /\ completion.status = "none"
        /\ ~message /\ ~inProgress /\ completion = NoCompletion
    BY Zenon DEF Init, Idle, NoCompletion
  <2> QED BY <2>1, <2>2, Zenon DEF WorkOK, DownloadIsChosen, ResultsArrive
<1> QED BY <1>1, <1>2, <1>3, <1>4 DEF FlowInv

\* A dialog that has just been opened.
LEMMA NewDialog ==
  ASSUME ValuesOK, StackOK, NEW p \in 0 .. Len(stack), NEW v
  PROVE  /\ DialogOK(Notice(p), Len(stack) + 1, chosen)
         /\ v \in Versions => DialogOK(Prompt(p, v), Len(stack) + 1, chosen)
         /\ DialogOK(SettingsDialog, Len(stack) + 1, chosen)
<1>1. p \in Nat /\ p < Len(stack) + 1 /\ 0 < Len(stack) + 1
  BY DEF StackOK
<1>2. NoSettings \in Settings /\ settings \in Settings
  BY DEF NoSettings, Settings, VersionOrNone, ValuesOK
<1>3. DialogOK(Notice(p), Len(stack) + 1, chosen)
  BY <1>1, <1>2 DEF DialogOK, Notice, Dialog, Dialogs, Kinds, Outcomes, Answers,
     VersionOrNone
<1>4. v \in Versions => DialogOK(Prompt(p, v), Len(stack) + 1, chosen)
  BY <1>1, <1>2 DEF DialogOK, Prompt, Dialog, Dialogs, Kinds, Outcomes, Answers,
     VersionOrNone
<1>5. DialogOK(SettingsDialog, Len(stack) + 1, chosen)
  BY <1>1, <1>2 DEF DialogOK, SettingsDialog, Dialog, Dialogs, Kinds, Outcomes,
     Answers, VersionOrNone
<1> QED BY <1>3, <1>4, <1>5

LEMMA PopupsOnStack == StackOK => Popups \subseteq 0 .. Len(stack)
<1> SUFFICES ASSUME StackOK, NEW p \in Popups PROVE p \in 0 .. Len(stack)
  OBVIOUS
<1>1. DOMAIN stack = 1 .. Len(stack) /\ Len(stack) \in Nat
  BY DEF StackOK
<1> QED BY <1>1 DEF Popups

\* An operation begins: the one before it is handled.
LEMMA BegunWork ==
  ASSUME WorkOK, ResultsArrive, NEW k \in {"check", "download"}, NEW a \in BOOLEAN,
         NEW v \in VersionOrNone, k = "download" => v \in chosen,
         BeginWork(k, a, v), UNCHANGED <<completion, message>>, chosen' = chosen
  PROVE  WorkOK' /\ ResultsArrive' /\ inProgress' \in BOOLEAN
<1>1. work' = [kind |-> k, automatic |-> a, version |-> v, stage |-> "working"]
      /\ inProgress' /\ completion = NoCompletion
  BY Zenon DEF BeginWork
<1>2. work' \in Works /\ work'.kind = k /\ work'.version = v /\ work'.stage = "working"
  BY <1>1 DEF Works
<1>3. ~message /\ completion' = NoCompletion /\ ~message'
  BY <1>1, Zenon DEF WorkOK
<1>4. completion' \in Completions /\ completion'.status = "none"
  BY <1>3 DEF NoCompletion, Completions, VersionOrNone
<1>5. DownloadIsChosen'
  BY <1>2, <1>4 DEF DownloadIsChosen
<1> QED BY <1>1, <1>2, <1>3, <1>4, <1>5, Zenon DEF WorkOK, ResultsArrive

\* What is not touched stays as it is.
LEMMA KeptWork ==
  ASSUME WorkOK, ResultsArrive, UNCHANGED <<workVars, completion>>,
         chosen \subseteq chosen', message' = message, process' = process,
         window' = window
  PROVE  WorkOK' /\ ResultsArrive'
  BY Zenon DEF WorkOK, DownloadIsChosen, ResultsArrive, workVars

LEMMA KeptStack == StackOK /\ stack' = stack /\ chosen' = chosen => StackOK'
  BY DEF StackOK

LEMMA KeptClosing ==
  ClosingOK /\ closing' = closing /\ (window' = window \/ window' = "destroyed")
    /\ updater' = updater => ClosingOK'
  BY DEF ClosingOK

LEMMA ScheduledFlag == ASSUME NEW s \in Settings PROVE Scheduled(s) \in BOOLEAN
<1>1. s.automatic \in BOOLEAN
  BY DEF Settings
<1> QED BY <1>1, Zenon DEF Scheduled

\* What an operation can come to.
LEMMA ResultsOK ==
  ASSUME WorkOK, NEW c \in Results
  PROVE  /\ c \in Completions /\ c.status # "none"
         /\ c.status = "available" => c.version \in Versions
         /\ c.status = "ready" => c.version \in chosen
<1>1. work.automatic \in BOOLEAN /\ work.version \in VersionOrNone
  BY DEF WorkOK, Works
<1>2. CASE work.kind = "download"
  <2>1. PICK s \in {"ready", "failed"} : c = Completion(s, work.version)
    BY <1>2, Zenon DEF Results
  <2>2. work.version \in chosen
    BY <1>2 DEF WorkOK, DownloadIsChosen
  <2> QED BY <1>1, <2>1, <2>2 DEF Completion, Completions
<1>3. CASE work.kind # "download"
  <2>1. \/ c = Completion("failed", 0) \/ c = Completion("current", 0)
        \/ \E v \in Versions : c = Completion("current", v) \/ c = Completion("available", v)
    BY <1>3 DEF Results
  <2>2. CASE c = Completion("failed", 0) \/ c = Completion("current", 0)
    BY <1>1, <2>2 DEF Completion, Completions, VersionOrNone
  <2>3. ASSUME NEW v \in Versions, c = Completion("current", v) \/ c = Completion("available", v)
        PROVE  /\ c \in Completions /\ c.status # "none"
               /\ c.status = "available" => c.version \in Versions
               /\ c.status = "ready" => c.version \in chosen
    BY <1>1, <2>3 DEF Completion, Completions, VersionOrNone
  <2> QED BY <2>1, <2>2, <2>3
<1> QED BY <1>2, <1>3

LEMMA WorkStep == FlowInv /\ WorkNext => FlowInv'
<1> SUFFICES ASSUME FlowInv, WorkNext PROVE FlowInv'
  OBVIOUS
<1> USE DEF FlowInv, loopVars, workVars, resultVars, ghostVars
<1>1. /\ UNCHANGED <<process, window, settings, pending, never, chosen, updater>>
      /\ UNCHANGED <<stack, closing, quit, timer, request>>
  BY DEF WorkNext, FinishWork, ClearProgress, Post
<1>2. ValuesOK' /\ StackOK' /\ ClosingOK'
  BY <1>1, KeptStack, KeptClosing DEF ValuesOK
<1>3. inProgress' \in BOOLEAN /\ message' \in BOOLEAN
  BY Zenon DEF FlagsOK, WorkNext, FinishWork, ClearProgress, Post
<1>4. FlagsOK'
  BY <1>1, <1>3, Zenon DEF FlagsOK
<1>5. work \in Works /\ NoCompletion \in Completions /\ NoCompletion.status = "none"
  BY DEF WorkOK, NoCompletion, Completions, VersionOrNone
<1>6. CASE FinishWork
  <2>1. /\ work' \in Works /\ work'.kind = work.kind /\ work'.version = work.version
        /\ work'.stage = "stored"
    BY <1>5, <1>6 DEF FinishWork, Works
  <2>2. /\ completion' \in Completions /\ completion'.status # "none"
        /\ completion'.status = "available" => completion'.version \in Versions
        /\ completion'.status = "ready" => completion'.version \in chosen
    BY <1>6, ResultsOK DEF FinishWork
  <2>3. completion' # NoCompletion
    BY <1>5, <2>2
  <2>4. ~message /\ ~message' /\ inProgress /\ inProgress'
    BY <1>6, Zenon DEF WorkOK, FinishWork
  <2>5. DownloadIsChosen'
    BY <1>1, <2>1, <2>2 DEF WorkOK, DownloadIsChosen
  <2>6. WorkOK' /\ ResultsArrive'
    BY <2>1, <2>2, <2>3, <2>4, <2>5, Zenon DEF WorkOK, ResultsArrive
  <2> QED BY <1>2, <1>4, <2>6
<1>7. CASE ClearProgress
  <2>1. /\ work' \in Works /\ work'.kind = work.kind /\ work'.version = work.version
        /\ work'.stage = "cleared" /\ completion' = completion
    BY <1>5, <1>7 DEF ClearProgress, Works
  <2>2. ~message /\ ~message' /\ ~inProgress' /\ completion # NoCompletion
    BY <1>7, Zenon DEF WorkOK, ClearProgress
  <2>3. DownloadIsChosen'
    BY <1>1, <2>1 DEF WorkOK, DownloadIsChosen
  <2>4. WorkOK' /\ ResultsArrive'
    BY <1>1, <2>1, <2>2, <2>3, Zenon DEF WorkOK, ResultsArrive
  <2> QED BY <1>2, <1>4, <2>4
<1>8. CASE Post
  <2>1. work' \in Works /\ work'.kind = "none" /\ work'.stage = "idle"
    BY <1>8 DEF Post, Idle, Works, VersionOrNone
  <2>2. ~inProgress /\ ~inProgress' /\ ~message /\ completion # NoCompletion
    BY <1>8, Zenon DEF WorkOK, Post
  <2>3. \/ message' /\ completion' = completion
        \/ ~message' /\ completion' = NoCompletion
    BY <1>8, <2>2, Zenon DEF Post
  <2>4. DownloadIsChosen'
    BY <1>1, <1>5, <2>1, <2>3 DEF WorkOK, DownloadIsChosen
  <2>5. WorkOK' /\ ResultsArrive'
    BY <1>1, <1>5, <2>1, <2>2, <2>3, <2>4, Zenon DEF WorkOK, ResultsArrive
  <2> QED BY <1>2, <1>4, <2>5
<1> QED BY <1>6, <1>7, <1>8 DEF WorkNext

\* What a completion does, by its status.
LEMMA CompletionStep ==
  ASSUME FlowInv, HandleCompletion
  PROVE  FlowInv'
<1> USE DEF FlowInv, loopVars, workVars, resultVars, ghostVars
<1>1. /\ UNCHANGED <<process, window, quit, settings, request>>
      /\ UNCHANGED <<work, inProgress, chosen, never>>
      /\ ~message' /\ message' \in BOOLEAN /\ message /\ completion' = NoCompletion
  BY Zenon DEF HandleCompletion
<1>2. PICK p \in 0 .. Len(stack) : Ready(p) \/ Failed(p) \/ Current(p) \/ Available(p)
  BY PopupsOnStack DEF HandleCompletion
<1>3. closing = <<>> /\ window = "open"
  BY DEF HandleCompletion, AtRest, Dispatching
<1>4. updater = "none"
  BY <1>3 DEF ClosingOK
<1>5. \/ stack' = stack \/ stack' = Append(stack, Notice(p))
      \/ completion.status = "available" /\ stack' = Append(stack, Prompt(p, completion.version))
  BY <1>2 DEF Ready, Failed, Current, Available, TellManual, InstallVerified
<1>6. StackOK'
  <2>1. CASE stack' = stack
    BY <1>1, <2>1, KeptStack
  <2>2. CASE stack' = Append(stack, Notice(p))
    BY <1>1, <2>2, NewDialog, OpenedDialog
  <2>3. CASE completion.status = "available" /\ stack' = Append(stack, Prompt(p, completion.version))
    <3>1. completion.version \in Versions
      BY <2>3 DEF WorkOK
    <3> QED BY <1>1, <2>3, <3>1, NewDialog, OpenedDialog
  <2> QED BY <1>5, <2>1, <2>2, <2>3
<1>7. \/ updater' = "waiting" /\ closing' \in {<<0>>, <<p, 0>>}
      \/ updater' = updater /\ closing' = closing
  <2>1. CASE Ready(p)
    <3>1. \/ updater' = "waiting" /\ closing' = IF p # 0 THEN <<p, 0>> ELSE <<0>>
          \/ updater' = updater /\ closing' = closing
      BY <2>1, Zenon DEF Ready, InstallVerified
    <3> QED BY <3>1, Zenon
  <2>2. CASE Failed(p) \/ Current(p) \/ Available(p)
    BY <2>2, Zenon DEF Failed, Current, Available, TellManual
  <2> QED BY <1>2, <2>1, <2>2
<1>8. ClosingOK'
  <2>1. CASE updater' = updater /\ closing' = closing
    BY <1>1, <2>1, KeptClosing
  <2>2. CASE closing' \in {<<0>>, <<p, 0>>}
    <3>1. p \in Nat
      BY DEF StackOK
    <3>2. closing' = <<0>> \/ \E q \in Nat : closing' = <<q, 0>>
      BY <2>2, <3>1, Zenon
    <3>3. <<0>> # <<>> /\ \A q : <<q, 0>> # <<>>
      OBVIOUS
    <3> QED BY <3>2, <3>3, Zenon DEF ClosingOK
  <2> QED BY <1>7, <2>1, <2>2
<1>9. pending' \in VersionOrNone
  <2>1. pending' = pending \/ pending' = completion.version \/ pending' = 0
    BY <1>2 DEF Ready, Failed, Current, Available
  <2> QED BY <2>1 DEF ValuesOK, WorkOK, Completions, VersionOrNone
<1>10. timer' = timer \/ timer' = Scheduled(settings)
  BY <1>2, Zenon DEF Ready, Failed, Current, Available
<1>11. timer' \in BOOLEAN
  BY <1>10, ScheduledFlag, Zenon DEF FlagsOK, ValuesOK
<1>12. FlagsOK'
  BY <1>1, <1>11, Zenon DEF FlagsOK
<1>13. ValuesOK'
  BY <1>1, <1>7, <1>9 DEF ValuesOK
<1>14. NoCompletion \in Completions /\ NoCompletion.status = "none"
  BY DEF NoCompletion, Completions, VersionOrNone
<1>15. DownloadIsChosen'
  BY <1>1, <1>14 DEF WorkOK, DownloadIsChosen
<1>16. WorkOK' /\ ResultsArrive'
  BY <1>1, <1>14, <1>15, Zenon DEF WorkOK, ResultsArrive
<1> QED BY <1>6, <1>8, <1>12, <1>13, <1>16

\* The messages of the main window, but the completion's, and what the user does
\* outside the dialogs.
LEMMA MessageStep ==
  ASSUME FlowInv,
         StartupTimer \/ RequestCheck \/ HandleRequest \/ TellSaveFailure
           \/ OpenSettings \/ OpenPending \/ Exit
  PROVE  FlowInv'
<1> USE DEF FlowInv, loopVars, workVars, resultVars, ghostVars
<1>1. /\ UNCHANGED <<process, window, quit, settings>>
      /\ UNCHANGED <<completion, message, updater, chosen, never>>
  BY Zenon DEF StartupTimer, RequestCheck, HandleRequest, TellSaveFailure, OpenSettings,
     OpenPending, Exit
<1>2. WorkOK' /\ ResultsArrive' /\ inProgress' \in BOOLEAN
  <2>1. CASE UNCHANGED workVars
    BY <1>1, <2>1, KeptWork, Zenon DEF FlagsOK
  <2>2. CASE StartupTimer /\ BeginWork("check", TRUE, settings.skipped)
    <3>1. settings.skipped \in VersionOrNone
      BY DEF ValuesOK, Settings
    <3> QED BY <1>1, <2>2, <3>1, BegunWork
  <2>3. CASE HandleRequest /\ BeginWork("check", FALSE, 0)
    <3>1. 0 \in VersionOrNone
      BY DEF VersionOrNone
    <3> QED BY <1>1, <2>3, <3>1, BegunWork
  <2> QED BY <2>1, <2>2, <2>3, Zenon DEF StartupTimer, RequestCheck, HandleRequest,
       TellSaveFailure, OpenSettings, OpenPending, Exit, RefuseWork
<1>3. timer' \in BOOLEAN
  <2>1. timer' = timer \/ timer' = FALSE \/ timer' = Scheduled(settings)
    BY Zenon DEF StartupTimer, RequestCheck, HandleRequest, TellSaveFailure,
       OpenSettings, OpenPending, Exit
  <2> QED BY <2>1, ScheduledFlag, Zenon DEF FlagsOK, ValuesOK
<1>4. request' \in BOOLEAN
  BY Zenon DEF FlagsOK, StartupTimer, RequestCheck, HandleRequest, TellSaveFailure,
     OpenSettings, OpenPending, Exit
<1>5. FlagsOK'
  BY <1>1, <1>2, <1>3, <1>4, Zenon DEF FlagsOK
<1>6. ValuesOK'
  <2>1. pending' = pending \/ pending' = 0
    BY Zenon DEF StartupTimer, RequestCheck, HandleRequest, TellSaveFailure,
       OpenSettings, OpenPending, Exit
  <2> QED BY <1>1, <2>1 DEF ValuesOK, VersionOrNone
<1>7. StackOK'
  <2>1. CASE stack' = stack
    BY <1>1, <2>1, KeptStack
  <2>2. CASE \E p \in 0 .. Len(stack) : stack' = Append(stack, Notice(p))
    BY <1>1, <2>2, NewDialog, OpenedDialog
  <2>3. CASE OpenSettings
    <3>1. 0 \in 0 .. Len(stack)
      BY DEF StackOK
    <3> QED BY <1>1, <2>3, <3>1, NewDialog, OpenedDialog DEF OpenSettings
  <2>4. CASE OpenPending
    <3>1. pending \in Versions
      BY <2>4 DEF OpenPending, ValuesOK, VersionOrNone
    <3>2. PICK p \in 0 .. Len(stack) : stack' = Append(stack, Prompt(p, pending))
      BY <2>4, PopupsOnStack DEF OpenPending
    <3> QED BY <1>1, <3>1, <3>2, NewDialog, OpenedDialog
  <2>5. CASE HandleRequest
    <3>1. stack' = stack \/ \E p \in Popups : stack' = Append(stack, Notice(p))
      BY <2>5, Zenon DEF HandleRequest
    <3> QED BY <2>1, <2>2, <3>1, PopupsOnStack
  <2>6. CASE TellSaveFailure
    <3>1. 0 \in 0 .. Len(stack)
      BY DEF StackOK
    <3> QED BY <2>2, <2>6, <3>1 DEF TellSaveFailure
  <2>7. CASE StartupTimer \/ RequestCheck \/ Exit
    BY <2>1, <2>7, Zenon DEF StartupTimer, RequestCheck, Exit
  <2> QED BY <2>3, <2>4, <2>5, <2>6, <2>7
<1>8. ClosingOK'
  <2>1. CASE closing' = closing
    BY <1>1, <2>1, KeptClosing
  <2>2. CASE Exit
    BY <1>1, <2>2 DEF Exit, ClosingOK
  <2> QED BY <2>1, <2>2, Zenon DEF StartupTimer, RequestCheck, HandleRequest,
       TellSaveFailure, OpenSettings, OpenPending
<1> QED BY <1>2, <1>5, <1>6, <1>7, <1>8

\* Dialogs are answered and closed; the main window takes all of them along.
LEMMA DestroyStep ==
  ASSUME FlowInv, Answer \/ CloseDialog \/ CloseWindow
  PROVE  FlowInv'
<1> USE DEF FlowInv, loopVars, workVars, resultVars, ghostVars
<1>1. /\ UNCHANGED <<process, settings, pending, work, inProgress>>
      /\ UNCHANGED <<completion, updater, never>>
  BY Zenon DEF Answer, CloseDialog, CloseWindow
<1>2. DOMAIN stack = 1 .. Len(stack) /\ Len(stack) \in Nat
      /\ \A i \in 1 .. Len(stack) : stack[i].kind \in Kinds /\ stack[i].version \in VersionOrNone
  BY DEF StackOK, DialogOK, Dialogs
<1>3. CASE Answer
  <2>0. PICK i \in Popups \ {0} : \E a \in Answers(stack[i].kind) :
          /\ stack' = Destroyed(i, a)
          /\ chosen' = IF a = "install" THEN chosen \cup {stack[i].version} ELSE chosen
    BY <1>3, Zenon DEF Answer
  <2>1. PICK a \in Answers(stack[i].kind) :
          /\ stack' = Destroyed(i, a)
          /\ chosen' = IF a = "install" THEN chosen \cup {stack[i].version} ELSE chosen
    BY <2>0
  <2>2. i \in 1 .. Len(stack)
    BY PopupsOnStack
  <2>3. a \in Outcomes /\ (a = "install" => stack[i].kind = "prompt")
    BY <1>2, <2>2 DEF Kinds, Answers, Outcomes
  <2>4. a = "install" => stack[i].version \in Versions
    BY <2>2, <2>3 DEF StackOK, DialogOK
  <2>5. chosen \subseteq chosen' /\ chosen' \subseteq Versions
        /\ (a = "install" => stack[i].version \in chosen')
    BY <2>1, <2>4 DEF ValuesOK
  <2>6. /\ Destroyed(i, a) \in Seq(Dialogs) /\ Len(Destroyed(i, a)) = Len(stack)
        /\ \A j \in 1 .. Len(stack) : DialogOK(Destroyed(i, a)[j], j, chosen')
    BY <2>3, <2>5, DestroyedDialogs
  <2>7. StackOK'
    BY <2>1, <2>6, Zenon DEF StackOK
  <2>8. UNCHANGED <<window, quit, closing, timer, request, message>>
    BY <1>3, Zenon DEF Answer
  <2>9. WorkOK' /\ ResultsArrive'
    BY <1>1, <2>5, <2>8, KeptWork
  <2>10. FlagsOK'
    BY <1>1, <2>8, Zenon DEF FlagsOK
  <2>11. ValuesOK' /\ ClosingOK'
    BY <1>1, <2>5, <2>8, KeptClosing DEF ValuesOK
  <2> QED BY <2>7, <2>9, <2>10, <2>11
<1>4. CASE CloseDialog
  <2>1. UNCHANGED <<window, quit, timer, request, message, chosen>>
    BY <1>4, Zenon DEF CloseDialog
  <2>2. StackOK'
    <3>1. CASE stack' = stack
      BY <2>1, <3>1, KeptStack
    <3>2. CASE stack' # stack
      <4>0. PICK i \in 1 .. Len(stack) : \E a \in Closed(stack[i].kind) : stack' = Destroyed(i, a)
        BY <1>2, <1>4, <3>2, Zenon DEF CloseDialog
      <4>1. PICK a \in Closed(stack[i].kind) : stack' = Destroyed(i, a)
        BY <4>0
      <4>2. a \in Outcomes /\ a # "install" /\ a \in Answers(stack[i].kind)
        BY <1>2 DEF Kinds, Answers, Closed, Outcomes
      <4>3. /\ Destroyed(i, a) \in Seq(Dialogs) /\ Len(Destroyed(i, a)) = Len(stack)
            /\ \A j \in 1 .. Len(stack) : DialogOK(Destroyed(i, a)[j], j, chosen)
        BY <4>2, DestroyedDialogs
      <4> QED BY <2>1, <4>1, <4>3, Zenon DEF StackOK
    <3> QED BY <3>1, <3>2
  <2>3. ClosingOK'
    <3>1. closing' = Tail(closing) /\ closing # <<>> /\ Head(closing) # 0
      BY <1>4 DEF CloseDialog
    <3>2. closing' = <<0>>
      <4>1. closing = <<0>> \/ \E p \in Nat : closing = <<p, 0>>
        BY <3>1 DEF ClosingOK
      <4>2. CASE closing = <<0>>
        BY <3>1, <4>2
      <4>3. ASSUME NEW p \in Nat, closing = <<p, 0>> PROVE Tail(closing) = <<0>>
        BY <4>3
      <4> QED BY <3>1, <4>1, <4>2, <4>3
    <3> QED BY <3>2 DEF ClosingOK
  <2>4. WorkOK' /\ ResultsArrive'
    BY <1>1, <2>1, KeptWork
  <2>5. FlagsOK'
    BY <1>1, <2>1, Zenon DEF FlagsOK
  <2>6. ValuesOK'
    BY <1>1, <2>1 DEF ValuesOK
  <2> QED BY <2>2, <2>3, <2>4, <2>5, <2>6
<1>5. CASE CloseWindow
  <2>1. /\ window' = "destroyed" /\ closing' = <<>> /\ stack' = Destroyed(0, "dismissed")
        /\ ~message' /\ chosen' = chosen
    BY <1>5, Zenon DEF CloseWindow
  <2>2. FlagsOK'
    BY <1>1, <1>5, Zenon DEF FlagsOK, CloseWindow
  <2>3. StackOK'
    <3>1. /\ Destroyed(0, "dismissed") \in Seq(Dialogs)
          /\ Len(Destroyed(0, "dismissed")) = Len(stack)
          /\ \A j \in 1 .. Len(stack) : DialogOK(Destroyed(0, "dismissed")[j], j, chosen)
      <4>1. "dismissed" \in Outcomes /\ 0 \notin 1 .. Len(stack)
        BY <1>2 DEF Outcomes
      <4> QED BY <4>1, DestroyedDialogs, Zenon
    <3> QED BY <2>1, <3>1, Zenon DEF StackOK
  <2>4. WorkOK' /\ ResultsArrive'
    BY <1>1, <2>1 DEF WorkOK, DownloadIsChosen, ResultsArrive
  <2>5. ValuesOK' /\ ClosingOK'
    BY <1>1, <2>1 DEF ValuesOK, ClosingOK
  <2> QED BY <2>2, <2>3, <2>4, <2>5
<1> QED BY <1>3, <1>4, <1>5

\* A prompt's handler goes on: the download begins, or is refused with a notice.
LEMMA PromptStep ==
  ASSUME FlowInv, stack # <<>>, Top.kind = "prompt",
         AfterPrompt(SubSeq(stack, 1, Len(stack) - 1)),
         UNCHANGED <<process, window, completion, message, chosen>>
  PROVE  /\ StackOK' /\ WorkOK' /\ ResultsArrive' /\ inProgress' \in BOOLEAN
         /\ settings' \in Settings /\ never' \in VersionOrNone
         /\ timer' \in BOOLEAN
<1> DEFINE rest == SubSeq(stack, 1, Len(stack) - 1)
<1> USE DEF FlowInv
<1>1. /\ rest \in Seq(Dialogs) /\ Len(rest) = Len(stack) - 1
      /\ Len(stack) \in Nat /\ Len(stack) >= 1
      /\ DialogOK(Top, Len(stack), chosen)
      /\ \A i \in 1 .. Len(rest) : DialogOK(rest[i], i, chosen)
  BY LeftDialog
<1> HIDE DEF rest
<1>2. Top.version \in Versions /\ Top.owner \in Nat /\ Top.owner < Len(stack)
  BY <1>1 DEF DialogOK, Dialogs
<1>3. Top.version \in VersionOrNone /\ 0 \in VersionOrNone
  BY <1>2 DEF VersionOrNone
<1>4. timer' \in BOOLEAN
  BY ScheduledFlag, Zenon DEF AfterPrompt, FlagsOK, ValuesOK
<1>5. settings' \in Settings /\ never' \in VersionOrNone
  <2>1. PICK v \in VersionOrNone : SetSkipped(v)
    BY <1>3, Zenon DEF AfterPrompt
  <2> QED BY <2>1 DEF SetSkipped, ValuesOK, Settings
<1>6. StackOK'
  <2>1. stack' = rest \/ stack' = Append(rest, Notice(Top.owner))
    BY Zenon DEF AfterPrompt, rest
  <2>2. CASE stack' = rest
    BY <1>1, <2>2, Zenon DEF StackOK
  <2>3. CASE stack' = Append(rest, Notice(Top.owner))
    <3>1. DialogOK(Notice(Top.owner), Len(rest) + 1, chosen)
      BY <1>1, <1>2 DEF DialogOK, Notice, Dialog, NoSettings, Settings, Dialogs, Kinds,
         Outcomes, Answers, VersionOrNone
    <3>2. Notice(Top.owner) \in Dialogs
      BY <3>1, Zenon DEF DialogOK
    <3>3. /\ stack' \in Seq(Dialogs) /\ Len(stack') = Len(rest) + 1
          /\ stack'[Len(rest) + 1] = Notice(Top.owner)
          /\ \A i \in 1 .. Len(rest) : stack'[i] = rest[i]
      BY <1>1, <2>3, <3>2
    <3>4. ASSUME NEW i \in 1 .. Len(stack') PROVE DialogOK(stack'[i], i, chosen')
      <4>1. i = Len(rest) + 1 \/ i \in 1 .. Len(rest)
        BY <1>1, <3>3
      <4> QED BY <1>1, <3>1, <3>3, <4>1, Zenon
    <3> QED BY <3>3, <3>4, Zenon DEF StackOK
  <2> QED BY <2>1, <2>2, <2>3
<1>7. WorkOK' /\ ResultsArrive' /\ inProgress' \in BOOLEAN
  <2>1. CASE UNCHANGED workVars
    BY <2>1, KeptWork, Zenon DEF FlagsOK, workVars
  <2>2. CASE Top.outcome = "install" /\ BeginWork("download", FALSE, Top.version)
    <3>1. Top.version \in chosen
      BY <1>1, <2>2, Zenon DEF DialogOK
    <3> QED BY <1>3, <2>2, <3>1, BegunWork
  <2> QED BY <2>1, <2>2, Zenon DEF AfterPrompt, RefuseWork
<1> QED BY <1>4, <1>5, <1>6, <1>7

LEMMA LeaveStep ==
  ASSUME FlowInv, Leave
  PROVE  FlowInv'
<1> DEFINE rest == SubSeq(stack, 1, Len(stack) - 1)
<1> USE DEF FlowInv, resultVars
<1>1. /\ UNCHANGED <<process, window, closing, pending, request>>
      /\ UNCHANGED <<completion, message, updater, chosen>>
      /\ stack # <<>>
  BY Zenon DEF Leave
<1>2. /\ rest \in Seq(Dialogs)
      /\ DialogOK(Top, Len(stack), chosen)
      /\ \A i \in 1 .. Len(rest) : DialogOK(rest[i], i, chosen)
  BY <1>1, LeftDialog
<1>3. Top \in Dialogs /\ Top.draft \in Settings /\ Top.kind \in Kinds
  BY <1>2 DEF DialogOK, Dialogs
<1>4. quit' \in BOOLEAN
  <2>1. Top.done \in BOOLEAN
    BY <1>3 DEF Dialogs
  <2> QED BY <2>1, Zenon DEF Leave, FlagsOK
<1>5. \/ Top.kind = "settings" /\ AfterSettings(rest)
      \/ Top.kind = "prompt" /\ AfterPrompt(rest)
      \/ Top.kind = "notice" /\ AfterNotice(rest)
  BY <1>3 DEF Leave, Kinds
<1>6. /\ StackOK' /\ WorkOK' /\ ResultsArrive' /\ inProgress' \in BOOLEAN
      /\ settings' \in Settings /\ never' \in VersionOrNone
      /\ timer' \in BOOLEAN
  <2> HIDE DEF rest
  <2>1. CASE Top.kind = "prompt" /\ AfterPrompt(rest)
    BY <1>1, <2>1, PromptStep, Zenon DEF rest
  <2>2. CASE AfterSettings(rest) \/ AfterNotice(rest)
    <3>0. stack' = rest /\ UNCHANGED <<workVars, never>>
      BY <2>2, Zenon DEF AfterSettings, AfterNotice
    <3>1. StackOK'
      BY <1>1, <1>2, <3>0, Zenon DEF StackOK
    <3>2. WorkOK' /\ ResultsArrive' /\ inProgress' \in BOOLEAN /\ never' \in VersionOrNone
      BY <1>1, <3>0, KeptWork, Zenon DEF FlagsOK, ValuesOK, workVars
    <3>3. settings' \in Settings
      <4>1. ASSUME NEW a \in BOOLEAN PROVE [Top.draft EXCEPT !.automatic = a] \in Settings
        BY <1>3 DEF Settings
      <4>2. settings' = settings \/ \E a \in BOOLEAN : settings' = [Top.draft EXCEPT !.automatic = a]
        BY <2>2, Zenon DEF AfterSettings, AfterNotice
      <4> QED BY <4>1, <4>2, Zenon DEF ValuesOK
    <3>4. timer' \in BOOLEAN
      <4>1. timer' = timer \/ timer' = Scheduled(settings')
        BY <2>2, Zenon DEF AfterSettings, AfterNotice
      <4>2. Scheduled(settings') \in BOOLEAN
        BY <3>3, ScheduledFlag
      <4> QED BY <4>1, <4>2, Zenon DEF FlagsOK
    <3> QED BY <3>1, <3>2, <3>3, <3>4
  <2> QED BY <1>5, <2>1, <2>2
<1>7. FlagsOK'
  BY <1>1, <1>4, <1>6, Zenon DEF FlagsOK
<1>8. ValuesOK' /\ ClosingOK'
  BY <1>1, <1>6, KeptClosing DEF ValuesOK
<1> QED BY <1>6, <1>7, <1>8

LEMMA FlowNext == FlowInv /\ [Next]_vars => FlowInv'
<1> SUFFICES ASSUME FlowInv, [Next]_vars PROVE FlowInv'
  OBVIOUS
<1>1. CASE WorkNext
  BY <1>1, WorkStep
<1>2. CASE HandleCompletion
  BY <1>2, CompletionStep
<1>3. CASE StartupTimer \/ RequestCheck \/ HandleRequest \/ TellSaveFailure
             \/ OpenSettings \/ OpenPending \/ Exit
  BY <1>3, MessageStep
<1>4. CASE Answer \/ CloseDialog \/ CloseWindow
  BY <1>4, DestroyStep
<1>5. CASE Leave
  BY <1>5, LeaveStep
<1>6. CASE EndProcess
  <2>1. /\ UNCHANGED <<window, closing, stack, timer, settings, pending, request>>
        /\ UNCHANGED <<work, inProgress, completion, message, updater, chosen, never>>
        /\ process' = "ended" /\ quit' = FALSE
    BY <1>6, Zenon DEF EndProcess, workVars, resultVars, ghostVars
  <2>2. FlagsOK'
    BY <2>1, Zenon DEF FlagsOK, FlowInv
  <2>3. ValuesOK' /\ StackOK' /\ ClosingOK'
    BY <2>1, KeptStack, KeptClosing DEF ValuesOK, FlowInv
  <2>4. WorkOK' /\ ResultsArrive'
    BY <2>1 DEF WorkOK, DownloadIsChosen, ResultsArrive, FlowInv
  <2> QED BY <2>2, <2>3, <2>4 DEF FlowInv
<1>7. CASE UpdaterWait \/ Install
  <2>1. /\ UNCHANGED <<window, closing, stack, quit, timer, settings, pending, request>>
        /\ UNCHANGED <<work, inProgress, completion, message, chosen, never>>
    BY <1>7, Zenon DEF UpdaterWait, Install, loopVars, workVars, resultVars, ghostVars
  <2>2. /\ updater \in {"waiting", "installing"}
        /\ updater' \in {"installing", "failed", "done"}
        /\ process' = process \/ process' = "relaunched"
    BY <1>7 DEF UpdaterWait, Install
  <2>3. FlagsOK'
    BY <2>1, Zenon DEF FlagsOK, FlowInv
  <2>4. ValuesOK' /\ StackOK' /\ ClosingOK'
    BY <2>1, <2>2, KeptStack DEF ValuesOK, FlowInv, ClosingOK
  <2>5. WorkOK' /\ ResultsArrive'
    BY <2>1, <2>2 DEF WorkOK, DownloadIsChosen, ResultsArrive, FlowInv
  <2> QED BY <2>3, <2>4, <2>5 DEF FlowInv
<1>8. CASE UNCHANGED vars
  <2>1. /\ UNCHANGED <<process, window, closing, stack, quit, timer, settings, pending, request>>
        /\ UNCHANGED <<work, inProgress, completion, message, updater, chosen, never>>
    BY <1>8, Zenon DEF vars, loopVars, workVars, resultVars, ghostVars
  <2>2. FlagsOK'
    BY <2>1, Zenon DEF FlagsOK, FlowInv
  <2>3. ValuesOK' /\ StackOK' /\ ClosingOK'
    BY <2>1, KeptStack, KeptClosing DEF ValuesOK, FlowInv
  <2>4. WorkOK' /\ ResultsArrive'
    BY <2>1 DEF WorkOK, DownloadIsChosen, ResultsArrive, FlowInv
  <2> QED BY <2>2, <2>3, <2>4 DEF FlowInv
<1> QED BY <1>1, <1>2, <1>3, <1>4, <1>5, <1>6, <1>7, <1>8 DEF Next, WindowNext

LEMMA FlowInvariance == Spec => []FlowInv
  BY FlowInit, FlowNext, PTL DEF Spec

LEMMA FlowTypes == FlowInv => TypeOK
<1> SUFFICES ASSUME FlowInv PROVE TypeOK
  OBVIOUS
<1> USE DEF FlowInv
<1>1. {quit, timer, request, inProgress, message} \subseteq BOOLEAN
  BY Zenon DEF FlagsOK
<1>2. ASSUME NEW i \in DOMAIN stack
      PROVE  /\ stack[i].owner \in 0 .. i - 1 /\ stack[i].draft \in Settings
             /\ stack[i].outcome \in Answers(stack[i].kind)
             /\ stack[i].version \in VersionOrNone
  <2>1. i \in Nat /\ DialogOK(stack[i], i, chosen)
    BY <1>2 DEF StackOK
  <2> QED BY <2>1 DEF DialogOK, Dialogs
<1> QED BY <1>1, <1>2 DEF TypeOK, ValuesOK, WorkOK

(* One operation at a time, and none is forgotten (update_coordinator.cpp:     *)
(* BeginWork, FinishWork): a completion that keeps later operations out is on  *)
(* its way to the window, whatever dialogs are open and however they close.     *)
THEOREM CompletionsServed == Spec => []CompletionsAreServed
<1>1. FlowInv => CompletionsAreServed
  BY FlowTypes DEF FlowInv, CompletionsAreServed
<1> QED BY <1>1, FlowInvariance, PTL

(* An installer is downloaded, and handed over, only if "Update now" was         *)
(* selected for its version (native_window.cpp, PromptForUpdate): not when the    *)
(* prompt is closed, nor when it goes down with the window.                        *)
THEOREM DownloadsAreChosen == Spec => []DownloadIsChosen
<1>1. FlowInv => DownloadIsChosen
  BY DEF FlowInv, WorkOK
<1> QED BY <1>1, FlowInvariance, PTL

(* The updater is started once: from then on the window only closes              *)
(* (native_window.cpp, HandleUpdateCompletion).                                    *)
THEOREM HandedOffOnce == Spec => OneHandoff
<1> DEFINE Once == /\ updater' = "waiting" => updater \in {"none", "waiting"}
                   /\ updater # "none" /\ message /\ ~message' => window' = "destroyed"
<1>1. FlowInv /\ [Next]_vars => [Once]_vars
  <2> SUFFICES ASSUME FlowInv, Next PROVE Once
    OBVIOUS
  <2>1. CASE HandleCompletion
    <3>1. closing = <<>> /\ window = "open"
      BY <2>1 DEF HandleCompletion, AtRest, Dispatching
    <3> QED BY <3>1 DEF FlowInv, ClosingOK
  <2>2. CASE ~HandleCompletion
    <3>1. updater' # "waiting" \/ updater' = updater
      BY <2>2 DEF Next, WorkNext, WindowNext, FinishWork, ClearProgress, Post,
         StartupTimer, RequestCheck, HandleRequest, TellSaveFailure, OpenSettings,
         OpenPending, Answer, Exit, CloseDialog, CloseWindow, Leave, EndProcess,
         UpdaterWait, Install
    <3>2. message' = message \/ message' = TRUE \/ window' = "destroyed"
      BY <2>2, Zenon DEF Next, WorkNext, WindowNext, FinishWork, ClearProgress, Post,
         StartupTimer, RequestCheck, HandleRequest, TellSaveFailure, OpenSettings,
         OpenPending, Answer, Exit, CloseDialog, CloseWindow, Leave, EndProcess,
         UpdaterWait, Install, resultVars
    <3>3. updater' = "waiting" => updater \in {"none", "waiting"}
      BY <3>1
    <3>4. updater # "none" /\ message /\ ~message' => window' = "destroyed"
      BY <3>2, Zenon
    <3> QED BY <3>3, <3>4
  <2> QED BY <2>1, <2>2
<1> QED BY <1>1, FlowInvariance, PTL DEF Spec, OneHandoff
==============================================================================
