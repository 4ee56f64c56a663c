---------------------------- MODULE Desktop_proofs ----------------------------
(***************************************************************************)
(* Safety theorems about SettingsWriter, for any bound on the requests,      *)
(* about UpdateDownload, for any builds of any length, about GraphHistory,    *)
(* for rings of any size and any window and intervals, and about what the      *)
(* machines of MCDesktop promise together, from their own invariants.            *)
(***************************************************************************)
EXTENDS MCDesktop, SettingsDialog_proofs

\* The two halves of the type invariant: what the provers treat as formulas,
\* and what they treat as values.
WriterFlagsOK ==
  /\ stop \in BOOLEAN /\ timer \in BOOLEAN /\ failed \in BOOLEAN
  /\ success \in BOOLEAN /\ asked \in BOOLEAN /\ told \in BOOLEAN

WriterValuesOK ==
  /\ process \in {"up", "ended", "crashed"}
  /\ window \in {"none", "open", "destroyed"}
  /\ handler \in {"idle", "checked"}
  /\ worker \in {"waiting", "opening", "writing", "replacing", "saved",
                 "stored", "ended"}
  /\ requested \in 0 .. MaxRequests /\ pending \in {0, requested}
  /\ completed \in 0 .. requested
  /\ value \in 0 .. MaxRequests /\ file \in 0 .. MaxRequests
  /\ temporary \in {"none", "partial", "whole"}

Saving == worker \in {"opening", "writing", "replacing", "saved", "stored"}

\* Which request is where: saved completely < being saved < pending, and the
\* latest one is in exactly one of the three places.
OrderInv ==
  /\ Saving => completed < value /\ value <= requested
  /\ pending # 0 => completed < pending /\ (Saving => value < pending)
  /\ pending = 0 => requested = IF Saving THEN value ELSE completed

\* What success says of the file, from the return of Save on, and that a
\* failure is in failed_ or told from the moment its result is stored.
ResultInv ==
  /\ worker \in {"saved", "stored"} /\ success => file = value
  /\ worker \in {"waiting", "ended"} /\ success => file = completed
  /\ worker \in {"stored", "waiting", "ended"} /\ ~success => failed \/ told

\* A window that saved and has no timer has seen the latest save completed,
\* and has taken its failure unless it is just about to.
WatchInv ==
  /\ window = "none" => ~asked
  /\ window = "open" /\ asked /\ ~timer =>
       requested = completed /\ (handler = "idle" => ~failed)

\* The thread ends with nothing pending, and before the process.
EndInv ==
  /\ worker = "ended" => pending = 0
  /\ stop => window = "destroyed"
  /\ worker = "ended" => stop
  /\ process = "ended" => worker = "ended"

WriterIInv == WriterFlagsOK /\ WriterValuesOK /\ OrderInv /\ ResultInv /\ WatchInv /\ EndInv

LEMMA WriterTypeHalves == WriterTypeOK <=> WriterFlagsOK /\ WriterValuesOK
  BY DEF WriterTypeOK, WriterFlagsOK, WriterValuesOK

\* One request under the mutex keeps the types and the order of the slots.
LEMMA RequestKeepsOrder ==
  ASSUME WriterValuesOK, OrderInv, Request, UNCHANGED <<worker, value>>
  PROVE  /\ requested' \in 0 .. MaxRequests /\ pending' \in {0, requested'}
         /\ pending' # 0 /\ completed' \in 0 .. requested'
         /\ completed' = completed /\ UNCHANGED failed
         /\ OrderInv'
  BY WriterAssumption DEF WriterValuesOK, OrderInv, Saving, Request

LEMMA WriterInitIInv == WriterInit => WriterIInv
<1> SUFFICES ASSUME WriterInit PROVE WriterIInv
  OBVIOUS
<1> USE DEF WriterInit
<1>1. WriterFlagsOK
  BY Zenon DEF WriterFlagsOK
<1>2. WriterValuesOK
  BY WriterAssumption DEF WriterValuesOK
<1>3. OrderInv
  BY DEF OrderInv, Saving
<1>4. ResultInv /\ WatchInv /\ EndInv
  BY DEF ResultInv, WatchInv, EndInv
<1> QED BY <1>1, <1>2, <1>3, <1>4 DEF WriterIInv

LEMMA WriterNextIInv == WriterIInv /\ [WriterNext]_writerVars => WriterIInv'
<1> SUFFICES ASSUME WriterIInv, [WriterNext]_writerVars PROVE WriterIInv'
  OBVIOUS
<1> USE DEF WriterIInv
<1>1. CASE Migrate
  <2>1. WriterFlagsOK'
    BY <1>1, Zenon DEF Migrate, WriterFlagsOK, Request, windowVars, saveVars
  <2>2. WriterValuesOK' /\ OrderInv'
    BY <1>1, RequestKeepsOrder DEF Migrate, WriterValuesOK, windowVars, saveVars
  <2>3. ResultInv' /\ WatchInv' /\ EndInv'
    BY <1>1, RequestKeepsOrder DEF Migrate, WriterValuesOK, ResultInv, WatchInv,
       EndInv, windowVars, saveVars
  <2> QED BY <2>1, <2>2, <2>3
<1>2. CASE OpenWindow
  <2>1. WriterFlagsOK'
    BY <1>2, Zenon DEF OpenWindow, WriterFlagsOK, slotVars, saveVars
  <2>2. WriterValuesOK' /\ OrderInv'
    BY <1>2 DEF OpenWindow, WriterValuesOK, OrderInv, Saving, slotVars, saveVars
  <2>3. ResultInv' /\ WatchInv' /\ EndInv'
    BY <1>2 DEF OpenWindow, WriterValuesOK, ResultInv, WatchInv, EndInv, slotVars,
       saveVars
  <2> QED BY <2>1, <2>2, <2>3
<1>3. CASE SaveSettings
  <2>1. WriterFlagsOK'
    BY <1>3, Zenon DEF SaveSettings, WriterFlagsOK, Request, saveVars
  <2>2. WriterValuesOK' /\ OrderInv'
    BY <1>3, RequestKeepsOrder DEF SaveSettings, WriterValuesOK, saveVars
  <2>3. ResultInv' /\ WatchInv' /\ EndInv'
    BY <1>3, RequestKeepsOrder DEF SaveSettings, WriterValuesOK, ResultInv, WatchInv,
       EndInv, saveVars
  <2> QED BY <2>1, <2>2, <2>3
<1>4. CASE CheckPending
  <2>1. WriterFlagsOK'
    BY <1>4, Zenon DEF CheckPending, WriterFlagsOK, slotVars, saveVars
  <2>2. WriterValuesOK' /\ OrderInv'
    BY <1>4 DEF CheckPending, WriterValuesOK, OrderInv, Saving, slotVars, saveVars
  <2>3. ResultInv' /\ WatchInv' /\ EndInv'
    BY <1>4 DEF CheckPending, WriterValuesOK, ResultInv, WatchInv, EndInv, slotVars,
       saveVars
  <2> QED BY <2>1, <2>2, <2>3
<1>5. CASE TakeFailure
  <2>1. WriterFlagsOK'
    BY <1>5, Zenon DEF TakeFailure, WriterFlagsOK, saveVars
  <2>2. WriterValuesOK' /\ OrderInv'
    BY <1>5 DEF TakeFailure, WriterValuesOK, OrderInv, Saving, saveVars
  <2>3. ResultInv' /\ WatchInv' /\ EndInv'
    BY <1>5 DEF TakeFailure, WriterValuesOK, ResultInv, WatchInv, EndInv, saveVars
  <2> QED BY <2>1, <2>2, <2>3
<1>6. CASE Destroy
  <2>1. WriterFlagsOK'
    BY <1>6, Zenon DEF Destroy, WriterFlagsOK, Request, saveVars
  <2>2. WriterValuesOK' /\ OrderInv'
    BY <1>6, RequestKeepsOrder DEF Destroy, WriterValuesOK, saveVars
  <2>3. ResultInv' /\ WatchInv' /\ EndInv'
    BY <1>6, RequestKeepsOrder DEF Destroy, WriterValuesOK, ResultInv, WatchInv,
       EndInv, saveVars
  <2> QED BY <2>1, <2>2, <2>3
<1>7. CASE RequestStop
  <2>1. WriterFlagsOK'
    BY <1>7, Zenon DEF RequestStop, WriterFlagsOK, slotVars, saveVars
  <2>2. WriterValuesOK' /\ OrderInv'
    BY <1>7 DEF RequestStop, WriterValuesOK, OrderInv, Saving, slotVars, saveVars
  <2>3. ResultInv' /\ WatchInv' /\ EndInv'
    BY <1>7 DEF RequestStop, WriterValuesOK, ResultInv, WatchInv, EndInv, slotVars,
       saveVars
  <2> QED BY <2>1, <2>2, <2>3
<1>8. CASE Join
  <2>1. WriterFlagsOK'
    BY <1>8, Zenon DEF Join, WriterFlagsOK, windowVars, slotVars, saveVars
  <2>2. WriterValuesOK' /\ OrderInv'
    BY <1>8 DEF Join, WriterValuesOK, OrderInv, Saving, windowVars, slotVars, saveVars
  <2>3. ResultInv' /\ WatchInv' /\ EndInv'
    BY <1>8 DEF Join, WriterValuesOK, ResultInv, WatchInv, EndInv, windowVars,
       slotVars, saveVars
  <2> QED BY <2>1, <2>2, <2>3
<1>9. CASE Take
  <2>1. WriterFlagsOK'
    BY <1>9, Zenon DEF Take, WriterFlagsOK, windowVars
  <2>2. WriterValuesOK' /\ OrderInv'
    BY <1>9 DEF Take, WriterValuesOK, OrderInv, Saving, windowVars
  <2>3. ResultInv' /\ WatchInv' /\ EndInv'
    BY <1>9 DEF Take, WriterValuesOK, ResultInv, WatchInv, EndInv, windowVars
  <2> QED BY <2>1, <2>2, <2>3
<1>10. CASE OpenTemporary
  <2>1. WriterFlagsOK'
    BY <1>10, Zenon DEF OpenTemporary, WriterFlagsOK, Return, windowVars, slotVars
  <2>2. WriterValuesOK' /\ OrderInv'
    BY <1>10 DEF OpenTemporary, WriterValuesOK, OrderInv, Saving, Return, windowVars,
       slotVars
  <2>3. ResultInv' /\ WatchInv' /\ EndInv'
    BY <1>10 DEF OpenTemporary, WriterValuesOK, ResultInv, WatchInv, EndInv, Return,
       windowVars, slotVars
  <2> QED BY <2>1, <2>2, <2>3
<1>11. CASE WriteTemporary
  <2>1. WriterFlagsOK'
    BY <1>11, Zenon DEF WriteTemporary, WriterFlagsOK, Return, windowVars, slotVars
  <2>2. WriterValuesOK' /\ OrderInv'
    BY <1>11 DEF WriteTemporary, WriterValuesOK, OrderInv, Saving, Return, windowVars,
       slotVars
  <2>3. ResultInv' /\ WatchInv' /\ EndInv'
    BY <1>11 DEF WriteTemporary, WriterValuesOK, ResultInv, WatchInv, EndInv, Return,
       windowVars, slotVars
  <2> QED BY <2>1, <2>2, <2>3
<1>12. CASE Replace
  <2>1. WriterFlagsOK'
    BY <1>12, Zenon DEF Replace, WriterFlagsOK, Return, windowVars, slotVars
  <2>2. WriterValuesOK' /\ OrderInv'
    BY <1>12 DEF Replace, WriterValuesOK, OrderInv, Saving, Return, windowVars,
       slotVars
  <2>3. ResultInv' /\ WatchInv' /\ EndInv'
    BY <1>12 DEF Replace, WriterValuesOK, ResultInv, WatchInv, EndInv, Return,
       windowVars, slotVars
  <2> QED BY <2>1, <2>2, <2>3
<1>13. CASE Store
  <2>1. /\ \/ /\ worker = "saved" /\ worker' = "stored"
              /\ UNCHANGED value /\ UNCHANGED completed
           \/ /\ worker = "stored" /\ worker' = "waiting"
              /\ value' = 0 /\ completed' = value
        /\ UNCHANGED process /\ UNCHANGED window /\ UNCHANGED handler
        /\ UNCHANGED requested /\ UNCHANGED pending
        /\ UNCHANGED temporary /\ UNCHANGED file
    BY <1>13, Zenon DEF Store, windowVars
  <2>2. WriterFlagsOK'
    BY <1>13, Zenon DEF Store, WriterFlagsOK, windowVars
  <2>3. WriterValuesOK' /\ OrderInv'
    BY <2>1, WriterAssumption DEF WriterValuesOK, OrderInv, Saving
  \* The save that is stored is not completed yet, so the window, if it has
  \* saved anything, still has its timer.
  <2>4. requested # completed
    BY <1>13 DEF Store, WriterValuesOK, OrderInv, Saving
  <2>5. ResultInv' /\ WatchInv' /\ EndInv'
    BY <1>13, <2>4 DEF Store, ResultInv, WatchInv, EndInv, windowVars
  <2> QED BY <2>2, <2>3, <2>5
<1>14. CASE Crash
  <2>1. WriterFlagsOK'
    BY <1>14, Zenon DEF Crash, WriterFlagsOK, windowVars, slotVars, saveVars
  <2>2. WriterValuesOK' /\ OrderInv'
    BY <1>14 DEF Crash, WriterValuesOK, OrderInv, Saving, windowVars, slotVars,
       saveVars
  <2>3. ResultInv' /\ WatchInv' /\ EndInv'
    BY <1>14 DEF Crash, WriterValuesOK, ResultInv, WatchInv, EndInv, windowVars,
       slotVars, saveVars
  <2> QED BY <2>1, <2>2, <2>3
<1>15. CASE Restart
  <2>1. WriterFlagsOK'
    BY <1>15, Zenon DEF Restart, WriterFlagsOK
  <2>2. WriterValuesOK' /\ OrderInv'
    BY <1>15, WriterAssumption DEF Restart, WriterValuesOK, OrderInv, Saving
  <2>3. ResultInv' /\ WatchInv' /\ EndInv'
    BY <1>15 DEF Restart, WriterValuesOK, ResultInv, WatchInv, EndInv
  <2> QED BY <2>1, <2>2, <2>3
<1>16. CASE UNCHANGED writerVars
  BY <1>16 DEF writerVars, WriterFlagsOK, WriterValuesOK, OrderInv, ResultInv, WatchInv, EndInv,
     Saving, windowVars, slotVars, saveVars
<1> QED
  BY <1>1, <1>2, <1>3, <1>4, <1>5, <1>6, <1>7, <1>8, <1>9, <1>10, <1>11, <1>12,
     <1>13, <1>14, <1>15, <1>16
     DEF WriterNext, WindowNext, WorkerNext

LEMMA WriterInvariance == WriterSpec => []WriterIInv
  BY WriterInitIInv, WriterNextIInv, PTL DEF WriterSpec

-----------------------------------------------------------------------------
\* Every variable keeps its type, completed_ never overtakes requested_, and
\* the slot holds nothing but the latest settings.
THEOREM WriterTypeCorrect == WriterSpec => []WriterTypeOK
<1>1. WriterIInv => WriterTypeOK
  BY WriterTypeHalves DEF WriterIInv
<1> QED BY WriterInvariance, <1>1, PTL

\* When the window has stopped watching, its settings are in the file or the
\* failure was told (Run stores failed_ before completed_; the timer's handler
\* reads Pending before it takes the failure).
THEOREM NothingIsLostSilently == WriterSpec => []NothingLostSilently
<1>1. WriterIInv => NothingLostSilently
  BY DEF WriterIInv, WriterValuesOK, OrderInv, ResultInv, WatchInv, NothingLostSilently,
     Saving
<1> QED BY WriterInvariance, <1>1, PTL

\* The writer's destructor flushes the final settings.
THEOREM ExitFlushes == WriterSpec => []FlushedAtExit
<1>1. WriterIInv => FlushedAtExit
  BY DEF WriterIInv, WriterValuesOK, OrderInv, ResultInv, EndInv, FlushedAtExit, Saving
<1> QED BY WriterInvariance, <1>1, PTL

-----------------------------------------------------------------------------
(* The files of a download. *)

\* What stands in the .partial file from its verification to the move is the whole
\* build or what others put in its place, of which nothing verifies.
MoveIsVerified == fetch = "move" => partialFile \in {Absent, Foreign, Whole(goal)}

\* Between two downloads, or with one done, a .partial file has a reason to be there.
PartialHasReason == fetch \in {"idle", "ready"} /\ partialFile # Absent => left

DownloadIInv == /\ DownloadTypeOK /\ SetupRunsVerified /\ CompletedIsWhole
        /\ MoveIsVerified /\ PartialHasReason

\* What every step below is about: the files, and who reads and writes them.
LEMMA FileTypes ==
    /\ Absent \in Files /\ Foreign \in Files
    /\ \A b \in Builds : Whole(b) \in Files /\ [build |-> b, size |-> 0] \in Files
    /\ \A f \in Files : f.build \in Builds /\ f.size < Full =>
                            [f EXCEPT !.size = @ + 1] \in Files
  BY DownloadAssumption DEF Files, Absent, Foreign, Whole

LEMMA DownloadInitIInv == DownloadInit => DownloadIInv
  BY FileTypes DEF DownloadInit, DownloadIInv, DownloadTypeOK, SetupRunsVerified, CompletedIsWhole,
     MoveIsVerified, PartialHasReason

\* The steps of the download itself.
LEMMA DownloadFetchIInv ==
  ASSUME DownloadIInv,
         \/ \E b \in Builds : BeginDownload(b)
         \/ OpenUrl \/ CreatePartial \/ Receive \/ EndReceive \/ Verify \/ Move \/ Cleanup
         \/ HandOff
  PROVE  DownloadIInv'
<1> USE DEF DownloadIInv, updaterVars, Goes
<1>1. CASE \E b \in Builds : BeginDownload(b)
  <2>1. PICK b \in Builds : BeginDownload(b)
    BY <1>1
  <2>2. DownloadTypeOK'
    BY <2>1, FileTypes DEF BeginDownload, DownloadTypeOK
  <2>3. SetupRunsVerified' /\ CompletedIsWhole'
    BY <2>1 DEF BeginDownload, SetupRunsVerified, CompletedIsWhole
  <2>4. MoveIsVerified' /\ PartialHasReason'
    BY <2>1 DEF BeginDownload, MoveIsVerified, PartialHasReason
  <2> QED BY <2>2, <2>3, <2>4
<1>2. CASE OpenUrl
  BY <1>2 DEF OpenUrl, DownloadTypeOK, SetupRunsVerified, CompletedIsWhole,
     MoveIsVerified, PartialHasReason
<1>3. CASE CreatePartial
  BY <1>3, FileTypes DEF CreatePartial, DownloadTypeOK, SetupRunsVerified, CompletedIsWhole,
     MoveIsVerified, PartialHasReason
<1>4. CASE Receive
  <2>1. partialFile' \in Files
    BY <1>4, FileTypes DEF Receive, DownloadTypeOK
  <2>2. fetch' \in {"receive", "cleanup"}
    BY <1>4 DEF Receive
  <2> QED BY <1>4, <2>1, <2>2 DEF Receive, DownloadTypeOK, SetupRunsVerified, CompletedIsWhole,
             MoveIsVerified, PartialHasReason
<1>5. CASE EndReceive
  BY <1>5 DEF EndReceive, DownloadTypeOK, SetupRunsVerified, CompletedIsWhole,
     MoveIsVerified, PartialHasReason
<1>6. CASE Verify
  BY <1>6 DEF Verify, VerifyFileSha256, DownloadTypeOK, SetupRunsVerified, CompletedIsWhole,
     MoveIsVerified, PartialHasReason
<1>7. CASE Move
  <2>1. installer' \in {installer, Absent, Foreign, Whole(goal)}
    BY <1>7 DEF Move, MoveIsVerified
  <2>2. updater = "run" => installer' = installer
    BY <1>7 DEF Move, Held
  <2> QED BY <1>7, <2>1, <2>2, FileTypes DEF Move, DownloadTypeOK, SetupRunsVerified,
             CompletedIsWhole, MoveIsVerified, PartialHasReason
<1>8. CASE Cleanup
  BY <1>8, FileTypes DEF Cleanup, DownloadTypeOK, SetupRunsVerified, CompletedIsWhole,
     MoveIsVerified, PartialHasReason
<1>9. CASE HandOff
  BY <1>9 DEF HandOff, DownloadTypeOK, SetupRunsVerified, CompletedIsWhole,
     MoveIsVerified, PartialHasReason
<1> QED BY <1>1, <1>2, <1>3, <1>4, <1>5, <1>6, <1>7, <1>8, <1>9

\* The steps of the updater.
LEMMA DownloadUpdaterIInv ==
  ASSUME DownloadIInv, Wait \/ Open \/ SetupEnds \/ DeleteInstaller \/ UpdaterEnds
  PROVE  DownloadIInv'
<1> USE DEF DownloadIInv, FetchUnchanged, Relaunch
<1>1. CASE Wait
  BY <1>1 DEF Wait, DownloadTypeOK, SetupRunsVerified, CompletedIsWhole,
     MoveIsVerified, PartialHasReason
<1>2. CASE Open
  BY <1>2 DEF Open, VerifyFileSha256, DownloadTypeOK, SetupRunsVerified, CompletedIsWhole,
     MoveIsVerified, PartialHasReason
<1>3. CASE SetupEnds
  BY <1>3 DEF SetupEnds, DownloadTypeOK, SetupRunsVerified, CompletedIsWhole,
     MoveIsVerified, PartialHasReason
<1>4. CASE DeleteInstaller
  BY <1>4, FileTypes DEF DeleteInstaller, DownloadTypeOK, SetupRunsVerified, CompletedIsWhole,
     MoveIsVerified, PartialHasReason
<1>5. CASE UpdaterEnds
  BY <1>5 DEF UpdaterEnds, DownloadTypeOK, SetupRunsVerified, CompletedIsWhole,
     MoveIsVerified, PartialHasReason
<1> QED BY <1>1, <1>2, <1>3, <1>4, <1>5

\* The application's end and start, and what others do to the files.
LEMMA DownloadOthersIInv ==
  ASSUME DownloadIInv, ApplicationEnds \/ UserStarts \/ ReplaceInstaller \/ ReplacePartial
  PROVE  DownloadIInv'
<1> USE DEF DownloadIInv, updaterVars, FetchUnchanged
<1>1. CASE ApplicationEnds
  BY <1>1 DEF ApplicationEnds, DownloadTypeOK, SetupRunsVerified, CompletedIsWhole,
     MoveIsVerified, PartialHasReason
<1>2. CASE UserStarts
  BY <1>2 DEF UserStarts, DownloadTypeOK, SetupRunsVerified, CompletedIsWhole,
     MoveIsVerified, PartialHasReason
<1>3. CASE ReplaceInstaller
  BY <1>3, FileTypes DEF ReplaceInstaller, Held, DownloadTypeOK, SetupRunsVerified,
     CompletedIsWhole, MoveIsVerified, PartialHasReason
<1>4. CASE ReplacePartial
  BY <1>4, FileTypes DEF ReplacePartial, DownloadTypeOK, SetupRunsVerified, CompletedIsWhole,
     MoveIsVerified, PartialHasReason
<1> QED BY <1>1, <1>2, <1>3, <1>4

LEMMA DownloadNextIInv == DownloadIInv /\ [DownloadNext]_downloadVars => DownloadIInv'
<1> SUFFICES ASSUME DownloadIInv, [DownloadNext]_downloadVars PROVE DownloadIInv'
  OBVIOUS
<1>1. CASE UNCHANGED downloadVars
  BY <1>1 DEF downloadVars, DownloadIInv, DownloadTypeOK, SetupRunsVerified, CompletedIsWhole,
     MoveIsVerified, PartialHasReason
<1>2. CASE DownloadNext
  BY <1>2, DownloadFetchIInv, DownloadUpdaterIInv, DownloadOthersIInv DEF DownloadNext
<1> QED BY <1>1, <1>2

LEMMA DownloadInvariance == DownloadSpec => []DownloadIInv
<1>1. DownloadInit => DownloadIInv
  BY DownloadInitIInv
<1>2. DownloadIInv /\ [DownloadNext]_downloadVars => DownloadIInv'
  BY DownloadNextIInv
<1> QED BY <1>1, <1>2, PTL DEF DownloadSpec

(* Whatever is downloaded, interrupted, handed off or put in their place by others,  *)
(* the variables that stand for the directory's files stay files                      *)
(* (update_client.cpp:95-151, updater_main.cpp:60-107).                                 *)
THEOREM DownloadTypeCorrect == DownloadSpec => []DownloadTypeOK
<1>1. DownloadIInv => DownloadTypeOK
  BY DEF DownloadIInv
<1> QED BY DownloadInvariance, <1>1, PTL

(* Setup runs from the build that the manifest named and from nothing else, no part  *)
(* of a build stands under the installer's name and no .partial file outlives a        *)
(* download without a reason (update_client.cpp:113-151, updater_main.cpp:74-92).       *)
THEOREM DownloadSound == DownloadSpec => []DownloadIsSound
<1>1. DownloadIInv => DownloadIsSound
  BY DEF DownloadIInv, DownloadIsSound, PartialHasReason, PartialIsTemporary
<1> QED BY DownloadInvariance, <1>1, PTL

-----------------------------------------------------------------------------
\* The graph's history.

\* A set of numbers has a least one.
LEMMA LeastNumber ==
  ASSUME NEW S \in SUBSET Nat, S # {}
  PROVE  \E m \in S : \A n \in S : m <= n
<1> DEFINE R == OpToRel(<, Nat)
<1>1. IsWellFoundedOn(R, Nat)
  BY NatLessThanWellFounded, Zenon
<1>2. PICK m \in S : \A y \in S : ~ (<<y, m>> \in R)
  <2> HIDE DEF R
  <2> QED BY <1>1, WFMin
<1>3. \A y \in Nat : y < m => <<y, m>> \in R
  BY DEF OpToRel
<1> HIDE DEF R
<1>4. ASSUME NEW n \in S PROVE m <= n
  <2>1. n \in Nat /\ m \in Nat
    OBVIOUS
  <2>2. ~(n < m)
    BY <1>2, <1>3, <2>1, Zenon
  <2> QED BY <2>1, <2>2
<1> QED BY <1>4

\* What expires is a beginning of the ring, and is counted.
LEMMA Beginning ==
  ASSUME NEW n \in Nat, NEW E \in SUBSET (1..n),
         \A j, k \in 1..n : j < k /\ k \in E => j \in E
  PROVE  Cardinality(E) \in 0..n /\ E = 1..Cardinality(E)
<1> DEFINE F == {k \in Nat : k # 0 /\ k \notin E}
<1>1. n + 1 \in F /\ F \in SUBSET Nat
  OBVIOUS
<1>2. PICK p \in F : \A k \in F : p <= k
  <2> HIDE DEF F
  <2> QED BY <1>1, LeastNumber
<1>3. p \in Nat /\ p # 0 /\ p <= n + 1 /\ p \notin E
  BY <1>1, <1>2
<1>4. ASSUME NEW k \in 1..p - 1 PROVE k \in E
  BY <1>2, <1>3
<1>5. ASSUME NEW k \in E PROVE k \in 1..p - 1
  <2>1. k \in 1..n /\ k # p
    BY <1>3
  <2>2. ~(p < k)
    BY <1>3, <2>1
  <2> QED BY <1>3, <2>1, <2>2
<1>6. E = 1..p - 1
  BY <1>4, <1>5
<1>7. Cardinality(1..p - 1) = p - 1
  BY <1>3, FS_Interval
<1> QED BY <1>3, <1>6, <1>7

\* Positions in a ring.
LEMMA Wrapped ==
  ASSUME NEW x \in Cells, NEW m \in 0..Capacity
  PROVE  /\ (x + m) % Capacity \in Cells
         /\ x + m < Capacity => (x + m) % Capacity = x + m
         /\ x + m >= Capacity => (x + m) % Capacity = x + m - Capacity
         /\ m >= 1 /\ x + m - 1 < Capacity => (x + m - 1) % Capacity = x + m - 1
         /\ m >= 1 /\ x + m - 1 >= Capacity => (x + m - 1) % Capacity = x + m - 1 - Capacity
<1>1. Capacity \in Nat /\ Capacity >= 1 /\ x \in 0..Capacity - 1
  BY GraphAssumption DEF Cells
<1>2. m \in Nat /\ x \in Nat /\ x + m < 2 * Capacity
  BY <1>1
<1>3. (x + m) % Capacity \in 0..Capacity - 1
  BY <1>1, <1>2
<1>4. ASSUME x + m < Capacity PROVE (x + m) % Capacity = x + m
  BY <1>1, <1>2, <1>4
<1>5. ASSUME x + m >= Capacity PROVE (x + m) % Capacity = x + m - Capacity
  BY <1>1, <1>2, <1>5
<1>6. ASSUME m >= 1, x + m - 1 < Capacity PROVE (x + m - 1) % Capacity = x + m - 1
  BY <1>1, <1>2, <1>6
<1>7. ASSUME m >= 1, x + m - 1 >= Capacity
      PROVE  (x + m - 1) % Capacity = x + m - 1 - Capacity
  BY <1>1, <1>2, <1>7
<1> QED BY <1>3, <1>4, <1>5, <1>6, <1>7 DEF Cells

Rings == [id : GraphIds \cup {"none"}, stamps : [Cells -> Ticks], breaks : [Cells -> BOOLEAN],
          first : Cells, count : 0..Capacity, gap : BOOLEAN, available : BOOLEAN]

\* A ring holds, oldest first, times of tk that are younger than h at the given tick,
\* and of tk it lacks only what is not, and what was dropped when it was full.
Window(s, tk, tick, h) ==
    /\ \A k \in 1..s.count : Timestamp(s, k) \in tk /\ tick - Timestamp(s, k) < h
    /\ \A j, k \in 1..s.count : j < k => Timestamp(s, j) < Timestamp(s, k)
    /\ \A t \in tk : \/ \E k \in 1..s.count : Timestamp(s, k) = t
                     \/ tick - t >= h
                     \/ s.count = Capacity /\ t < Timestamp(s, 1)

\* No line bridges an outage, and a line can be drawn on only from the last sample.
Joined(s, sample) ==
    /\ \A k \in 2..s.count : \/ BreakBefore(s, k)
                             \/ Timestamp(s, k) - Timestamp(s, k - 1) < RefreshTime + StaleTime
    /\ s.count # 0 /\ ~s.gap => Timestamp(s, s.count) = sample

Series(s, tk, tick, h, sample) ==
    s \in Rings /\ tk \subseteq 1..sample /\ Window(s, tk, tick, h) /\ Joined(s, sample)

\* A ring that has lost its m oldest samples.
Dropped(s, m) == [s EXCEPT !.first = (@ + m) % Capacity, !.count = @ - m]

LEMMA CellOf ==
  ASSUME NEW s \in Rings, NEW k \in 1..Capacity
  PROVE  /\ s.first + k - 1 < Capacity => Cell(s, k) = s.first + k - 1
         /\ s.first + k - 1 >= Capacity => Cell(s, k) = s.first + k - 1 - Capacity
         /\ Cell(s, k) \in Cells
<1>1. s.first \in Cells /\ k \in 0..Capacity /\ k >= 1
  BY GraphAssumption DEF Rings
<1>2. /\ s.first + k - 1 < Capacity => Cell(s, k) = s.first + k - 1
      /\ s.first + k - 1 >= Capacity => Cell(s, k) = s.first + k - 1 - Capacity
  BY <1>1, Wrapped, Zenon DEF Cell
<1>3. s.first \in 0..Capacity - 1 /\ Capacity \in Nat
  BY <1>1, GraphAssumption DEF Cells
<1> QED BY <1>2, <1>3 DEF Cells

LEMMA DroppedRing ==
  ASSUME NEW s \in Rings, NEW m \in 0..s.count
  PROVE  /\ Dropped(s, m) \in Rings /\ Dropped(s, m).count = s.count - m
         /\ Dropped(s, m).gap = s.gap /\ Dropped(s, m).id = s.id
         /\ Dropped(s, m).available = s.available
         /\ \A k \in 1..s.count - m : /\ Timestamp(Dropped(s, m), k) = Timestamp(s, k + m)
                                      /\ BreakBefore(Dropped(s, m), k) = BreakBefore(s, k + m)
<1> DEFINE d == Dropped(s, m)
<1>1. s.first \in 0..Capacity - 1 /\ s.count \in 0..Capacity /\ Capacity \in Nat /\ Capacity >= 1
  BY GraphAssumption DEF Rings, Cells
<1>2. /\ (s.first + m) % Capacity \in Cells
      /\ s.first + m < Capacity => (s.first + m) % Capacity = s.first + m
      /\ s.first + m >= Capacity => (s.first + m) % Capacity = s.first + m - Capacity
  <2>1. s.first \in Cells /\ m \in 0..Capacity
    BY <1>1 DEF Rings
  <2> QED BY <2>1, Wrapped, Zenon
<1>3. (s.first + m) % Capacity \in Cells /\ s.count - m \in 0..Capacity
  BY <1>1, <1>2 DEF Cells
<1>4. /\ d \in Rings /\ d.count = s.count - m /\ d.first = (s.first + m) % Capacity
      /\ d.gap = s.gap /\ d.id = s.id /\ d.available = s.available
      /\ d.stamps = s.stamps /\ d.breaks = s.breaks
  BY <1>3 DEF Dropped, Rings
<1> HIDE DEF d
<1>5. ASSUME NEW k \in 1..s.count - m PROVE Cell(d, k) = Cell(s, k + m)
  <2>1. k \in 1..Capacity /\ k + m \in 1..Capacity
    BY <1>1
  <2>2. /\ d.first + k - 1 < Capacity => Cell(d, k) = d.first + k - 1
        /\ d.first + k - 1 >= Capacity => Cell(d, k) = d.first + k - 1 - Capacity
        /\ s.first + (k + m) - 1 < Capacity => Cell(s, k + m) = s.first + (k + m) - 1
        /\ s.first + (k + m) - 1 >= Capacity => Cell(s, k + m) = s.first + (k + m) - 1 - Capacity
    BY <1>4, <2>1, CellOf
  <2> QED BY <1>1, <1>2, <1>4, <2>1, <2>2
<1> QED BY <1>4, <1>5 DEF d, Timestamp, BreakBefore

LEMMA RingTimes ==
  ASSUME NEW s \in Rings, NEW k \in 1..s.count
  PROVE  Timestamp(s, k) \in Ticks /\ BreakBefore(s, k) \in BOOLEAN
<1>1. k \in 1..Capacity
  BY GraphAssumption DEF Rings
<1>2. Cell(s, k) \in Cells
  BY <1>1, CellOf
<1> QED BY <1>2 DEF Timestamp, BreakBefore, Rings

\* Ageing drops what is too old, and nothing else.
LEMMA AgedRing ==
  ASSUME NEW s \in Rings, NEW tk \in SUBSET Nat, NEW last \in Nat, NEW tick \in Nat,
         last <= tick, history \in Nat, Window(s, tk, last, history)
  PROVE  \E m \in 0..s.count : /\ Aged(s, tick) = Dropped(s, m)
                               /\ Window(Dropped(s, m), tk, tick, history)
<1> DEFINE E == Expired(s, tick)
           m == Cardinality(E)
           d == Dropped(s, m)
<1>1. s.count \in Nat /\ \A k \in 1..s.count : Timestamp(s, k) \in Nat
  BY RingTimes, GraphAssumption DEF Rings, Ticks
<1>2. E \in SUBSET (1..s.count)
  BY DEF Expired
<1>3. ASSUME NEW j \in 1..s.count, NEW k \in 1..s.count, j < k, k \in E PROVE j \in E
  <2>1. Timestamp(s, j) < Timestamp(s, k) /\ tick - Timestamp(s, k) >= history
    BY <1>3 DEF Window, Expired
  <2>2. Timestamp(s, j) \in Nat /\ Timestamp(s, k) \in Nat
    BY <1>1
  <2>3. tick - Timestamp(s, j) >= history
    BY <2>1, <2>2
  <2> QED BY <2>3 DEF Expired
<1>4. m \in 0..s.count /\ E = 1..m
  <2> HIDE DEF E
  <2> QED BY <1>1, <1>2, <1>3, Beginning
<1>5. Aged(s, tick) = d
  BY DEF Aged, Dropped
<1> HIDE DEF m
<1>6. /\ d \in Rings /\ d.count = s.count - m /\ d.count \in Nat
      /\ \A k \in 1..s.count - m : Timestamp(d, k) = Timestamp(s, k + m)
  BY <1>1, <1>4, DroppedRing
<1> HIDE DEF d
<1>7. ASSUME NEW k \in 1..d.count
      PROVE  /\ k + m \in 1..s.count /\ k + m \notin E
             /\ Timestamp(d, k) = Timestamp(s, k + m)
  <2>1. k \in 1..s.count - m
    BY <1>6
  <2>2. k + m \in 1..s.count /\ ~(k + m \in 1..m)
    BY <1>1, <1>4, <2>1
  <2> QED BY <1>4, <1>6, <2>1, <2>2, Zenon
<1>8. ASSUME NEW k \in 1..d.count PROVE Timestamp(d, k) \in tk /\ tick - Timestamp(d, k) < history
  <2>1. Timestamp(s, k + m) \in tk /\ ~(tick - Timestamp(s, k + m) >= history)
    BY <1>7 DEF Window, Expired
  <2>2. Timestamp(s, k + m) \in Nat
    BY <2>1
  <2> QED BY <1>7, <2>1, <2>2
<1>9. ASSUME NEW j \in 1..d.count, NEW k \in 1..d.count, j < k
      PROVE  Timestamp(d, j) < Timestamp(d, k)
  <2>1. j + m < k + m
    BY <1>4, <1>6, <1>9
  <2>2. j + m \in 1..s.count /\ k + m \in 1..s.count
    BY <1>7
  <2>3. Timestamp(s, j + m) < Timestamp(s, k + m)
    BY <2>1, <2>2 DEF Window
  <2> QED BY <1>7, <2>3
<1>10. ASSUME NEW t \in tk
       PROVE  \/ \E k \in 1..d.count : Timestamp(d, k) = t
              \/ tick - t >= history
              \/ d.count = Capacity /\ t < Timestamp(d, 1)
  <2>1. CASE \E k \in 1..s.count : Timestamp(s, k) = t
    <3>1. PICK k \in 1..s.count : Timestamp(s, k) = t
      BY <2>1
    <3>2. CASE k \in E
      BY <3>1, <3>2 DEF Expired
    <3>3. CASE k \notin E
      <4>1. k - m \in 1..d.count /\ k - m + m = k
        BY <1>1, <1>4, <1>6, <3>3
      <4>2. Timestamp(d, k - m) = t
        BY <1>7, <3>1, <4>1
      <4> QED BY <4>1, <4>2
    <3> QED BY <3>2, <3>3
  <2>2. CASE last - t >= history
    BY <2>2
  <2>3. CASE s.count = Capacity /\ t < Timestamp(s, 1)
    <3>1. CASE m = 0
      <4>1. d.count = Capacity /\ 1 \in 1..d.count
        BY <1>1, <1>6, <2>3, <3>1, GraphAssumption
      <4>2. Timestamp(d, 1) = Timestamp(s, 1)
        BY <1>7, <3>1, <4>1
      <4> QED BY <2>3, <4>1, <4>2
    <3>2. CASE m # 0
      <4>1. 1 \in E
        BY <1>4, <3>2
      <4>2. tick - Timestamp(s, 1) >= history /\ Timestamp(s, 1) \in Nat
        BY <1>1, <1>2, <4>1 DEF Expired
      <4> QED BY <2>3, <4>2
    <3> QED BY <3>1, <3>2
  <2> QED BY <2>1, <2>2, <2>3 DEF Window
<1>11. Window(d, tk, tick, history)
  BY <1>8, <1>9, <1>10 DEF Window
<1> QED BY <1>4, <1>5, <1>11 DEF d

LEMMA DroppedJoined ==
  ASSUME NEW s \in Rings, NEW m \in 0..s.count, NEW sample, Joined(s, sample)
  PROVE  Joined(Dropped(s, m), sample)
<1> DEFINE d == Dropped(s, m)
<1>1. s.count \in Nat
  BY GraphAssumption DEF Rings
<1>2. /\ d.count = s.count - m /\ d.gap = s.gap
      /\ \A k \in 1..s.count - m : /\ Timestamp(d, k) = Timestamp(s, k + m)
                                   /\ BreakBefore(d, k) = BreakBefore(s, k + m)
  BY DroppedRing
<1> HIDE DEF d
<1>3. ASSUME NEW k \in 2..d.count
      PROVE  \/ BreakBefore(d, k)
             \/ Timestamp(d, k) - Timestamp(d, k - 1) < RefreshTime + StaleTime
  <2>1. /\ k \in 1..s.count - m /\ k - 1 \in 1..s.count - m
        /\ k + m \in 2..s.count /\ k + m - 1 = k - 1 + m
    BY <1>1, <1>2
  <2>2. \/ BreakBefore(s, k + m)
        \/ Timestamp(s, k + m) - Timestamp(s, k + m - 1) < RefreshTime + StaleTime
    <3>1. \A j \in 2..s.count : \/ BreakBefore(s, j)
                                 \/ Timestamp(s, j) - Timestamp(s, j - 1) < RefreshTime + StaleTime
      BY DEF Joined
    <3>2. PICK j \in 2..s.count : j = k + m
      BY <2>1
    <3>3. \/ BreakBefore(s, j)
          \/ Timestamp(s, j) - Timestamp(s, j - 1) < RefreshTime + StaleTime
      BY <3>1, <3>2
    <3> QED BY <3>2, <3>3
  <2> QED BY <1>2, <2>1, <2>2, Zenon
<1>4. ASSUME d.count # 0, ~d.gap PROVE Timestamp(d, d.count) = sample
  <2>1. d.count \in 1..s.count - m /\ d.count + m = s.count /\ s.count # 0
    BY <1>1, <1>2, <1>4
  <2> QED BY <1>2, <1>4, <2>1, Zenon DEF Joined
<1> QED BY <1>3, <1>4 DEF Joined, d

LEMMA AgedSeries ==
  ASSUME NEW s, NEW tk, NEW last \in Nat, NEW tick \in Nat, NEW sample \in Nat,
         last <= tick, history \in Nat, Series(s, tk, last, history, sample)
  PROVE  /\ Series(Aged(s, tick), tk, tick, history, sample)
         /\ Aged(s, tick).gap = s.gap /\ Aged(s, tick).id = s.id
         /\ Aged(s, tick).available = s.available
         /\ s.count = 0 => Aged(s, tick).count = 0
<1>1. s \in Rings /\ tk \in SUBSET Nat /\ tk \subseteq 1..sample
      /\ Window(s, tk, last, history) /\ Joined(s, sample)
  BY DEF Series
<1>2. PICK m \in 0..s.count : /\ Aged(s, tick) = Dropped(s, m)
                              /\ Window(Dropped(s, m), tk, tick, history)
  BY <1>1, AgedRing
<1>3. /\ Dropped(s, m) \in Rings /\ Dropped(s, m).count = s.count - m
      /\ Dropped(s, m).gap = s.gap /\ Dropped(s, m).id = s.id
      /\ Dropped(s, m).available = s.available
  BY <1>1, DroppedRing
<1>4. Joined(Dropped(s, m), sample)
  BY <1>1, DroppedJoined
<1>5. ASSUME s.count = 0 PROVE s.count - m = 0
  <2>1. m \in 0..0
    BY <1>2, <1>5
  <2>2. m = 0 /\ 0 - 0 = 0
    BY <2>1
  <2> QED BY <1>5, <2>2, Zenon
<1> QED BY <1>1, <1>2, <1>3, <1>4, <1>5, Zenon DEF Series

LEMMA GapSeries ==
  ASSUME NEW s, NEW tk, NEW tick \in Nat, NEW sample \in Nat, NEW later \in Nat,
         sample <= later, Series(s, tk, tick, history, sample)
  PROVE  /\ Series(Gap(s), tk, tick, history, sample)
         /\ Series(Gap(s), tk, tick, history, later)
         /\ Gap(s).id = s.id /\ Gap(s).count = s.count /\ ~Gap(s).available /\ Gap(s).gap
<1>1. /\ Gap(s) \in Rings /\ Gap(s).id = s.id /\ Gap(s).count = s.count
      /\ Gap(s).available = FALSE /\ Gap(s).gap = TRUE
      /\ Gap(s).first = s.first /\ Gap(s).stamps = s.stamps /\ Gap(s).breaks = s.breaks
  BY DEF Series, Gap, Rings
<1>2. \A k : Timestamp(Gap(s), k) = Timestamp(s, k) /\ BreakBefore(Gap(s), k) = BreakBefore(s, k)
  BY <1>1, Zenon DEF Timestamp, BreakBefore, Cell
<1>3. Window(Gap(s), tk, tick, history)
  BY <1>1, <1>2, Zenon DEF Series, Window
<1>4. Joined(Gap(s), sample) /\ Joined(Gap(s), later)
  BY <1>1, <1>2, Zenon DEF Series, Joined
<1>5. tk \subseteq 1..sample /\ tk \subseteq 1..later
  BY DEF Series
<1> QED BY <1>1, <1>3, <1>4, <1>5 DEF Series

LEMMA EmptySeries ==
  ASSUME NEW tick, NEW h, NEW sample
  PROVE  /\ Series(Empty, {}, tick, h, sample)
         /\ Empty.count = 0 /\ ~Empty.available /\ ~Empty.gap /\ Empty.id = "none"
<1>1. Empty \in Rings
  BY GraphAssumption DEF Empty, Rings, Cells, Ticks
<1>2. Empty.count = 0 /\ Empty.available = FALSE /\ Empty.gap = FALSE /\ Empty.id = "none"
  BY DEF Empty
<1>3. 1..0 = {} /\ 2..0 = {}
  OBVIOUS
<1> QED BY <1>1, <1>2, <1>3 DEF Series, Window, Joined

\* What Inserted does to a ring with room.
Appended(s, id, tick) ==
    LET c == (s.first + s.count) % Capacity
    IN [s EXCEPT !.id = id, !.stamps[c] = tick, !.breaks[c] = s.gap, !.gap = FALSE,
                 !.count = @ + 1, !.available = TRUE]

\* Two samples of a ring are in two cells.
LEMMA CellsDiffer ==
  ASSUME NEW s \in Rings, NEW j \in 1..Capacity, NEW k \in 1..Capacity, j # k
  PROVE  Cell(s, j) # Cell(s, k)
<1>1. s.first \in 0..Capacity - 1 /\ Capacity \in Nat
  BY GraphAssumption DEF Rings, Cells
<1>2. /\ s.first + j - 1 < Capacity => Cell(s, j) = s.first + j - 1
      /\ s.first + j - 1 >= Capacity => Cell(s, j) = s.first + j - 1 - Capacity
      /\ s.first + k - 1 < Capacity => Cell(s, k) = s.first + k - 1
      /\ s.first + k - 1 >= Capacity => Cell(s, k) = s.first + k - 1 - Capacity
  BY CellOf
<1> QED BY <1>1, <1>2

LEMMA AppendedRing ==
  ASSUME NEW s \in Rings, s.count < Capacity, NEW id \in GraphIds, NEW tick \in Ticks
  PROVE  /\ Appended(s, id, tick) \in Rings
         /\ Appended(s, id, tick).count = s.count + 1 /\ Appended(s, id, tick).id = id
         /\ Appended(s, id, tick).gap = FALSE /\ Appended(s, id, tick).available = TRUE
         /\ \A k \in 1..s.count : /\ Timestamp(Appended(s, id, tick), k) = Timestamp(s, k)
                                  /\ BreakBefore(Appended(s, id, tick), k) = BreakBefore(s, k)
         /\ Timestamp(Appended(s, id, tick), s.count + 1) = tick
         /\ BreakBefore(Appended(s, id, tick), s.count + 1) = s.gap
<1> DEFINE a == Appended(s, id, tick)
           c == (s.first + s.count) % Capacity
<1>1. s.first \in 0..Capacity - 1 /\ s.count \in 0..Capacity /\ Capacity \in Nat /\ Capacity >= 1
  BY GraphAssumption DEF Rings, Cells
<1>2. s.count + 1 \in 1..Capacity /\ s.first + (s.count + 1) - 1 = s.first + s.count
  BY <1>1
<1>3. c = Cell(s, s.count + 1)
  BY <1>2, Zenon DEF Cell
<1>4. c \in Cells
  BY <1>2, <1>3, CellOf
<1> HIDE DEF c
<1>5. a = [s EXCEPT !.id = id, !.stamps[c] = tick, !.breaks[c] = s.gap, !.gap = FALSE,
                    !.count = s.count + 1, !.available = TRUE]
  BY DEF a, Appended, c
<1>6. s.count + 1 \in 0..Capacity
  BY <1>1
<1>7. /\ a \in Rings /\ a.count = s.count + 1 /\ a.id = id /\ a.gap = FALSE /\ a.available = TRUE
      /\ a.first = s.first
      /\ a.stamps = [s.stamps EXCEPT ![c] = tick] /\ a.breaks = [s.breaks EXCEPT ![c] = s.gap]
  <2> HIDE DEF a
  <2> QED BY <1>4, <1>5, <1>6 DEF Rings
<1> HIDE DEF a
<1>8. \A k : Cell(a, k) = Cell(s, k)
  BY <1>7, Zenon DEF Cell
<1>9. ASSUME NEW k \in 1..s.count
      PROVE  Timestamp(a, k) = Timestamp(s, k) /\ BreakBefore(a, k) = BreakBefore(s, k)
  <2>1. k \in 1..Capacity /\ k # s.count + 1
    BY <1>1
  <2>2. Cell(s, k) \in Cells /\ Cell(s, k) # c
    BY <1>2, <1>3, <2>1, CellOf, CellsDiffer
  <2>3. a.stamps[Cell(s, k)] = s.stamps[Cell(s, k)] /\ a.breaks[Cell(s, k)] = s.breaks[Cell(s, k)]
    BY <1>7, <2>2 DEF Rings
  <2> QED BY <1>8, <2>3 DEF Timestamp, BreakBefore
<1>10. a.stamps[c] = tick /\ a.breaks[c] = s.gap
  BY <1>4, <1>7 DEF Rings
<1>11. Timestamp(a, s.count + 1) = tick /\ BreakBefore(a, s.count + 1) = s.gap
  BY <1>3, <1>8, <1>10 DEF Timestamp, BreakBefore
<1> QED BY <1>7, <1>9, <1>11 DEF a

\* A ring with room for a sample: it lacks, besides what is too old, at most what
\* lies before its samples once the next one fills it.
Roomy(s, tk, tick, h) ==
    /\ s.count < Capacity
    /\ \A k \in 1..s.count : Timestamp(s, k) \in tk /\ tick - Timestamp(s, k) < h
    /\ \A j, k \in 1..s.count : j < k => Timestamp(s, j) < Timestamp(s, k)
    /\ \A t \in tk : \/ \E k \in 1..s.count : Timestamp(s, k) = t
                     \/ tick - t >= h
                     \/ s.count + 1 = Capacity /\ \A k \in 1..s.count : t < Timestamp(s, k)

LEMMA RoomLeft ==
  ASSUME NEW s \in Rings, NEW tk, NEW tick, NEW h, Window(s, tk, tick, h), s.count # Capacity
  PROVE  Roomy(s, tk, tick, h)
<1>1. s.count < Capacity
  BY GraphAssumption DEF Rings
<1> QED BY <1>1, Zenon DEF Window, Roomy

LEMMA RoomMade ==
  ASSUME NEW s \in Rings, NEW tk \in SUBSET Nat, NEW tick \in Nat, NEW h \in Nat,
         Window(s, tk, tick, h), s.count = Capacity
  PROVE  /\ DropOldest(s) = Dropped(s, 1) /\ 1 \in 0..s.count
         /\ Roomy(Dropped(s, 1), tk, tick, h)
<1> DEFINE d == Dropped(s, 1)
<1>1. Capacity \in Nat /\ Capacity >= 1 /\ 1 \in 0..s.count
  BY GraphAssumption
<1>2. DropOldest(s) = d
  BY DEF DropOldest, Dropped
<1>3. /\ d.count = Capacity - 1
      /\ \A k \in 1..Capacity - 1 : Timestamp(d, k) = Timestamp(s, k + 1)
  BY <1>1, DroppedRing
<1>4. \A k \in 1..Capacity : Timestamp(s, k) \in Nat
  BY RingTimes DEF Ticks
<1> HIDE DEF d
<1>5. ASSUME NEW k \in 1..d.count
      PROVE  k + 1 \in 1..s.count /\ Timestamp(d, k) = Timestamp(s, k + 1)
  BY <1>1, <1>3
<1>6. \A k \in 1..d.count : Timestamp(d, k) \in tk /\ tick - Timestamp(d, k) < h
  BY <1>5 DEF Window
<1>7. ASSUME NEW j \in 1..d.count, NEW k \in 1..d.count, j < k
      PROVE  Timestamp(d, j) < Timestamp(d, k)
  <2>1. j + 1 < k + 1 /\ j + 1 \in 1..s.count /\ k + 1 \in 1..s.count
    BY <1>5, <1>7
  <2> QED BY <1>5, <2>1 DEF Window
<1>8. ASSUME NEW k \in 1..d.count PROVE Timestamp(s, 1) < Timestamp(d, k)
  <2>1. 1 < k + 1 /\ 1 \in 1..s.count /\ k + 1 \in 1..s.count
    BY <1>1, <1>5
  <2> QED BY <1>5, <2>1 DEF Window
<1>9. ASSUME NEW t \in tk
      PROVE  \/ \E k \in 1..d.count : Timestamp(d, k) = t
             \/ tick - t >= h
             \/ d.count + 1 = Capacity /\ \A k \in 1..d.count : t < Timestamp(d, k)
  <2>0. d.count + 1 = Capacity /\ d.count \in Nat
    BY <1>1, <1>3
  <2>1. CASE \E k \in 1..s.count : Timestamp(s, k) = t
    <3>1. PICK k \in 1..s.count : Timestamp(s, k) = t
      BY <2>1
    <3>2. CASE k = 1
      BY <1>8, <2>0, <3>1, <3>2
    <3>3. CASE k # 1
      <4>1. k - 1 \in 1..d.count /\ k - 1 + 1 = k
        BY <1>1, <1>3, <3>3
      <4> QED BY <1>5, <3>1, <4>1
    <3> QED BY <3>2, <3>3
  <2>2. CASE t < Timestamp(s, 1)
    <3>1. t \in Nat /\ Timestamp(s, 1) \in Nat
      BY <1>1, <1>4
    <3>2. ASSUME NEW k \in 1..d.count PROVE t < Timestamp(d, k)
      <4>1. Timestamp(d, k) \in Nat
        BY <1>4, <1>5
      <4> QED BY <1>8, <2>2, <3>1, <4>1
    <3> QED BY <2>0, <3>2
  <2> QED BY <2>1, <2>2 DEF Window
<1>10. d.count < Capacity
  BY <1>1, <1>3
<1>11. Roomy(d, tk, tick, h)
  BY <1>6, <1>7, <1>9, <1>10 DEF Roomy
<1> QED BY <1>1, <1>2, <1>11 DEF d

LEMMA AppendedSeries ==
  ASSUME NEW r \in Rings, NEW tk, NEW tick \in Ticks, NEW h \in Nat \ {0}, NEW sample \in Nat,
         NEW id \in GraphIds, tk \subseteq 1..sample, sample < tick,
         Roomy(r, tk, tick, h), Joined(r, sample),
         r.count # 0 /\ ~r.gap => tick - sample < RefreshTime + StaleTime
  PROVE  Series(Appended(r, id, tick), tk \cup {tick}, tick, h, tick)
<1> DEFINE a == Appended(r, id, tick)
           n == r.count + 1
<1>1. /\ a \in Rings /\ a.count = r.count + 1 /\ a.gap = FALSE
      /\ \A k \in 1..r.count : /\ Timestamp(a, k) = Timestamp(r, k)
                               /\ BreakBefore(a, k) = BreakBefore(r, k)
      /\ Timestamp(a, n) = tick /\ BreakBefore(a, n) = r.gap
  <2>1. r.count < Capacity
    BY DEF Roomy
  <2> QED BY <2>1, AppendedRing, Zenon
<1>2. r.count \in Nat /\ r.count < Capacity /\ Capacity \in Nat /\ tick \in Nat /\ n \in Nat
      /\ r.gap \in BOOLEAN
  BY GraphAssumption DEF Rings, Roomy, Ticks
<1> HIDE DEF a
<1>3. ASSUME NEW k \in 1..a.count PROVE k \in 1..r.count \/ k = n
  BY <1>1, <1>2
<1>4. ASSUME NEW k \in 1..r.count
      PROVE  Timestamp(a, k) = Timestamp(r, k) /\ Timestamp(r, k) \in 1..sample
  BY <1>1 DEF Roomy
<1>5. ASSUME NEW k \in 1..a.count
      PROVE  Timestamp(a, k) \in tk \cup {tick} /\ tick - Timestamp(a, k) < h
  <2>1. CASE k \in 1..r.count
    BY <1>4, <2>1 DEF Roomy
  <2>2. CASE k = n
    <3>1. tick - tick < h
      BY <1>2
    <3> QED BY <1>1, <2>2, <3>1
  <2> QED BY <1>3, <2>1, <2>2
<1>6. ASSUME NEW j \in 1..a.count, NEW k \in 1..a.count, j < k
      PROVE  Timestamp(a, j) < Timestamp(a, k)
  <2>1. j \in 1..r.count
    BY <1>1, <1>2, <1>6
  <2>2. CASE k \in 1..r.count
    BY <1>4, <1>6, <2>1, <2>2 DEF Roomy
  <2>3. CASE k = n
    <3>1. Timestamp(a, j) \in 1..sample /\ Timestamp(a, k) = tick
      BY <1>1, <1>4, <2>1, <2>3
    <3> QED BY <1>2, <3>1
  <2> QED BY <1>3, <2>2, <2>3
<1>7. ASSUME NEW t \in tk \cup {tick}
      PROVE  \/ \E k \in 1..a.count : Timestamp(a, k) = t
             \/ tick - t >= h
             \/ a.count = Capacity /\ t < Timestamp(a, 1)
  <2>1. CASE t = tick
    <3>1. n \in 1..a.count
      BY <1>1, <1>2
    <3> QED BY <1>1, <2>1, <3>1
  <2>2. CASE t \in tk
    <3>1. CASE \E k \in 1..r.count : Timestamp(r, k) = t
      <4>1. PICK k \in 1..r.count : Timestamp(r, k) = t
        BY <3>1
      <4>2. k \in 1..a.count
        BY <1>1, <1>2
      <4> QED BY <1>4, <4>1, <4>2
    <3>2. CASE r.count + 1 = Capacity /\ \A k \in 1..r.count : t < Timestamp(r, k)
      <4>1. CASE r.count = 0
        <5>1. Timestamp(a, 1) = tick
          BY <1>1, <4>1
        <5>2. t \in 1..sample
          BY <2>2
        <5>3. t < tick
          BY <1>2, <5>2
        <5> QED BY <1>1, <3>2, <5>1, <5>3
      <4>2. CASE r.count # 0
        <5>1. 1 \in 1..r.count
          BY <1>2, <4>2
        <5> QED BY <1>1, <1>4, <3>2, <5>1
      <4> QED BY <4>1, <4>2
    <3> QED BY <2>2, <3>1, <3>2 DEF Roomy
  <2> QED BY <2>1, <2>2
<1>8. ASSUME NEW k \in 2..a.count
      PROVE  \/ BreakBefore(a, k)
             \/ Timestamp(a, k) - Timestamp(a, k - 1) < RefreshTime + StaleTime
  <2>1. k - 1 \in 1..r.count /\ (k \in 2..r.count \/ k = n) /\ k \in 1..a.count
    BY <1>1, <1>2
  <2>2. CASE k \in 2..r.count
    <3>1. k \in 1..r.count
      BY <2>2
    <3>2. \/ BreakBefore(r, k)
          \/ Timestamp(r, k) - Timestamp(r, k - 1) < RefreshTime + StaleTime
      BY <2>2 DEF Joined
    <3> QED BY <1>1, <2>1, <3>1, <3>2, Zenon
  <2>3. CASE k = n
    <3>1. BreakBefore(a, k) = r.gap /\ Timestamp(a, k) = tick
      BY <1>1, <2>3
    <3>2. k - 1 = r.count /\ r.count # 0
      BY <1>2, <2>1, <2>3
    <3>3. Timestamp(a, k - 1) = Timestamp(r, r.count)
      BY <1>4, <2>1, <3>2
    <3>4. CASE ~r.gap
      <4>1. Timestamp(r, r.count) = sample
        BY <3>2, <3>4 DEF Joined
      <4> QED BY <3>1, <3>2, <3>3, <3>4, <4>1
    <3> QED BY <3>1, <3>4
  <2> QED BY <2>1, <2>2, <2>3
<1>9. Timestamp(a, a.count) = tick
  BY <1>1
<1>10. tk \cup {tick} \subseteq 1..tick
  BY <1>2
<1>11. Window(a, tk \cup {tick}, tick, h) /\ Joined(a, tick)
  BY <1>5, <1>6, <1>7, <1>8, <1>9 DEF Window, Joined
<1> QED BY <1>1, <1>10, <1>11 DEF Series, a

LEMMA AdvancedSeries ==
  ASSUME NEW s, NEW tk, NEW last \in Nat, NEW tick \in Nat, NEW sample \in Nat,
         last <= tick, history \in Nat, Series(s, tk, last, history, sample)
  PROVE  /\ Series(Advanced(s, tick), tk, tick, history, sample)
         /\ Advanced(s, tick).id = s.id
         /\ s.count = 0 => Advanced(s, tick).count = 0
         /\ Outage(tick) => Advanced(s, tick).gap /\ ~Advanced(s, tick).available
         /\ ~Outage(tick) => Advanced(s, tick).available = s.available
<1>1. /\ Series(Aged(s, tick), tk, tick, history, sample)
      /\ Aged(s, tick).gap = s.gap /\ Aged(s, tick).id = s.id
      /\ Aged(s, tick).available = s.available
      /\ s.count = 0 => Aged(s, tick).count = 0
  BY AgedSeries
<1>2. CASE Outage(tick)
  <2>1. Advanced(s, tick) = Gap(Aged(s, tick))
    BY <1>2, Zenon DEF Advanced
  <2>2. /\ Series(Gap(Aged(s, tick)), tk, tick, history, sample)
        /\ Gap(Aged(s, tick)).id = Aged(s, tick).id
        /\ Gap(Aged(s, tick)).count = Aged(s, tick).count
        /\ ~Gap(Aged(s, tick)).available /\ Gap(Aged(s, tick)).gap
    <3>1. sample <= sample
      OBVIOUS
    <3> QED BY <1>1, <3>1, GapSeries
  <2> QED BY <1>1, <1>2, <2>1, <2>2
<1>3. CASE ~Outage(tick)
  <2>1. Advanced(s, tick) = Aged(s, tick)
    BY <1>3, Zenon DEF Advanced
  <2> QED BY <1>1, <1>3, <2>1
<1> QED BY <1>2, <1>3

LEMMA InsertedSeries ==
  ASSUME NEW s, NEW tk, NEW tick \in Ticks, NEW h \in Nat \ {0}, NEW sample \in Nat,
         NEW id \in GraphIds, sample < tick, Series(s, tk, tick, h, sample),
         s.count # 0 /\ ~s.gap => tick - sample < RefreshTime + StaleTime
  PROVE  /\ Series(Inserted(s, id, tick), tk \cup {tick}, tick, h, tick)
         /\ Inserted(s, id, tick).id = id /\ Inserted(s, id, tick).available = TRUE
<1>1. /\ s \in Rings /\ tk \in SUBSET Nat /\ tk \subseteq 1..sample
      /\ Window(s, tk, tick, h) /\ Joined(s, sample) /\ tick \in Nat
  BY GraphAssumption DEF Series, Ticks
<1>2. ASSUME NEW r \in Rings, Roomy(r, tk, tick, h), Joined(r, sample),
             r.count # 0 /\ ~r.gap => tick - sample < RefreshTime + StaleTime
      PROVE  /\ Series(Appended(r, id, tick), tk \cup {tick}, tick, h, tick)
             /\ Appended(r, id, tick).id = id /\ Appended(r, id, tick).available = TRUE
  <2>1. Series(Appended(r, id, tick), tk \cup {tick}, tick, h, tick)
    BY <1>1, <1>2, AppendedSeries
  <2>2. r.count < Capacity
    BY <1>2 DEF Roomy
  <2> QED BY <2>1, <2>2, AppendedRing
<1>3. CASE s.count = Capacity
  <2>1. /\ DropOldest(s) = Dropped(s, 1) /\ 1 \in 0..s.count
        /\ Roomy(Dropped(s, 1), tk, tick, h)
    BY <1>1, <1>3, RoomMade
  <2>2. /\ Dropped(s, 1) \in Rings /\ Dropped(s, 1).gap = s.gap
        /\ Joined(Dropped(s, 1), sample)
    BY <1>1, <2>1, DroppedRing, DroppedJoined
  <2>3. s.count # 0
    BY <1>3, GraphAssumption
  <2>4. Inserted(s, id, tick) = Appended(Dropped(s, 1), id, tick)
    BY <1>3, <2>1 DEF Inserted, Appended
  <2> QED BY <1>2, <2>1, <2>2, <2>3, <2>4
<1>4. CASE s.count # Capacity
  <2>1. Roomy(s, tk, tick, h)
    BY <1>1, <1>4, RoomLeft
  <2>2. Inserted(s, id, tick) = Appended(s, id, tick)
    BY <1>4 DEF Inserted, Appended
  <2> QED BY <1>1, <1>2, <2>1, <2>2
<1> QED BY <1>3, <1>4

LEMMA InsertedId ==
  ASSUME NEW s \in Rings, NEW id, NEW tick
  PROVE  Inserted(s, id, tick).id = id
<1> DEFINE r == IF s.count = Capacity THEN DropOldest(s) ELSE s
           c == (r.first + r.count) % Capacity
<1>1. Inserted(s, id, tick) = [r EXCEPT !.id = id, !.stamps[c] = tick, !.breaks[c] = r.gap,
                                        !.gap = FALSE, !.count = @ + 1, !.available = TRUE]
  BY Zenon DEF Inserted
<1>2. "id" \in DOMAIN r
  BY DEF DropOldest, Rings
<1> HIDE DEF r, c
<1> QED BY <1>1, <1>2

-----------------------------------------------------------------------------
\* The clocks: nothing is later than now, and while snapshots have come the last
\* sample is less than a refresh older than the last snapshot.
GraphClocks ==
    /\ now \in 1..GraphMaxTime
    /\ latestTick \in 0..now /\ lastSnapshotTick \in 0..now /\ lastSampleTick \in 0..now
    /\ lastSequence => lastSnapshotTick - lastSampleTick < RefreshTime

GraphValues ==
    /\ ids \in Configurations /\ history \in Histories
    /\ lastSequence \in BOOLEAN /\ paused \in BOOLEAN /\ visible \in BOOLEAN
    /\ series \in [1..2 -> Rings] /\ taken \in [1..2 -> SUBSET Ticks]

\* What is known of one series: its ring, and that it has one only as the
\* sensor configured for it.
SeriesOK(i, s, tk, theIds, seq, snapshotTick, tick, h, sample) ==
    /\ Series(s, tk, tick, h, sample)
    /\ s.count # 0 => seq
    /\ s.count # 0 => i <= Len(theIds) /\ UnitOf[theIds[i]] = UnitOf[theIds[1]]
    /\ i <= Len(theIds) => s.id = theIds[i] \/ tk = {}
    /\ i > Len(theIds) => tk = {}
    /\ s.available => seq /\ tick - snapshotTick < StaleTime

EverySeriesOK ==
    \A i \in 1..2 : SeriesOK(i, series[i], taken[i], ids, lastSequence, lastSnapshotTick,
                             latestTick, history, lastSampleTick)

GraphInv == GraphClocks /\ GraphValues /\ EverySeriesOK

USE DEF graphConfig, graphTicks

LEMMA ConfiguredIds ==
  ASSUME NEW c \in Configurations
  PROVE  Len(c) \in 1..2 /\ \A i \in 1..2 : i <= Len(c) => c[i] \in GraphIds
<1>1. CASE c \in {<<s>> : s \in GraphIds}
  BY <1>1
<1>2. CASE c \in {p \in GraphIds \X GraphIds : p[1] # p[2]}
  BY <1>2
<1> QED BY <1>1, <1>2 DEF Configurations

LEMMA EmptyOK ==
  ASSUME NEW i \in 1..2, NEW c, NEW seq, NEW snapshotTick, NEW tick, NEW h, NEW sample
  PROVE  SeriesOK(i, Empty, {}, c, seq, snapshotTick, tick, h, sample) /\ Empty \in Rings
BY EmptySeries, Zenon DEF SeriesOK, Series

\* Advancing a series: what it then knows of the time it is advanced to.
LEMMA AdvanceKeeps ==
  ASSUME GraphInv, NEW i \in 1..2
  PROVE  LET a == Advanced(series[i], now)
         IN /\ SeriesOK(i, a, taken[i], ids, lastSequence, lastSnapshotTick, now, history,
                        lastSampleTick)
            /\ a \in Rings
            /\ a.count # 0 /\ ~a.gap => now - lastSampleTick < RefreshTime + StaleTime
<1> DEFINE a == Advanced(series[i], now)
<1>1. SeriesOK(i, series[i], taken[i], ids, lastSequence, lastSnapshotTick, latestTick, history,
               lastSampleTick)
  BY DEF GraphInv, EverySeriesOK
<1>2. /\ now \in Nat /\ latestTick \in Nat /\ lastSnapshotTick \in Nat /\ lastSampleTick \in Nat
      /\ latestTick <= now /\ history \in Nat /\ RefreshTime \in Nat /\ StaleTime \in Nat
      /\ (lastSequence => lastSnapshotTick - lastSampleTick < RefreshTime)
  BY GraphAssumption DEF GraphInv, GraphClocks, GraphValues
<1>3. /\ Series(a, taken[i], now, history, lastSampleTick)
      /\ a.id = series[i].id
      /\ series[i].count = 0 => a.count = 0
      /\ Outage(now) => a.gap /\ ~a.available
      /\ ~Outage(now) => a.available = series[i].available
  <2> DEFINE s == series[i]
             tk == taken[i]
  <2>1. Series(s, tk, latestTick, history, lastSampleTick)
    BY <1>1, Zenon DEF SeriesOK
  <2>2. latestTick \in Nat /\ now \in Nat /\ lastSampleTick \in Nat /\ latestTick <= now
        /\ history \in Nat
    BY <1>2, Zenon
  <2> HIDE DEF s, tk
  <2>3. /\ Series(Advanced(s, now), tk, now, history, lastSampleTick)
        /\ Advanced(s, now).id = s.id
        /\ s.count = 0 => Advanced(s, now).count = 0
        /\ Outage(now) => Advanced(s, now).gap /\ ~Advanced(s, now).available
        /\ ~Outage(now) => Advanced(s, now).available = s.available
    BY <2>1, <2>2, AdvancedSeries
  <2> QED BY <2>3 DEF s, tk
<1> HIDE DEF a
<1>4. a.count # 0 => lastSequence /\ i <= Len(ids) /\ UnitOf[ids[i]] = UnitOf[ids[1]]
  BY <1>1, <1>3, Zenon DEF SeriesOK
<1>5. lastSequence /\ ~Outage(now) => now - lastSnapshotTick < StaleTime
  BY <1>2 DEF Outage
<1>6. a.available => lastSequence /\ now - lastSnapshotTick < StaleTime
  BY <1>1, <1>3, <1>5, Zenon DEF SeriesOK
<1>7. SeriesOK(i, a, taken[i], ids, lastSequence, lastSnapshotTick, now, history, lastSampleTick)
  BY <1>1, <1>3, <1>4, <1>6, Zenon DEF SeriesOK
<1>8. ASSUME a.count # 0, ~a.gap PROVE now - lastSampleTick < RefreshTime + StaleTime
  <2>1. now - lastSnapshotTick < StaleTime /\ lastSnapshotTick - lastSampleTick < RefreshTime
    BY <1>2, <1>3, <1>4, <1>5, <1>8
  <2> QED BY <1>2, <2>1
<1>9. a \in Rings
  BY <1>3, Zenon DEF Series
<1> QED BY <1>7, <1>8, <1>9, Zenon DEF a

\* A later snapshot, with no sample taken, changes nothing that is known of a series.
LEMMA LaterSnapshot ==
  ASSUME NEW i, NEW s, NEW tk, NEW c, NEW seq \in BOOLEAN, NEW snapshotTick,
         NEW tick \in Nat, NEW h, NEW sample,
         SeriesOK(i, s, tk, c, seq, snapshotTick, tick, h, sample)
  PROVE  SeriesOK(i, s, tk, c, TRUE, tick, tick, h, sample)
<1>1. tick - tick < StaleTime
  BY GraphAssumption
<1> QED BY <1>1, Zenon DEF SeriesOK

\* What a sampling Update makes of one series.
SampledOK(i, s, tk) ==
    SeriesOK(i, s, tk, ids, TRUE, now, now, history, now)

Sampled(i, s) ==
    /\ s \in Rings
    /\ s.available => SampledOK(i, s, taken[i] \cup {now})
    /\ ~s.available /\ s = Empty => SampledOK(i, s, {})
    /\ ~s.available /\ s # Empty => SampledOK(i, s, taken[i])

LEMMA SampleKeeps ==
  ASSUME GraphInv, NEW i \in 1..2, i <= Len(ids), NEW present,
         lastSampleTick < now
  PROVE  Sampled(i, SampledSeries(Advanced(series[i], now), i, present, now))
<1> DEFINE a == Advanced(series[i], now)
           s == SampledSeries(a, i, present, now)
<1>1. /\ SeriesOK(i, a, taken[i], ids, lastSequence, lastSnapshotTick, now, history, lastSampleTick)
      /\ a \in Rings
      /\ a.count # 0 /\ ~a.gap => now - lastSampleTick < RefreshTime + StaleTime
  BY AdvanceKeeps, Zenon
<1>2. /\ now \in Nat /\ now \in Ticks /\ lastSampleTick \in Nat /\ lastSampleTick <= now
      /\ history \in Nat \ {0} /\ ids[i] \in GraphIds
  <2>1. ids[i] \in GraphIds
    BY ConfiguredIds DEF GraphInv, GraphValues
  <2> QED BY <2>1, GraphAssumption DEF GraphInv, GraphClocks, GraphValues, Ticks
<1> HIDE DEF a
<1>3. ASSUME ids[i] \notin present \/ ids[1] \notin present PROVE Sampled(i, s)
  <2>1. s = Gap(a)
    BY <1>3, Zenon DEF SampledSeries
  <2>2. /\ Series(Gap(a), taken[i], now, history, now)
        /\ Gap(a).id = a.id /\ Gap(a).count = a.count /\ ~Gap(a).available /\ Gap(a).gap
    BY <1>1, <1>2, GapSeries DEF SeriesOK
  <2>3. SeriesOK(i, Gap(a), taken[i], ids, TRUE, now, now, history, now)
    BY <1>1, <2>2, Zenon DEF SeriesOK
  <2>4. Gap(a) # Empty
    BY <2>2, EmptySeries
  <2>5. Gap(a) \in Rings
    BY <2>2, Zenon DEF Series
  <2> HIDE DEF s
  <2> QED BY <2>1, <2>2, <2>3, <2>4, <2>5, Zenon DEF Sampled, SampledOK
<1>4. ASSUME ~(ids[i] \notin present \/ ids[1] \notin present), UnitOf[ids[i]] # UnitOf[ids[1]]
      PROVE  Sampled(i, s)
  <2>1. s = Empty
    BY <1>4, Zenon DEF SampledSeries
  <2>2. SampledOK(i, Empty, {}) /\ Empty \in Rings /\ ~Empty.available
    BY EmptyOK, EmptySeries, Zenon DEF SampledOK
  <2> HIDE DEF s
  <2> QED BY <2>1, <2>2, Zenon DEF Sampled
<1>5. ASSUME ~(ids[i] \notin present \/ ids[1] \notin present), UnitOf[ids[i]] = UnitOf[ids[1]]
      PROVE  Sampled(i, s)
  <2> DEFINE b == IF a.id = ids[i] THEN a ELSE Empty
  <2>1. s = Inserted(b, ids[i], now)
    BY <1>5, Zenon DEF SampledSeries
  <2>2. /\ Series(b, taken[i], now, history, lastSampleTick)
        /\ b.count # 0 /\ ~b.gap => now - lastSampleTick < RefreshTime + StaleTime
    <3>1. CASE a.id = ids[i]
      BY <1>1, <3>1, Zenon DEF SeriesOK
    <3>2. CASE a.id # ids[i]
      <4>1. b = Empty /\ taken[i] = {}
        BY <1>1, <3>2, Zenon DEF SeriesOK
      <4> HIDE DEF b
      <4> QED BY <4>1, EmptySeries, Zenon
    <3> QED BY <3>1, <3>2
  <2> HIDE DEF b, s
  <2>3. /\ Series(s, taken[i] \cup {now}, now, history, now)
        /\ s.id = ids[i] /\ s.available = TRUE
    <3>1. history \in Nat \ {0} /\ lastSampleTick \in Nat /\ now \in Ticks /\ ids[i] \in GraphIds
      BY <1>2, Zenon
    <3>2. lastSampleTick < now
      OBVIOUS
    <3> DEFINE t == ids[i]
               n == Inserted(b, t, now)
    <3> HIDE DEF t
    <3>3. t \in GraphIds
      BY <3>1, Zenon DEF t
    <3>4. Series(n, taken[i] \cup {now}, now, history, now)
      BY <2>2, <3>1, <3>2, <3>3, InsertedSeries
    <3>5. n.id = t
      BY <2>2, InsertedId DEF Series
    <3>6. n.available = TRUE
      BY <2>2, <3>1, <3>2, <3>3, InsertedSeries
    <3> QED BY <2>1, <3>4, <3>5, <3>6, Zenon DEF t
  <2>4. now - now < StaleTime /\ s \in Rings
    BY <1>2, <2>3, GraphAssumption DEF Series
  <2>5. ~(i > Len(ids))
    <3>1. Len(ids) \in 1..2
      BY ConfiguredIds DEF GraphInv, GraphValues
    <3> QED BY <3>1
  <2>6. SampledOK(i, s, taken[i] \cup {now})
    BY <1>5, <2>3, <2>4, <2>5, Zenon DEF SampledOK, SeriesOK
  <2> QED BY <2>3, <2>4, <2>6, Zenon DEF Sampled
<1> QED BY <1>3, <1>4, <1>5, Zenon DEF s, a

LEMMA TimeAdvances ==
  ASSUME GraphInv, AdvanceTime(now), UNCHANGED <<ids, history, lastSampleTick, taken>>,
         \/ UNCHANGED <<lastSequence, lastSnapshotTick>>
         \/ lastSequence' = TRUE /\ lastSnapshotTick' = now
  PROVE  EverySeriesOK' /\ series' \in [1..2 -> Rings] /\ latestTick' = now
<1>1. /\ latestTick' = now /\ series' = [i \in 1..2 |-> Advanced(series[i], now)]
      /\ ids' = ids /\ history' = history /\ lastSampleTick' = lastSampleTick /\ taken' = taken
  BY Zenon DEF AdvanceTime
<1>2. lastSequence \in BOOLEAN /\ now \in Nat
  BY DEF GraphInv, GraphValues, GraphClocks
<1>3. ASSUME NEW i \in 1..2
      PROVE  /\ series'[i] \in Rings
             /\ SeriesOK(i, series'[i], taken'[i], ids', lastSequence', lastSnapshotTick',
                         latestTick', history', lastSampleTick')
  <2> DEFINE a == Advanced(series[i], now)
  <2>1. series'[i] = a
    BY <1>1
  <2>2. /\ SeriesOK(i, a, taken[i], ids, lastSequence, lastSnapshotTick, now, history,
                    lastSampleTick)
        /\ a \in Rings
    BY AdvanceKeeps, Zenon
  <2> HIDE DEF a
  <2>3. SeriesOK(i, a, taken[i], ids, TRUE, now, now, history, lastSampleTick)
    BY <1>2, <2>2, LaterSnapshot
  <2>4. CASE UNCHANGED <<lastSequence, lastSnapshotTick>>
    BY <1>1, <2>1, <2>2, <2>4, Zenon
  <2>5. CASE lastSequence' = TRUE /\ lastSnapshotTick' = now
    BY <1>1, <2>1, <2>2, <2>3, <2>5, Zenon
  <2> QED BY <2>4, <2>5, Zenon
<1>4. series' \in [1..2 -> Rings]
  BY <1>1, <1>3
<1> QED BY <1>1, <1>3, <1>4, Zenon DEF EverySeriesOK

LEMMA ClearKeeps ==
  ASSUME GraphInv, Clear, now' = now
  PROVE  EverySeriesOK' /\ series' \in [1..2 -> Rings] /\ taken' \in [1..2 -> SUBSET Ticks]
         /\ GraphClocks' /\ lastSequence' \in BOOLEAN
<1>1. /\ series' = [i \in 1..2 |-> Empty] /\ taken' = [i \in 1..2 |-> {}] /\ lastSequence' = FALSE
      /\ lastSnapshotTick' = 0 /\ lastSampleTick' = 0 /\ latestTick' = 0
  BY DEF Clear
<1>2. ASSUME NEW i \in 1..2
      PROVE  SeriesOK(i, series'[i], taken'[i], ids', lastSequence', lastSnapshotTick',
                      latestTick', history', lastSampleTick')
  <2>1. series'[i] = Empty /\ taken'[i] = {}
    BY <1>1
  <2> QED BY <2>1, EmptyOK, Zenon
<1>3. series' \in [1..2 -> Rings] /\ taken' \in [1..2 -> SUBSET Ticks]
  BY <1>1, EmptyOK
<1>4. GraphClocks'
  BY <1>1 DEF GraphInv, GraphClocks
<1> QED BY <1>1, <1>2, <1>3, <1>4, Zenon DEF EverySeriesOK

\* What an Update knows of its clocks.
LEMMA UpdateClocks ==
  ASSUME GraphInv, NEW fresh \in BOOLEAN, NEW present,
         UpdateGraph(fresh, present)
  PROVE  LET new == fresh \/ ~lastSequence
             due == lastSampleTick = 0 \/ now - lastSampleTick >= RefreshTime
         IN /\ GraphClocks' /\ lastSequence' \in BOOLEAN
            /\ IF new THEN lastSequence' = TRUE /\ lastSnapshotTick' = now
                      ELSE UNCHANGED <<lastSequence, lastSnapshotTick>>
            /\ due => lastSampleTick < now
<1> DEFINE new == fresh \/ ~lastSequence
           due == lastSampleTick = 0 \/ now - lastSampleTick >= RefreshTime
<1>1. /\ now \in 1..GraphMaxTime /\ now \in Nat /\ now >= 1 /\ now' = now
      /\ latestTick \in 0..now /\ lastSnapshotTick \in 0..now /\ lastSampleTick \in 0..now
      /\ RefreshTime \in Nat /\ RefreshTime >= 1 /\ lastSequence \in BOOLEAN
      /\ (lastSequence => lastSnapshotTick - lastSampleTick < RefreshTime)
  BY GraphAssumption DEF GraphInv, GraphClocks, GraphValues, UpdateGraph
<1>2. due => lastSampleTick < now
  BY <1>1
<1>3. IF new THEN lastSequence' = TRUE /\ lastSnapshotTick' = now
             ELSE UNCHANGED <<lastSequence, lastSnapshotTick>>
  BY <1>1 DEF UpdateGraph
<1>4. lastSequence' \in BOOLEAN
  BY <1>1, <1>3
<1>5. latestTick' = now
  BY DEF UpdateGraph, AdvanceTime
<1>6. IF new /\ due THEN lastSampleTick' = now ELSE lastSampleTick' = lastSampleTick
  BY DEF UpdateGraph
<1>7. lastSnapshotTick' \in 0..now /\ lastSampleTick' \in 0..now /\ latestTick' \in 0..now
  <2>1. now \in 0..now
    BY <1>1
  <2>2. lastSnapshotTick' = now \/ lastSnapshotTick' = lastSnapshotTick
    BY <1>3
  <2>3. lastSampleTick' = now \/ lastSampleTick' = lastSampleTick
    BY <1>6
  <2> QED BY <1>1, <1>5, <2>1, <2>2, <2>3, Zenon
<1>8. lastSequence' => lastSnapshotTick' - lastSampleTick' < RefreshTime
  <2>1. CASE new /\ due
    <3>1. lastSnapshotTick' = now /\ lastSampleTick' = now
      BY <1>3, <1>6, <2>1
    <3>2. now - now < RefreshTime
      BY <1>1
    <3> QED BY <3>1, <3>2, Zenon
  <2>2. CASE new /\ ~due
    <3>1. lastSnapshotTick' = now /\ lastSampleTick' = lastSampleTick
      BY <1>3, <1>6, <2>2
    <3>2. now - lastSampleTick < RefreshTime
      BY <1>1, <2>2
    <3> QED BY <3>1, <3>2, Zenon
  <2>3. CASE ~new
    <3>1. lastSnapshotTick' = lastSnapshotTick /\ lastSampleTick' = lastSampleTick
          /\ lastSequence' = lastSequence
      BY <1>3, <1>6, <2>3
    <3> QED BY <1>1, <3>1
  <2> QED BY <2>1, <2>2, <2>3
<1>9. GraphClocks'
  BY <1>1, <1>7, <1>8 DEF GraphClocks
<1> QED BY <1>2, <1>3, <1>4, <1>9, Zenon

LEMMA UpdateKeeps ==
  ASSUME GraphInv, NEW fresh \in BOOLEAN, NEW present,
         UpdateGraph(fresh, present)
  PROVE  GraphInv'
<1> DEFINE new == fresh \/ ~lastSequence
           due == lastSampleTick = 0 \/ now - lastSampleTick >= RefreshTime
<1>1. /\ GraphClocks' /\ lastSequence' \in BOOLEAN
      /\ IF new THEN lastSequence' = TRUE /\ lastSnapshotTick' = now
                ELSE UNCHANGED <<lastSequence, lastSnapshotTick>>
      /\ due => lastSampleTick < now
  BY UpdateClocks, Zenon
<1>2. /\ ids' = ids /\ history' = history /\ paused' = paused /\ visible' = visible /\ now' = now
  BY DEF UpdateGraph
<1>3. /\ now \in Ticks /\ now \in Nat /\ taken \in [1..2 -> SUBSET Ticks]
      /\ series \in [1..2 -> Rings] /\ Len(ids) \in 1..2
  BY ConfiguredIds, GraphAssumption DEF GraphInv, GraphClocks, GraphValues, Ticks
<1>4. CASE new /\ due
  <2>1. /\ latestTick' = now /\ lastSampleTick' = now
        /\ series' = [i \in 1..2 |->
              IF i <= Len(ids) THEN SampledSeries(Advanced(series[i], now), i, present, now)
                               ELSE Advanced(series[i], now)]
        /\ taken' = [i \in 1..2 |-> IF series'[i].available /\ i <= Len(ids)
                                    THEN taken[i] \cup {now}
                                    ELSE IF series'[i] = Empty THEN {} ELSE taken[i]]
    BY <1>4, Zenon DEF UpdateGraph
  <2>2. lastSequence' = TRUE /\ lastSnapshotTick' = now /\ lastSampleTick < now
    BY <1>1, <1>4, Zenon
  <2>3. ASSUME NEW i \in 1..2
        PROVE  /\ series'[i] \in Rings /\ SampledOK(i, series'[i], taken'[i])
               /\ taken'[i] \in SUBSET Ticks
    <3> DEFINE s == series'[i]
    <3>1. taken'[i] = IF s.available /\ i <= Len(ids) THEN taken[i] \cup {now}
                      ELSE IF s = Empty THEN {} ELSE taken[i]
      BY <2>1
    <3>2. taken'[i] \in SUBSET Ticks
      BY <1>3, <3>1
    <3>3. CASE i <= Len(ids)
      <4>1. s = SampledSeries(Advanced(series[i], now), i, present, now)
        BY <2>1, <3>3
      <4>2. Sampled(i, s)
        BY <2>2, <3>3, <4>1, SampleKeeps
      <4> HIDE DEF s
      <4> QED BY <3>1, <3>2, <3>3, <4>2, Zenon DEF Sampled, s
    <3>4. CASE ~(i <= Len(ids))
      <4> DEFINE a == Advanced(series[i], now)
      <4>1. s = a
        BY <2>1, <3>4
      <4>2. /\ SeriesOK(i, a, taken[i], ids, lastSequence, lastSnapshotTick, now, history,
                        lastSampleTick)
            /\ a \in Rings
        BY AdvanceKeeps, Zenon
      <4> HIDE DEF a
      <4>3. taken[i] = {}
        <5>1. i > Len(ids)
          BY <1>3, <3>4
        <5> QED BY <4>2, <5>1, Zenon DEF SeriesOK
      <4>4. SeriesOK(i, a, {}, ids, TRUE, now, now, history, lastSampleTick)
        BY <1>3, <4>2, <4>3, LaterSnapshot DEF GraphInv, GraphValues
      <4>5. taken'[i] = {}
        BY <3>1, <3>4, <4>3
      <4>6. SampledOK(i, a, {})
        <5>1. Series(a, {}, now, history, now)
          <6>1. a.count = 0 \/ a.count # 0
            OBVIOUS
          <6>2. \A k \in 1..a.count : FALSE
            BY <4>4, Zenon DEF SeriesOK, Series, Window
          <6>3. a.count = 0
            BY <4>2, <6>2, GraphAssumption DEF Rings
          <6> QED BY <4>4, <6>3 DEF SeriesOK, Series, Joined
        <5> QED BY <4>4, <5>1, Zenon DEF SampledOK, SeriesOK
      <4> QED BY <3>2, <4>1, <4>2, <4>5, <4>6, Zenon
    <3> QED BY <3>3, <3>4, Zenon
  <2>4. EverySeriesOK'
    <3>1. ASSUME NEW i \in 1..2
          PROVE  SeriesOK(i, series'[i], taken'[i], ids', lastSequence', lastSnapshotTick',
                          latestTick', history', lastSampleTick')
      BY <1>2, <2>1, <2>2, <2>3, Zenon DEF SampledOK
    <3> QED BY <3>1, Zenon DEF EverySeriesOK
  <2>5. series' \in [1..2 -> Rings] /\ taken' \in [1..2 -> SUBSET Ticks]
    BY <2>1, <2>3
  <2> QED BY <1>1, <1>2, <2>4, <2>5 DEF GraphInv, GraphValues
<1>5. CASE ~(new /\ due)
  <2>1. AdvanceTime(now) /\ UNCHANGED <<lastSampleTick, taken>>
    BY <1>5, Zenon DEF UpdateGraph
  <2>2. \/ UNCHANGED <<lastSequence, lastSnapshotTick>>
        \/ lastSequence' = TRUE /\ lastSnapshotTick' = now
    BY <1>1, Zenon
  <2>3. EverySeriesOK' /\ series' \in [1..2 -> Rings] /\ latestTick' = now
    BY <1>2, <2>1, <2>2, TimeAdvances
  <2> QED BY <1>1, <1>2, <1>3, <2>1, <2>3 DEF GraphInv, GraphValues
<1> QED BY <1>4, <1>5

LEMMA GraphStarts == GraphInit => GraphInv
<1> SUFFICES ASSUME GraphInit PROVE GraphInv
  OBVIOUS
<1>1. GraphClocks
  BY GraphAssumption DEF GraphInit, GraphClocks
<1>2. GraphValues
  <2>1. series \in [1..2 -> Rings]
    BY EmptyOK DEF GraphInit
  <2> QED BY <2>1 DEF GraphInit, GraphValues
<1>3. ASSUME NEW i \in 1..2
      PROVE  SeriesOK(i, series[i], taken[i], ids, lastSequence, lastSnapshotTick, latestTick,
                      history, lastSampleTick)
  <2>1. series[i] = Empty /\ taken[i] = {}
    BY DEF GraphInit
  <2> QED BY <2>1, EmptyOK, Zenon
<1> QED BY <1>1, <1>2, <1>3, Zenon DEF GraphInv, EverySeriesOK

LEMMA GraphSteps == GraphInv /\ [GraphNext]_graphVars => GraphInv'
<1> SUFFICES ASSUME GraphInv, [GraphNext]_graphVars PROVE GraphInv'
  OBVIOUS
<1>1. ASSUME UNCHANGED <<graphConfig, series, graphTicks, taken>>, now \in 0..now',
             now' <= GraphMaxTime, now' \in Nat, paused' \in BOOLEAN, visible' \in BOOLEAN
      PROVE  GraphInv'
  <2>1. /\ ids' = ids /\ history' = history /\ series' = series /\ taken' = taken
        /\ lastSequence' = lastSequence /\ lastSnapshotTick' = lastSnapshotTick
        /\ lastSampleTick' = lastSampleTick /\ latestTick' = latestTick
    BY <1>1
  <2>2. \A t \in 0..now : t \in 0..now'
    BY <1>1 DEF GraphInv, GraphClocks
  <2>3. now' \in 1..GraphMaxTime
    BY <1>1, GraphAssumption DEF GraphInv, GraphClocks
  <2>4. GraphClocks'
    BY <2>1, <2>2, <2>3, Zenon DEF GraphInv, GraphClocks
  <2>5. GraphValues'
    BY <1>1, <2>1, Zenon DEF GraphInv, GraphValues
  <2>6. EverySeriesOK'
    BY <2>1, Zenon DEF GraphInv, EverySeriesOK
  <2> QED BY <2>4, <2>5, <2>6, Zenon DEF GraphInv
<1>2. /\ now \in 1..GraphMaxTime /\ now \in Nat /\ now \in 0..now /\ now <= GraphMaxTime
      /\ paused \in BOOLEAN /\ visible \in BOOLEAN
  BY GraphAssumption DEF GraphInv, GraphClocks, GraphValues
<1>3. ASSUME NEW fresh \in BOOLEAN, NEW present, UpdateGraph(fresh, present)
      PROVE  GraphInv'
  BY <1>3, UpdateKeeps
<1>4. CASE AgeTimer
  <2>1. /\ AdvanceTime(now) /\ ids' = ids /\ history' = history /\ taken' = taken /\ now' = now
        /\ lastSequence' = lastSequence /\ lastSnapshotTick' = lastSnapshotTick
        /\ lastSampleTick' = lastSampleTick /\ paused' = paused /\ visible' = visible
    BY <1>4 DEF AgeTimer
  <2>2. EverySeriesOK' /\ series' \in [1..2 -> Rings] /\ latestTick' = now
    BY <2>1, TimeAdvances
  <2>3. GraphClocks'
    BY <1>2, <2>1, <2>2, Zenon DEF GraphInv, GraphClocks
  <2> QED BY <2>1, <2>2, <2>3, Zenon DEF GraphInv, GraphValues
<1>5. CASE Pause
  BY <1>1, <1>2, <1>5, Zenon DEF Pause
<1>6. CASE ResetGraph
  <2>1. Clear /\ ids' = ids /\ history' = history /\ paused' = paused /\ visible' = visible
        /\ now' = now
    BY <1>6 DEF ResetGraph
  <2>2. /\ EverySeriesOK' /\ series' \in [1..2 -> Rings] /\ taken' \in [1..2 -> SUBSET Ticks]
        /\ GraphClocks' /\ lastSequence' \in BOOLEAN
    BY <2>1, ClearKeeps
  <2> QED BY <2>1, <2>2, Zenon DEF GraphInv, GraphValues
<1>7. CASE Hide
  BY <1>1, <1>2, <1>7, Zenon DEF Hide
<1>8. CASE GraphTick
  <2>1. now' \in Nat /\ now \in 0..now' /\ now' <= GraphMaxTime
    BY <1>2, <1>8, GraphAssumption DEF GraphTick
  <2> QED BY <1>1, <1>2, <1>8, <2>1, Zenon DEF GraphTick
<1>9. ASSUME NEW c \in Configurations, NEW h \in Histories, Configure(c, h)
      PROVE  GraphInv'
  <2>1. ids' = c /\ history' = h /\ visible' \in BOOLEAN /\ paused' = paused /\ now' = now
    BY <1>9 DEF Configure
  <2>2. CASE c # ids \/ h # history
    <3>1. Clear
      BY <1>9, <2>2, Zenon DEF Configure
    <3>2. /\ EverySeriesOK' /\ series' \in [1..2 -> Rings] /\ taken' \in [1..2 -> SUBSET Ticks]
          /\ GraphClocks' /\ lastSequence' \in BOOLEAN
      BY <2>1, <3>1, ClearKeeps
    <3> QED BY <1>2, <2>1, <3>2, Zenon DEF GraphInv, GraphValues
  <2>3. CASE ~(c # ids \/ h # history)
    <3>1. UNCHANGED <<series, taken, graphTicks>>
      BY <1>9, <2>3, Zenon DEF Configure
    <3>2. UNCHANGED <<graphConfig, series, graphTicks, taken>>
      BY <2>1, <2>3, <3>1
    <3> QED BY <1>1, <1>2, <2>1, <3>2, Zenon
  <2> QED BY <2>2, <2>3
<1>10. CASE UNCHANGED graphVars
  BY <1>1, <1>2, <1>10, Zenon DEF graphVars
<1> QED BY <1>3, <1>4, <1>5, <1>6, <1>7, <1>8, <1>9, <1>10, Zenon DEF GraphNext

-----------------------------------------------------------------------------
\* The samples later than one of the ring's are in the ring after it.
LEMMA LaterInRing ==
  ASSUME NEW s \in Rings, NEW tk \in SUBSET Nat, NEW tick \in Nat, NEW h \in Nat,
         Window(s, tk, tick, h), NEW k \in 1..s.count
  PROVE  Cardinality({u \in tk : u > Timestamp(s, k)}) < Capacity
<1> DEFINE L == {u \in tk : u > Timestamp(s, k)}
           f == [u \in L |-> CHOOSE j \in k + 1..s.count : Timestamp(s, j) = u]
<1>1. /\ s.count \in 0..Capacity /\ s.count \in Nat /\ Capacity \in Nat
      /\ \A j \in 1..s.count : Timestamp(s, j) \in Nat
  BY RingTimes, GraphAssumption DEF Rings, Ticks
<1>2. ASSUME NEW u \in L PROVE \E j \in k + 1..s.count : Timestamp(s, j) = u
  <2>1. u \in tk /\ u \in Nat /\ u > Timestamp(s, k) /\ Timestamp(s, k) \in Nat
    BY <1>1
  <2>2. CASE \E j \in 1..s.count : Timestamp(s, j) = u
    <3>1. PICK j \in 1..s.count : Timestamp(s, j) = u
      BY <2>2
    <3>2. ~(j < k) /\ j # k
      <4>1. j < k => Timestamp(s, j) < Timestamp(s, k)
        BY DEF Window
      <4>2. j = k => Timestamp(s, j) = Timestamp(s, k)
        BY Zenon
      <4> QED BY <2>1, <3>1, <4>1, <4>2
    <3>3. j \in k + 1..s.count
      BY <1>1, <3>2
    <3> QED BY <3>1, <3>3
  <2>3. CASE tick - u >= h
    <3>1. tick - Timestamp(s, k) < h
      BY DEF Window
    <3> QED BY <2>1, <2>3, <3>1
  <2>4. CASE u < Timestamp(s, 1)
    <3>1. 1 \in 1..s.count /\ (k = 1 \/ 1 < k)
      BY <1>1
    <3>2. 1 < k => Timestamp(s, 1) < Timestamp(s, k)
      BY <3>1 DEF Window
    <3>3. Timestamp(s, 1) \in Nat
      BY <1>1, <3>1
    <3>4. CASE k = 1
      BY <2>1, <2>4, <3>4
    <3>5. CASE 1 < k
      BY <2>1, <2>4, <3>2, <3>3, <3>5
    <3> QED BY <3>1, <3>4, <3>5
  <2> QED BY <2>1, <2>2, <2>3, <2>4 DEF Window
<1>3. \A u \in L : f[u] \in k + 1..s.count /\ Timestamp(s, f[u]) = u
  BY <1>2, Zenon
<1> HIDE DEF f
<1>4. f \in Injection(L, k + 1..s.count)
  <2>1. f \in [L -> k + 1..s.count]
    BY <1>3 DEF f
  <2>2. \A u, v \in L : f[u] = f[v] => u = v
    BY <1>3, Zenon
  <2> QED BY <2>1, <2>2 DEF Injection, IsInjective
<1>5. k + 1 \in Nat /\ k + 1 <= s.count + 1
  BY <1>1
<1>6. IsFiniteSet(k + 1..s.count) /\ Cardinality(k + 1..s.count) < Capacity
  <2>1. k + 1 \in Int /\ s.count \in Int
    BY <1>1
  <2>2. /\ IsFiniteSet(k + 1..s.count)
        /\ Cardinality(k + 1..s.count) = IF k + 1 > s.count THEN 0 ELSE s.count - (k + 1) + 1
    BY <2>1, FS_Interval, Zenon
  <2> QED BY <1>1, <1>5, <2>2, GraphAssumption
<1>7. IsFiniteSet(L) /\ Cardinality(L) <= Cardinality(k + 1..s.count)
  <2> HIDE DEF L
  <2> QED BY <1>4, <1>6, FS_Injection
<1>8. Cardinality(L) \in Nat /\ Cardinality(k + 1..s.count) \in Nat
  BY <1>6, <1>7, FS_CardinalityType
<1> HIDE DEF L
<1>9. Cardinality(L) < Capacity
  BY <1>1, <1>6, <1>7, <1>8
<1> QED BY <1>9 DEF L

\* The two sides of RingIsTheWindow.
TimesOf(s) == {Timestamp(s, k) : k \in 1..s.count}
WindowOf(tk, tick, h) ==
    {t \in tk : tick - t < h /\ Cardinality({u \in tk : u > t}) < Capacity}

LEMMA RingHoldsWindow ==
  ASSUME NEW s \in Rings, NEW sample \in Nat, NEW tk, tk \subseteq 1..sample,
         NEW tick \in Nat, NEW h \in Nat, Window(s, tk, tick, h)
  PROVE  TimesOf(s) = WindowOf(tk, tick, h)
<1>1. tk \in SUBSET Nat /\ Capacity \in Nat
  BY GraphAssumption
<1>2. ASSUME NEW k \in 1..s.count
      PROVE  /\ Timestamp(s, k) \in tk /\ tick - Timestamp(s, k) < h
             /\ Cardinality({u \in tk : u > Timestamp(s, k)}) < Capacity
  <2>1. Timestamp(s, k) \in tk /\ tick - Timestamp(s, k) < h
    BY DEF Window
  <2> QED BY <1>1, <2>1, LaterInRing
<1>3. ASSUME NEW t \in tk, tick - t < h, Cardinality({u \in tk : u > t}) < Capacity
      PROVE  \E k \in 1..s.count : Timestamp(s, k) = t
  <2> DEFINE L == {u \in tk : u > t}
             g == [k \in 1..Capacity |-> Timestamp(s, k)]
  <2> SUFFICES ASSUME ~ \E k \in 1..s.count : Timestamp(s, k) = t
               PROVE  FALSE
    OBVIOUS
  <2>1. t \in Nat /\ ~(tick - t >= h)
    BY <1>1, <1>3
  <2>2. s.count = Capacity /\ t < Timestamp(s, 1)
    BY <2>1 DEF Window
  <2>3. ASSUME NEW k \in 1..Capacity PROVE Timestamp(s, k) \in L
    <3>1. Timestamp(s, k) \in tk /\ k \in 1..s.count /\ 1 \in 1..s.count
      BY <1>1, <2>2 DEF Window
    <3>2. Timestamp(s, k) \in Nat /\ Timestamp(s, 1) \in Nat
      BY <3>1, RingTimes, GraphAssumption DEF Ticks
    <3>3. k = 1 \/ 1 < k
      OBVIOUS
    <3>4. 1 < k => Timestamp(s, 1) < Timestamp(s, k)
      BY <3>1 DEF Window
    <3>5. CASE k = 1
      BY <2>2, <3>1, <3>2, <3>5
    <3>6. CASE 1 < k
      BY <2>1, <2>2, <3>1, <3>2, <3>4, <3>6
    <3> QED BY <3>3, <3>5, <3>6
  <2>4. ASSUME NEW j \in 1..Capacity, NEW k \in 1..Capacity, Timestamp(s, j) = Timestamp(s, k)
        PROVE  j = k
    <3>1. j < k => Timestamp(s, j) < Timestamp(s, k)
      BY <2>2 DEF Window
    <3>2. k < j => Timestamp(s, k) < Timestamp(s, j)
      BY <2>2 DEF Window
    <3>3. Timestamp(s, j) \in Nat /\ Timestamp(s, k) \in Nat
      BY <2>2, RingTimes, GraphAssumption DEF Ticks
    <3> QED BY <2>4, <3>1, <3>2, <3>3
  <2>5. g \in Injection(1..Capacity, L)
    <3>1. g \in [1..Capacity -> L]
      BY <2>3
    <3>2. \A j, k \in 1..Capacity : g[j] = g[k] => j = k
      BY <2>4
    <3> HIDE DEF g, L
    <3> QED BY <3>1, <3>2 DEF Injection, IsInjective
  <2>6. IsFiniteSet(L)
    <3>1. L \subseteq 1..sample
      OBVIOUS
    <3>2. IsFiniteSet(1..sample)
      BY FS_Interval
    <3> HIDE DEF L
    <3> QED BY <3>1, <3>2, FS_Subset
  <2>7. Cardinality(1..Capacity) = Capacity
    BY <1>1, FS_Interval
  <2> HIDE DEF g, L
  <2>8. Cardinality(1..Capacity) <= Cardinality(L) /\ Cardinality(L) \in Nat
    BY <2>5, <2>6, FS_Injection, FS_CardinalityType
  <2>9. Cardinality(L) < Capacity
    BY <1>3 DEF L
  <2> QED BY <1>1, <2>7, <2>8, <2>9
<1> QED BY <1>2, <1>3 DEF TimesOf, WindowOf

LEMMA GraphInvTrue == GraphInv => GraphTypeOK /\ GraphIsTrue
<1> SUFFICES ASSUME GraphInv PROVE GraphTypeOK /\ GraphIsTrue
  OBVIOUS
<1>1. /\ now \in 1..GraphMaxTime /\ now \in Nat /\ latestTick \in Nat /\ lastSampleTick \in Nat
      /\ history \in Nat /\ Capacity \in Nat /\ Len(ids) \in 1..2
      /\ {lastSnapshotTick, lastSampleTick, latestTick} \subseteq Ticks
  <2>1. latestTick \in 0..now /\ lastSnapshotTick \in 0..now /\ lastSampleTick \in 0..now
        /\ now \in 1..GraphMaxTime /\ GraphMaxTime \in Nat
    BY GraphAssumption DEF GraphInv, GraphClocks
  <2>2. \A t \in 0..now : t \in Ticks /\ t \in Nat
    BY <2>1 DEF Ticks
  <2>3. history \in Nat /\ Capacity \in Nat /\ Len(ids) \in 1..2
    BY GraphAssumption, ConfiguredIds DEF GraphInv, GraphValues
  <2> QED BY <2>1, <2>2, <2>3
<1>2. GraphTypeOK
  BY <1>1, Zenon DEF GraphInv, GraphValues, GraphTypeOK, Rings
<1>3. ASSUME NEW i \in 1..2
      PROVE  /\ SeriesOK(i, series[i], taken[i], ids, lastSequence, lastSnapshotTick,
                         latestTick, history, lastSampleTick)
             /\ Series(series[i], taken[i], latestTick, history, lastSampleTick)
             /\ series[i] \in Rings
  BY Zenon DEF GraphInv, EverySeriesOK, SeriesOK, Series
<1>4. ASSUME NEW i \in 1..2
      PROVE  LET s == series[i]
             IN /\ {Timestamp(s, k) : k \in 1..s.count} =
                      {t \in taken[i] : /\ latestTick - t < history
                                        /\ Cardinality({u \in taken[i] : u > t}) < Capacity}
                /\ \A k \in 1..s.count - 1 : Timestamp(s, k) < Timestamp(s, k + 1)
  <2> DEFINE s == series[i]
             tk == taken[i]
  <2>1. s \in Rings /\ tk \subseteq 1..lastSampleTick /\ Window(s, tk, latestTick, history)
    BY <1>3, Zenon DEF Series
  <2>2. s.count \in Nat
    BY <2>1, GraphAssumption DEF Rings
  <2> HIDE DEF s, tk
  <2>3. TimesOf(s) = WindowOf(tk, latestTick, history)
    <3>1. lastSampleTick \in Nat /\ latestTick \in Nat /\ history \in Nat
      BY <1>1, Zenon
    <3> QED BY <2>1, <3>1, RingHoldsWindow
  <2>4. ASSUME NEW k \in 1..s.count - 1 PROVE Timestamp(s, k) < Timestamp(s, k + 1)
    <3>1. k \in 1..s.count /\ k + 1 \in 1..s.count /\ k < k + 1
      BY <2>2
    <3> QED BY <2>1, <3>1, Zenon DEF Window
  <2> QED BY <2>3, <2>4, Zenon DEF s, tk, TimesOf, WindowOf
<1>5. RingIsTheWindow
  BY <1>4, Zenon DEF RingIsTheWindow
<1>6. LineDoesNotBridge
  BY <1>3, Zenon DEF LineDoesNotBridge, Series, Joined
<1>7. UnitsNeverMixed
  BY <1>3, Zenon DEF UnitsNeverMixed, SeriesOK
<1>8. AvailableIsCurrent
  BY <1>3, Zenon DEF AvailableIsCurrent, SeriesOK
<1> QED BY <1>2, <1>5, <1>6, <1>7, <1>8 DEF GraphIsTrue

\* The graph's variables stay of their types, whatever the size of the ring, the
\* length of the window and the two intervals.
THEOREM GraphTypeCorrect == GraphSpec => []GraphTypeOK
<1>1. GraphInit => GraphInv
  BY GraphStarts
<1>2. GraphInv /\ [GraphNext]_graphVars => GraphInv'
  BY GraphSteps
<1>3. GraphInv => GraphTypeOK
  BY GraphInvTrue
<1> QED BY <1>1, <1>2, <1>3, PTL DEF GraphSpec

\* The ring is the window of time it stands for, its line joins no samples across an
\* outage, it shows sensors of one unit and calls current only what is
\* (graph_model.cpp:60-138).
THEOREM GraphShowsTruth == GraphSpec => []GraphIsTrue
<1>1. GraphInit => GraphInv
  BY GraphStarts
<1>2. GraphInv /\ [GraphNext]_graphVars => GraphInv'
  BY GraphSteps
<1>3. GraphInv => GraphIsTrue
  BY GraphInvTrue
<1> QED BY <1>1, <1>2, <1>3, PTL DEF GraphSpec

-----------------------------------------------------------------------------
(* The machines together. *)

DesktopIInv == GraphInv /\ DialogIInv /\ WriterIInv /\ DownloadIInv

\* A step of the whole is a step of one machine and leaves the others alone.
LEMMA DesktopStepOfOne ==
  [DesktopNext]_desktopVars =>
      /\ [GraphNext]_graphVars /\ [DialogNext]_dialogVars
      /\ [WriterNext]_writerVars /\ [DownloadNext]_downloadVars
  BY DEF DesktopNext, desktopVars

LEMMA DesktopInvariance == DesktopSpec => []DesktopIInv
<1>1. DesktopInit => DesktopIInv
  BY GraphStarts, DialogStarts, WriterInitIInv, DownloadInitIInv DEF DesktopInit, DesktopIInv
<1>2. DesktopIInv /\ [DesktopNext]_desktopVars => DesktopIInv'
  <2>1. GraphInv /\ [GraphNext]_graphVars => GraphInv'
    BY GraphSteps DEF graphVars
  <2>2. DialogIInv /\ [DialogNext]_dialogVars => DialogIInv'
    BY DialogSteps
  <2> QED BY <2>1, <2>2, DesktopStepOfOne, WriterNextIInv, DownloadNextIInv DEF DesktopIInv
<1> QED BY <1>1, <1>2, PTL DEF DesktopSpec

(* The machines' variables keep their types together, for any constants. *)
THEOREM DesktopTypeCorrect == DesktopSpec => []DesktopTypeOK
<1>1. ASSUME DesktopIInv PROVE DesktopTypeOK
  BY <1>1, GraphInvTrue, DialogTyped, WriterTypeHalves
     DEF DesktopIInv, WriterIInv, DownloadIInv, DesktopTypeOK
<1> QED BY <1>1, DesktopInvariance, PTL
=============================================================================
