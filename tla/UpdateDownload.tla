--------------------------- MODULE UpdateDownload ---------------------------
(***************************************************************************)
(* DownloadVerifiedInstaller and the files it leaves in the user's directory, *)
(* against the updater of an earlier hand-off and against whoever else has     *)
(* access to that directory.  The application and the updater may end at any   *)
(* point.  A version has one file name, but its manifest may name one build     *)
(* today and another tomorrow.                                                   *)
(*                                                                            *)
(* A file is the build that its bytes are of and how many there are; of a       *)
(* foreign one nothing is known but that its hash matches no build.              *)
(***************************************************************************)
EXTENDS Integers

CONSTANTS Builds,   \* what a manifest may name, and what the server may send
          Full      \* the length of each, in reads

ASSUME DownloadAssumption == Full \in Nat \ {0}

VARIABLES
    running,      \* the application runs
    fetch,        \* where its download is
    goal,         \* the build of its manifest
    served,       \* the build that the server sends
    partialFile,  \* the .partial file
    installer,    \* the completed file
    updater,      \* where the updater is
    handed,       \* the build on the updater's command line
    awaited,      \* the application that started the updater has not ended
    left          \* why a .partial file may be there (history)

downloadVars == <<running, fetch, goal, served, partialFile, installer, updater, handed, awaited, left>>
updaterVars == <<updater, handed, awaited>>

Absent == [build |-> "none", size |-> 0]
Foreign == [build |-> "foreign", size |-> 0]
Files == {Absent, Foreign} \cup [build : Builds, size : 0..Full]
Whole(b) == [build |-> b, size |-> Full]

DownloadTypeOK ==
    /\ running \in BOOLEAN /\ awaited \in BOOLEAN /\ left \in BOOLEAN
    /\ fetch \in {"idle", "open", "create", "receive", "verify", "move", "cleanup", "ready"}
    /\ {goal, served, handed} \subseteq Builds
    /\ partialFile \in Files /\ installer \in Files
    /\ updater \in {"none", "wait", "open", "run", "delete"}

DownloadInit ==
    /\ running = TRUE /\ awaited = FALSE /\ left = FALSE
    /\ fetch = "idle" /\ updater = "none"
    /\ handed \in Builds /\ served = handed /\ goal = handed
    /\ partialFile = Absent /\ installer = Absent

-----------------------------------------------------------------------------
(* DownloadVerifiedInstaller, on the work thread *)

\* VerifyFileSha256: true of the whole build only; it may also fail for want of access.
VerifyFileSha256(f, b) == f = Whole(b)

\* A completed file that verifies is used again; otherwise what an earlier call left
\* is removed, if it can be.
BeginDownload(b) ==
    /\ running /\ fetch = "idle" /\ goal' = b
    /\ \/ VerifyFileSha256(installer, b) /\ fetch' = "ready" /\ UNCHANGED <<partialFile, left>>
       \/ /\ fetch' = "open"
          /\ \/ partialFile' = Absent /\ left' = FALSE
             \/ UNCHANGED <<partialFile, left>>
    /\ UNCHANGED <<running, served, installer, updaterVars>>

Goes(place) == fetch' \in {place, "cleanup"}

OpenUrl == /\ fetch = "open" /\ Goes("create")
           /\ served' \in Builds
           /\ UNCHANGED <<running, goal, partialFile, installer, updaterVars, left>>

CreatePartial ==
    /\ fetch = "create" /\ Goes("receive")
    /\ IF fetch' = "receive" THEN partialFile' = [build |-> served, size |-> 0] /\ left' = FALSE
                             ELSE UNCHANGED <<partialFile, left>>
    /\ UNCHANGED <<running, goal, served, installer, updaterVars>>

\* One read and its write; more bytes than the manifest says end the download.
Receive ==
    /\ fetch = "receive" /\ Goes("receive")
    /\ fetch' = "receive" => partialFile.size < Full
    /\ partialFile' = IF fetch' = "receive" /\ partialFile.build \in Builds
                      THEN [partialFile EXCEPT !.size = @ + 1] ELSE partialFile
    /\ UNCHANGED <<running, goal, served, installer, updaterVars, left>>

\* The server ends, at whatever length, and the stream is closed.
EndReceive == /\ fetch = "receive" /\ fetch' = "verify"
              /\ UNCHANGED <<running, goal, served, partialFile, installer, updaterVars, left>>

\* Mutant: what was received is not verified.
VerifyNothing == /\ fetch = "verify" /\ Goes("move")
                 /\ UNCHANGED <<running, goal, served, partialFile, installer, updaterVars, left>>
Verify == /\ fetch = "verify" /\ Goes("move")
          /\ fetch' = "move" => VerifyFileSha256(partialFile, goal)
          /\ UNCHANGED <<running, goal, served, partialFile, installer, updaterVars, left>>

\* The updater holds the installer open, for others to read only, while Setup runs.
Held == updater = "run"

\* MoveFileEx replaces the completed file unless it is held.
Move == /\ fetch = "move" /\ Goes("ready")
        /\ IF fetch' = "ready"
           THEN ~Held /\ partialFile # Absent /\ installer' = partialFile /\ partialFile' = Absent
           ELSE UNCHANGED <<installer, partialFile>>
        /\ UNCHANGED <<running, goal, served, updaterVars, left>>

\* Mutant: the destructor keeps the file.
CleanupKeeping == /\ fetch = "cleanup" /\ fetch' = "idle"
                  /\ UNCHANGED <<running, goal, served, partialFile, installer, updaterVars, left>>
\* ~PartialCleanup; the stream is closed before it, and its failure is ignored.
Cleanup == /\ fetch = "cleanup" /\ fetch' = "idle"
           /\ \/ partialFile' = Absent /\ left' = FALSE
              \/ UNCHANGED partialFile /\ left' = TRUE
           /\ UNCHANGED <<running, goal, served, installer, updaterVars>>

\* LaunchUpdateHandoff: the copy of the updater cannot be overwritten while it runs.
HandOff ==
    /\ running /\ fetch = "ready" /\ fetch' = "idle"
    /\ \/ updater = "none" /\ updater' = "wait" /\ handed' = goal /\ awaited' = TRUE
       \/ UNCHANGED updaterVars
    /\ UNCHANGED <<running, goal, served, partialFile, installer, left>>

\* The process ends, asked to or not, and takes its threads along.
ApplicationEnds ==
    /\ running /\ running' = FALSE /\ awaited' = FALSE
    /\ fetch' = "idle" /\ left' = (left \/ partialFile # Absent)
    /\ UNCHANGED <<goal, served, partialFile, installer, updater, handed>>

UserStarts == /\ ~running /\ running' = TRUE
              /\ UNCHANGED <<fetch, goal, served, partialFile, installer, updaterVars, left>>

-----------------------------------------------------------------------------
(* The updater *)

FetchUnchanged == UNCHANGED <<fetch, goal, served, partialFile, handed, awaited, left>>

\* It gives up after two minutes.
Wait == /\ updater = "wait"
        /\ updater' = IF awaited THEN "none" ELSE "open"
        /\ FetchUnchanged /\ UNCHANGED <<running, installer>>

\* A start of an application that runs already is one that ends at once.
Relaunch == updater' = "none" /\ running' = TRUE

\* Mutant: Setup is run whatever the file is.
OpenUnverified == /\ updater = "open"
                  /\ \/ installer # Absent /\ updater' = "run" /\ UNCHANGED running
                     \/ Relaunch
                  /\ FetchUnchanged /\ UNCHANGED installer
\* VerifiedFile::Open: the file is opened once, verified through that handle and held.
Open == /\ updater = "open"
        /\ \/ VerifyFileSha256(installer, handed) /\ updater' = "run" /\ UNCHANGED running
           \/ Relaunch
        /\ FetchUnchanged /\ UNCHANGED installer

SetupEnds == /\ updater = "run"
             /\ \/ updater' = "delete" /\ UNCHANGED running
                \/ Relaunch
             /\ FetchUnchanged /\ UNCHANGED installer

DeleteInstaller == /\ updater = "delete" /\ Relaunch
                   /\ installer' \in {Absent, installer}
                   /\ FetchUnchanged

UpdaterEnds == /\ updater # "none" /\ updater' = "none"
               /\ FetchUnchanged /\ UNCHANGED <<running, installer>>

(* Anyone with access to the directory *)

ReplaceInstaller ==
    /\ ~Held /\ installer # Absent /\ installer' \in {Absent, Foreign}
    /\ FetchUnchanged /\ UNCHANGED <<running, updater>>
ReplacePartial ==
    /\ partialFile # Absent /\ fetch # "receive" /\ partialFile' \in {Absent, Foreign}
    /\ UNCHANGED <<running, fetch, goal, served, installer, updaterVars, left>>

DownloadNext ==
    \/ \E b \in Builds : BeginDownload(b)
    \/ OpenUrl \/ CreatePartial \/ Receive \/ EndReceive \/ Verify \/ Move \/ Cleanup \/ HandOff
    \/ ApplicationEnds \/ UserStarts
    \/ Wait \/ Open \/ SetupEnds \/ DeleteInstaller \/ UpdaterEnds
    \/ ReplaceInstaller \/ ReplacePartial
DownloadSpec == DownloadInit /\ [][DownloadNext]_downloadVars

-----------------------------------------------------------------------------
(* While Setup runs, the file it runs from is the build that the manifest named   *)
(* when the download was chosen: neither another download nor anyone else can      *)
(* exchange it after its verification (updater_main.cpp:74-92,                       *)
(* file_verification.cpp:33-48, 94).                                                  *)
SetupRunsVerified == updater = "run" => installer = Whole(handed)

(* A part of a build never stands under the installer's name, wherever a download  *)
(* is interrupted (update_client.cpp:113-117, 145-149).                             *)
CompletedIsWhole == installer \in {Absent, Foreign} \cup {Whole(b) : b \in Builds}

(* No download leaves a .partial file, unless its process ended or the file could   *)
(* not be removed, and the next download does away with that                         *)
(* (update_client.cpp:116-126).                                                       *)
PartialIsTemporary == fetch = "idle" /\ partialFile # Absent => left

(* The directory's files are what they are taken for: see the three parts.            *)
DownloadIsSound == SetupRunsVerified /\ CompletedIsWhole /\ PartialIsTemporary
=============================================================================
