---------------------------- MODULE SensorBridge ----------------------------
(***************************************************************************)
(* The shared-memory snapshot bridge between HardwareScopeSensorService    *)
(* and the desktop process (sensor_bridge.cpp).  The service writes a      *)
(* fixed section under a sequence counter: odd while Publish is under way, *)
(* even otherwise.  The desktop client copies the section without a lock   *)
(* and keeps the copy only if the counter was even and did not move.       *)
(*                                                                         *)
(* Every read and write of a memory cell is a step of its own, so the two  *)
(* processes interleave at the grain at which they really race.  Both ends *)
(* fence (InterlockedIncrement64, MemoryBarrier), so the counter's steps   *)
(* are not reordered with the cells' steps; the cells between two fences   *)
(* are accessed in any order.                                              *)
(*                                                                         *)
(* A cell holds the snapshot whose value was last written into it: what    *)
(* the readings are does not matter, only which publication they are of.   *)
(***************************************************************************)
EXTENDS Integers, FiniteSets

CONSTANTS Slots,           \* entries of SharedSensorSnapshot::sensors
          Lives,           \* the sets of slots a snapshot's count may cover
          MaxAge,          \* five seconds, in ticks: older stamps are rejected
          ConnectInterval, \* one second, in ticks: least time between connects
          Attempts,        \* copies tried by one Collect (4 in the code)
          MaxTime,         \* bound on the clock
          MaxSnapshots,    \* bound on the snapshots captured
          MaxEpochs        \* bound on the starts of the service

ASSUME BridgeAssumption ==
  /\ {"qpc", "count", "sequence", "header"} \cap Slots = {}
  /\ Lives \subseteq SUBSET Slots
  /\ MaxAge \in Nat
  /\ ConnectInterval \in Nat
  /\ Attempts \in Nat \ {0}
  /\ MaxTime \in Nat
  /\ MaxSnapshots \in Nat
  /\ MaxEpochs \in Nat

VARIABLES now,         \* QueryPerformanceCounter, in ticks; 0 is never a stamp
          header,      \* magic and version: "zero" or "valid"
          sequence,    \* SharedSensorSnapshot::sequence
          cell,        \* the rest of the section, cell by cell
          service,     \* where the service's thread is
          pending,     \* what it still has to write in this Publish or memset
          current,     \* the snapshot it captured last
          captures,    \* ghost: snapshots captured so far
          epoch,       \* ghost: calls of SensorBridgePublisher::Initialize
          initialized, \* ghost: the last memset of the section was completed
          client,      \* where the desktop's worker thread is
          lastConnect, \* last_connect_attempt_, 0 before the first
          attempt,     \* copies already tried in this Collect
          before,      \* the counter read at the start of the attempt
          copied,      \* the cells copied in this attempt
          copy,        \* copy_buffer_
          window,      \* ghost: "clean" if no Initialize overlapped this attempt
          taken        \* what the last successful Collect returned

sectionVars == <<header, sequence, cell>>
serviceVars == <<service, pending, current, captures, epoch>>
clientVars  == <<client, lastConnect, attempt, before, copied, copy, taken>>
vars == <<now, sectionVars, serviceVars, initialized, clientVars, window>>

-----------------------------------------------------------------------------
Prefix == {"qpc", "count"}
Cells  == Prefix \cup Slots

Snapshot == [id : Nat, qpc : Nat, live : SUBSET Slots]
Zero     == [id |-> 0, qpc |-> 0, live |-> {}]
Blank    == [c \in Cells |-> Zero]

Odd(n) == n % 2 = 1

\* What a reader that trusts f's count looks at.
Covered(f) == Prefix \cup f["count"].live

\* f is one snapshot, not pieces of several.
Whole(f) == \A c \in Covered(f) : f[c] = f["qpc"]

\* The part of the copy that Collect appends to its destination.
Appended(f) == [c \in Cells |-> IF c \in Covered(f) THEN f[c] ELSE Zero]

Nothing == [copy |-> Blank, at |-> 0, window |-> "clean"]

Init ==
  /\ now = 1
  /\ header = "zero" /\ sequence = 0 /\ cell = Blank
  /\ service = "down" /\ pending = {} /\ current = Zero
  /\ captures = 0 /\ epoch = 0 /\ initialized = FALSE
  /\ client = "closed" /\ lastConnect = 0 /\ attempt = 0 /\ before = 0
  /\ copied = {} /\ copy = Blank /\ window = "disturbed"
  /\ taken = Nothing

-----------------------------------------------------------------------------
\* The service.

\* Initialize creates the named section, or opens the one a client keeps
\* alive, and starts to zero it.  A section nobody maps is gone, so the new
\* one is zero from the start.
Initialize ==
  /\ service = "down" /\ epoch < MaxEpochs
  /\ service' = "zeroing" /\ epoch' = epoch + 1
  /\ initialized' = FALSE
  /\ window' = IF client = "judging" THEN window ELSE "disturbed"
  /\ IF client = "closed"
       THEN /\ header' = "zero" /\ sequence' = 0 /\ cell' = Blank
            /\ pending' = {}
       ELSE /\ pending' = Cells \cup {"sequence", "header"}
            /\ UNCHANGED sectionVars
  /\ UNCHANGED <<now, current, captures, clientVars>>

\* One store of memset(shared_, 0, sizeof(*shared_)).
ZeroCell(c) ==
  /\ service = "zeroing" /\ c \in pending
  /\ pending' = pending \ {c}
  /\ header'   = IF c = "header" THEN "zero" ELSE header
  /\ sequence' = IF c = "sequence" THEN 0 ELSE sequence
  /\ cell' = [d \in Cells |-> IF d = c THEN Zero ELSE cell[d]]
  /\ UNCHANGED <<now, service, current, captures, epoch, initialized,
                 clientVars, window>>

\* The memset is complete: magic and version are set and Initialize returns.
WriteHeader ==
  /\ service = "zeroing" /\ pending = {}
  /\ service' = "idle" /\ header' = "valid" /\ initialized' = TRUE
  /\ UNCHANGED <<now, sequence, cell, pending, current, captures, epoch,
                 clientVars, window>>

\* A turn of RunCollector's loop stamps its snapshot with the counter it read
\* at the top of the loop.
Capture ==
  /\ service = "idle" /\ captures < MaxSnapshots
  /\ \E live \in Lives :
       current' = [id |-> captures + 1, qpc |-> now, live |-> live]
  /\ captures' = captures + 1 /\ service' = "captured"
  /\ UNCHANGED <<now, sectionVars, pending, epoch, initialized, clientVars,
                 window>>

\* Mutant: the counter is moved the other way.
BeginPublishDown ==
  /\ service = "captured"
  /\ service' = "writing" /\ sequence' = sequence - 1
  /\ pending' = Prefix \cup current.live
  /\ UNCHANGED <<now, header, cell, current, captures, epoch, initialized,
                 clientVars, window>>

\* Publish: the counter becomes odd, the cells are written, the counter
\* becomes even.  Slots beyond the snapshot's count are left as they were.
BeginPublish ==
  /\ service = "captured"
  /\ service' = "writing" /\ sequence' = sequence + 1
  /\ pending' = Prefix \cup current.live
  /\ UNCHANGED <<now, header, cell, current, captures, epoch, initialized,
                 clientVars, window>>

WriteCell(c) ==
  /\ service = "writing" /\ c \in pending
  /\ cell' = [cell EXCEPT ![c] = current]
  /\ pending' = pending \ {c}
  /\ UNCHANGED <<now, header, sequence, service, current, captures, epoch,
                 initialized, clientVars, window>>

EndPublish ==
  /\ service = "writing" /\ pending = {}
  /\ service' = "idle" /\ sequence' = sequence + 1
  /\ UNCHANGED <<now, header, cell, pending, current, captures, epoch,
                 initialized, clientVars, window>>

\* The service stops or is killed, at any point.  The section survives in the
\* state it is in for as long as the client maps it.
ServiceExit ==
  /\ service # "down"
  /\ service' = "down" /\ pending' = {}
  /\ UNCHANGED <<now, sectionVars, current, captures, epoch, initialized,
                 clientVars, window>>

-----------------------------------------------------------------------------
\* The desktop client.

\* Connect is throttled; it needs the section to exist, that is a service
\* that maps it, and a valid header.
Connect ==
  /\ client = "closed"
  /\ lastConnect = 0 \/ now - lastConnect >= ConnectInterval
  /\ lastConnect' = now
  /\ client' = IF service # "down" /\ header = "valid"
                 THEN "mapped" ELSE "closed"
  /\ UNCHANGED <<now, sectionVars, serviceVars, initialized, attempt, before,
                 copied, copy, window, taken>>

\* Collect resets its buffer and makes its first attempt.
BeginCollect ==
  /\ client = "mapped"
  /\ client' = "sequence" /\ attempt' = 0 /\ copied' = {} /\ copy' = Blank
  /\ UNCHANGED <<now, sectionVars, serviceVars, initialized, lastConnect,
                 before, window, taken>>

\* SensorBridgeClient::Close: the handles go, and the pass over the buffer
\* with them.
CloseClient ==
  /\ client' = "closed" /\ attempt' = 0 /\ before' = 0
  /\ copied' = {} /\ copy' = Blank /\ window' = "disturbed"

\* This attempt failed: try again, or give up and close after the last one.
NextAttempt ==
  IF attempt + 1 < Attempts
    THEN /\ client' = "sequence" /\ attempt' = attempt + 1
         /\ before' = 0 /\ copied' = {} /\ window' = "disturbed"
         /\ copy' = copy
    ELSE CloseClient

\* Mutant: an odd counter does not stop the attempt.
ReadBeforeUnchecked ==
  /\ client = "sequence"
  /\ client' = "copying" /\ before' = sequence /\ copied' = {}
  /\ window' = IF initialized THEN "clean" ELSE "disturbed"
  /\ UNCHANGED <<now, sectionVars, serviceVars, initialized, lastConnect,
                 attempt, copy, taken>>

ReadBefore ==
  /\ client = "sequence"
  /\ IF Odd(sequence)
       THEN NextAttempt
       ELSE /\ client' = "copying" /\ before' = sequence
            /\ copied' = {}
            /\ window' = IF initialized THEN "clean" ELSE "disturbed"
            /\ UNCHANGED <<attempt, copy>>
  /\ UNCHANGED <<now, sectionVars, serviceVars, initialized, lastConnect,
                 taken>>

\* The number of slots to copy is the count already copied.
CopyCell(c) ==
  /\ client = "copying"
  /\ c \notin copied
  /\ c \in Prefix \/ ("count" \in copied /\ c \in copy["count"].live)
  /\ copy' = [copy EXCEPT ![c] = cell[c]]
  /\ copied' = copied \cup {c}
  /\ UNCHANGED <<now, sectionVars, serviceVars, initialized, client,
                 lastConnect, attempt, before, window, taken>>

\* Mutant: the counter is not compared with its earlier value.
ReadAfterUncompared ==
  /\ client = "copying"
  /\ Prefix \subseteq copied /\ copy["count"].live \subseteq copied
  /\ IF Odd(sequence)
       THEN NextAttempt
       ELSE /\ client' = "judging" /\ attempt' = 0 /\ before' = 0
            /\ copied' = {} /\ UNCHANGED <<copy, window>>
  /\ UNCHANGED <<now, sectionVars, serviceVars, initialized, lastConnect,
                 taken>>

\* The loop's variables are dead once a copy is accepted.
ReadAfter ==
  /\ client = "copying"
  /\ Prefix \subseteq copied /\ copy["count"].live \subseteq copied
  /\ IF sequence = before
       THEN /\ client' = "judging" /\ attempt' = 0 /\ before' = 0
            /\ copied' = {} /\ UNCHANGED <<copy, window>>
       ELSE NextAttempt
  /\ UNCHANGED <<now, sectionVars, serviceVars, initialized, lastConnect,
                 taken>>

\* Mutants: one of the stamp's tests is missing.
FreshAtAnyAge(stamp) == stamp # 0 /\ stamp <= now
FreshWithoutStamp(stamp) == stamp <= now /\ now - stamp <= MaxAge

\* A stamp that is zero, in the future or too old means stopped collection.
Fresh(stamp) == stamp # 0 /\ stamp <= now /\ now - stamp <= MaxAge

\* The end of Collect: keep the copy, or close and report failure.
Judge ==
  /\ client = "judging"
  /\ IF Fresh(copy["qpc"].qpc)
       THEN /\ taken' = [copy |-> Appended(copy), at |-> now,
                         window |-> window]
            /\ client' = "mapped" /\ copy' = Blank /\ window' = "disturbed"
            /\ UNCHANGED <<attempt, before, copied>>
       ELSE CloseClient /\ UNCHANGED taken
  /\ UNCHANGED <<now, sectionVars, serviceVars, initialized, lastConnect>>

\* The desktop process goes away and comes back as a new one.
ClientExit ==
  /\ client # "closed"
  /\ CloseClient /\ lastConnect' = 0
  /\ UNCHANGED <<now, sectionVars, serviceVars, initialized, taken>>

Tick ==
  /\ now < MaxTime /\ now' = now + 1
  /\ UNCHANGED <<sectionVars, serviceVars, initialized, clientVars,
                 window>>

-----------------------------------------------------------------------------
ServiceNext ==
  \/ Initialize \/ WriteHeader
  \/ \E c \in Cells \cup {"sequence", "header"} : ZeroCell(c)
  \/ Capture \/ BeginPublish \/ EndPublish
  \/ \E c \in Cells : WriteCell(c)
  \/ ServiceExit

ClientNext ==
  \/ Connect \/ BeginCollect \/ ReadBefore \/ ReadAfter \/ Judge
  \/ \E c \in Cells : CopyCell(c)
  \/ ClientExit

Next == ServiceNext \/ ClientNext \/ Tick

Spec == Init /\ [][Next]_vars

-----------------------------------------------------------------------------
\* The refinement of SnapshotBoard.  A publication counts from its first
\* increment of the counter: from there on nobody can copy the one before.
Board ==
  IF ~initialized THEN Zero ELSE IF Odd(sequence) THEN current ELSE cell["qpc"]

Reading == IF client = "copying" THEN window ELSE "no"

\* The snapshot a copy is of; a copy of pieces is no snapshot at all.
Content(f, w) ==
  IF w = "clean" /\ Whole(f) THEN [kind |-> "snapshot", of |-> f["qpc"]]
                       ELSE [kind |-> "garbage", of |-> Zero]

Held ==
  IF client = "judging" THEN Content(copy, window)
                        ELSE [kind |-> "nothing", of |-> Zero]

Shown == Content(taken.copy, taken.window)

Contract == INSTANCE SnapshotBoard WITH
              board <- Board, reading <- Reading, held <- Held, shown <- Shown

-----------------------------------------------------------------------------
TypeOK ==
  /\ now \in Nat \ {0}
  /\ header \in {"zero", "valid"} /\ sequence \in Nat
  /\ cell \in [Cells -> Snapshot]
  /\ service \in {"down", "zeroing", "idle", "captured", "writing"}
  /\ pending \in SUBSET (Cells \cup {"sequence", "header"})
  /\ current \in Snapshot /\ captures \in Nat /\ epoch \in Nat
  /\ initialized \in BOOLEAN
  /\ client \in {"closed", "mapped", "sequence", "copying", "judging"}
  /\ lastConnect \in Nat /\ attempt \in Nat /\ before \in Nat
  /\ copied \in SUBSET Cells /\ copy \in [Cells -> Snapshot]
  /\ window \in {"clean", "disturbed"}
  /\ taken \in [copy : [Cells -> Snapshot], at : Nat,
            window : {"clean", "disturbed"}]

\* A snapshot handed to the desktop is one publication, never a mixture of
\* two, whatever the service does during the copy short of starting anew
\* (Initialize zeroes a section that a client may be reading, with the
\* counter even).
TakenIsWhole == taken.window = "clean" => Whole(taken.copy)

\* A service that stopped capturing, crashed in the middle of a Publish or
\* restarted over a section that still holds old data is never shown as live
\* for longer than MaxAge: at the time Collect returned, the service had
\* captured a snapshot at most MaxAge earlier.
NeverShowsDeadService ==
  taken.at # 0 => current.qpc # 0 /\ taken.at - current.qpc <= MaxAge

\* The stamps the desktop sees never move backward, not even across restarts
\* of the service or a copy disturbed by one.
StampsMoveForward ==
  [][taken'.copy["qpc"].qpc >= taken.copy["qpc"].qpc]_taken

\* Copying the section cell by cell under the counter is as good as taking
\* the latest snapshot in one step: the lock-free protocol of Publish and
\* Collect implements the board, restarts and crashes included.
ImplementsBoard == Contract!Init /\ [][Contract!Next]_Contract!vars
=============================================================================
