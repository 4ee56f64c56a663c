---------------------------- MODULE SnapshotBoard ----------------------------
(***************************************************************************)
(* What the sensor bridge promises.  The service pins whole snapshots to a *)
(* board, each newer than the one before; the desktop takes the snapshot   *)
(* that is on the board, in one step, and then shows it or drops it.       *)
(*                                                                         *)
(* One exception is part of the promise: a start of the service clears the *)
(* board under a reader's eyes, and what that reader takes is not defined. *)
(* SensorBridge implements this module (see ImplementsBoard there).        *)
(***************************************************************************)
EXTENDS Integers

CONSTANT Slots \* what a snapshot may cover

VARIABLES board,   \* the snapshot on the board, Clear if there is none
          reading, \* is the reader at the board, and was it disturbed
          held,    \* what the reader took and has not judged yet
          shown    \* what the desktop shows

vars == <<board, reading, held, shown>>

Snapshot == [id : Nat, qpc : Nat, live : SUBSET Slots]
Clear    == [id |-> 0, qpc |-> 0, live |-> {}]

Nothing  == [kind |-> "nothing", of |-> Clear]
Garbage  == [kind |-> "garbage", of |-> Clear]
Taken(s) == [kind |-> "snapshot", of |-> s]

Init ==
  board = Clear /\ reading = "no" /\ held = Nothing /\ shown = Taken(Clear)

Publish ==
  /\ board' \in Snapshot /\ board'.id > board.id
  /\ UNCHANGED <<reading, held, shown>>

Restart ==
  /\ board' = Clear
  /\ reading' = IF reading = "no" THEN "no" ELSE "disturbed"
  /\ UNCHANGED <<held, shown>>

Approach ==
  /\ reading = "no" /\ held = Nothing /\ reading' \in {"clean", "disturbed"}
  /\ UNCHANGED <<board, held, shown>>

Leave == reading # "no" /\ reading' = "no" /\ UNCHANGED <<board, held, shown>>

Take ==
  /\ reading # "no" /\ reading' = "no"
  /\ held' = IF reading = "clean" THEN Taken(board) ELSE Garbage
  /\ UNCHANGED <<board, shown>>

Show ==
  /\ held # Nothing /\ shown' = held /\ held' = Nothing
  /\ UNCHANGED <<board, reading>>

Drop == held # Nothing /\ held' = Nothing /\ UNCHANGED <<board, reading, shown>>

Next == Publish \/ Restart \/ Approach \/ Leave \/ Take \/ Show \/ Drop

Spec == Init /\ [][Next]_vars
=============================================================================
