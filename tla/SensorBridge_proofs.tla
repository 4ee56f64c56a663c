------------------------ MODULE SensorBridge_proofs ------------------------
(***************************************************************************)
(* Theorems about the two ways between the service and the desktop.        *)
(* SensorBridge, the shared section: for every number of slots, any limits *)
(* on age and attempts, and any number of snapshots, restarts and ticks.   *)
(* ControlPipe, the channel back: for any games, and any timing the code's *)
(* constants can amount to.                                                *)
(***************************************************************************)
EXTENDS SensorBridge, ControlPipe, TLAPS

\* The service: a section that is up and has an even counter holds one whole
\* snapshot; while the counter is odd the cells already written are of the
\* snapshot being published; while it is being zeroed no one vouches for it.
WriterInv ==
  /\ service \in {"idle", "captured"} => initialized /\ ~Odd(sequence)
  /\ service = "zeroing" =>
       /\ ~initialized
       /\ \A c \in Cells \ pending : cell[c] = Zero
       /\ "sequence" \notin pending => sequence = 0
  /\ service = "writing" =>
       /\ initialized /\ Odd(sequence)
       /\ pending \subseteq Prefix \cup current.live
       /\ \A c \in (Prefix \cup current.live) \ pending : cell[c] = current
  /\ initialized /\ ~Odd(sequence) => Whole(cell)

\* The client: as long as the counter still has the value read first, what
\* has been copied is what the section still holds.
ReaderInv ==
  /\ window = "clean" => client \in {"copying", "judging"}
  /\ client = "copying" /\ window = "clean" =>
       /\ initialized /\ ~Odd(before) /\ before <= sequence
       /\ sequence = before => \A c \in copied : copy[c] = cell[c]
  /\ client = "judging" /\ window = "clean" => Whole(copy)

\* The stamps: nothing in the section, in the buffer or on the screen is
\* newer than the last capture; zero excepted, the section's stamp is never
\* older than the buffer's, nor either of them than the one on the screen.
StampInv ==
  /\ current.qpc <= now
  /\ \A c \in Cells : cell[c].qpc <= current.qpc
  /\ copy["qpc"].qpc <= current.qpc
  /\ taken.copy["qpc"].qpc <= current.qpc
  /\ cell["qpc"].qpc = 0 \/ cell["qpc"].qpc >= taken.copy["qpc"].qpc
  /\ cell["qpc"].qpc = 0 \/ cell["qpc"].qpc >= copy["qpc"].qpc
  /\ copy["qpc"].qpc = 0 \/ copy["qpc"].qpc >= taken.copy["qpc"].qpc
  /\ taken.at # 0 => /\ taken.copy["qpc"].qpc # 0
                     /\ taken.at - taken.copy["qpc"].qpc <= MaxAge

\* The identities: what is about to be published is newer than the section.
IdInv ==
  /\ current.id <= captures
  /\ \A c \in Cells : cell[c].id <= current.id
  /\ service = "captured" => \A c \in Cells : cell[c].id < current.id

-----------------------------------------------------------------------------
LEMMA BlankType == Zero \in Snapshot /\ Blank \in [Cells -> Snapshot]
  BY DEF Zero, Snapshot, Blank

LEMMA AppendedType ==
  ASSUME NEW f \in [Cells -> Snapshot]
  PROVE  /\ Appended(f) \in [Cells -> Snapshot]
         /\ Appended(f)["qpc"] = f["qpc"]
         /\ Appended(f)["count"] = f["count"]
         /\ Whole(f) => Whole(Appended(f))
  BY BlankType DEF Appended, Covered, Prefix, Cells, Whole, Snapshot

LEMMA TypeInit == Init => TypeOK
<1> SUFFICES ASSUME Init PROVE TypeOK
  OBVIOUS
<1> USE BlankType DEF Init
<1>1. now \in Nat \ {0} /\ header \in {"zero", "valid"} /\ sequence \in Nat
  OBVIOUS
<1>2. cell \in [Cells -> Snapshot] /\ current \in Snapshot
  OBVIOUS
<1>3. initialized \in BOOLEAN
  OBVIOUS
<1>4. taken \in [copy : [Cells -> Snapshot], at : Nat,
                 window : {"clean", "disturbed"}]
  BY DEF Nothing
<1>5. pending \in SUBSET (Cells \cup {"sequence", "header"}) /\ copied \in SUBSET Cells
  OBVIOUS
<1>. QED BY <1>1, <1>2, <1>3, <1>4, <1>5 DEF TypeOK

LEMMA TypeNext ==
  ASSUME TypeOK, [Next]_vars PROVE TypeOK'
<1> USE BridgeAssumption, BlankType DEF TypeOK
<1>1. CASE Initialize
  <2> USE <1>1 DEF Initialize
  <2>1. header' \in {"zero", "valid"} /\ sequence' \in Nat
    BY DEF sectionVars
  <2>2. cell' \in [Cells -> Snapshot]
    BY DEF sectionVars
  <2>3. pending' \in SUBSET (Cells \cup {"sequence", "header"})
    OBVIOUS
  <2>4. window' \in {"clean", "disturbed"}
    OBVIOUS
  <2>5. initialized' \in BOOLEAN
    <3> HIDE DEF TypeOK
    <3>. QED BY Zenon
  <2>6. epoch' \in Nat
    OBVIOUS
  <2>7. UNCHANGED <<now, current, captures, client, lastConnect, attempt,
                    before, copied, copy, taken>>
    BY DEF clientVars
  <2>8. service' = "zeroing"
    OBVIOUS
  <2> HIDE <1>1 DEF Initialize
  <2>. QED BY <2>1, <2>2, <2>3, <2>4, <2>5, <2>6, <2>7, <2>8
<1>2. ASSUME NEW c \in Cells \cup {"sequence", "header"}, ZeroCell(c)
      PROVE TypeOK'
  BY <1>2 DEF ZeroCell, clientVars
<1>3. CASE WriteHeader
  BY <1>3 DEF WriteHeader, clientVars
<1>4. CASE Capture
  BY <1>4 DEF Capture, sectionVars, clientVars, Snapshot
<1>5. CASE BeginPublish
  <2>1. Prefix \cup current.live \in SUBSET Cells
    BY DEF Cells, Snapshot
  <2>. QED BY <1>5, <2>1 DEF BeginPublish, clientVars
<1>6. ASSUME NEW c \in Cells, WriteCell(c) PROVE TypeOK'
  BY <1>6 DEF WriteCell, clientVars
<1>7. CASE EndPublish
  BY <1>7 DEF EndPublish, clientVars
<1>8. CASE ServiceExit
  BY <1>8 DEF ServiceExit, sectionVars, clientVars
<1>9. CASE Connect
  BY <1>9 DEF Connect, sectionVars, serviceVars
<1>10. CASE BeginCollect
  BY <1>10 DEF BeginCollect, sectionVars, serviceVars
<1>11. CASE ReadBefore
  BY <1>11 DEF ReadBefore, NextAttempt, CloseClient, sectionVars, serviceVars
<1>12. ASSUME NEW c \in Cells, CopyCell(c) PROVE TypeOK'
  BY <1>12 DEF CopyCell, sectionVars, serviceVars
<1>13. CASE ReadAfter
  BY <1>13 DEF ReadAfter, NextAttempt, CloseClient, sectionVars, serviceVars
<1>14. CASE Judge
  BY <1>14, AppendedType DEF Judge, CloseClient, sectionVars, serviceVars
<1>15. CASE ClientExit
  BY <1>15 DEF ClientExit, CloseClient, sectionVars, serviceVars
<1>16. CASE Tick
  BY <1>16 DEF Tick, sectionVars, serviceVars, clientVars
<1>17. CASE UNCHANGED vars
  BY <1>17 DEF vars, sectionVars, serviceVars, clientVars
<1>18. QED
  BY <1>1, <1>2, <1>3, <1>4, <1>5, <1>6, <1>7, <1>8, <1>9, <1>10, <1>11,
     <1>12, <1>13, <1>14, <1>15, <1>16, <1>17
     DEF Next, ServiceNext, ClientNext

\* Every variable keeps its type.
THEOREM TypeCorrect == Spec => []TypeOK
<1>1. TypeOK /\ [Next]_vars => TypeOK'
  BY TypeNext
<1>2. QED BY TypeInit, <1>1, PTL DEF Spec

-----------------------------------------------------------------------------
\* The parity of the counter, which is all that is asked of it.
LEMMA Parity ==
  ASSUME NEW n \in Nat
  PROVE  Odd(n + 1) <=> ~Odd(n)
  BY DEF Odd

LEMMA Even0 == ~Odd(0)
  BY DEF Odd

LEMMA BlankWhole == Whole(Blank)
  BY DEF Whole, Blank, Covered, Zero, Prefix, Cells

\* A whole section stays whole under a change that touches none of its cells,
\* and writing every cell a snapshot covers makes the section whole.
LEMMA WriterInductive ==
  ASSUME TypeOK, WriterInv, [Next]_vars PROVE WriterInv'
<1> USE BridgeAssumption DEF TypeOK, WriterInv
<1>1. CASE Initialize
  <2>1. CASE client = "closed"
    BY <1>1, <2>1 DEF Initialize, Blank
  <2>2. CASE client # "closed"
    BY <1>1, <2>2 DEF Initialize, sectionVars
  <2>. QED BY <2>1, <2>2
<1>2. ASSUME NEW c \in Cells \cup {"sequence", "header"}, ZeroCell(c)
      PROVE WriterInv'
  BY <1>2 DEF ZeroCell
<1>3. CASE WriteHeader
  <2>1. cell = Blank
    BY <1>3 DEF WriteHeader, Blank
  <2>. QED BY <1>3, <2>1, Even0, BlankWhole DEF WriteHeader, Whole, Covered
<1>4. CASE Capture
  BY <1>4 DEF Capture, sectionVars, Whole, Covered
<1>5. CASE BeginPublish
  BY <1>5, Parity DEF BeginPublish
<1>6. ASSUME NEW c \in Cells, WriteCell(c) PROVE WriterInv'
  BY <1>6 DEF WriteCell
<1>7. CASE EndPublish
  <2>1. \A c \in Prefix \cup current.live : cell[c] = current
    BY <1>7 DEF EndPublish
  <2>2. Whole(cell)
    BY <2>1 DEF Whole, Covered, Prefix
  <2>. QED BY <1>7, <2>2, Parity DEF EndPublish, Whole, Covered
<1>8. CASE ServiceExit
  BY <1>8 DEF ServiceExit, sectionVars, Whole, Covered
<1>9. CASE ClientNext \/ Tick \/ UNCHANGED vars
  <2>1. UNCHANGED <<sectionVars, serviceVars, initialized>>
    BY <1>9 DEF ClientNext, Connect, BeginCollect, ReadBefore, CopyCell,
                ReadAfter, Judge, ClientExit, Tick, vars
  <2>. QED BY <2>1 DEF sectionVars, serviceVars, Whole, Covered
<1>10. QED
  BY <1>1, <1>2, <1>3, <1>4, <1>5, <1>6, <1>7, <1>8, <1>9
     DEF Next, ServiceNext

LEMMA ReaderInductive ==
  ASSUME TypeOK, WriterInv, ReaderInv, [Next]_vars PROVE ReaderInv'
<1> USE BridgeAssumption DEF TypeOK, ReaderInv
<1>1. CASE Initialize
  BY <1>1 DEF Initialize, clientVars, Whole, Covered
<1>2. ASSUME NEW c \in Cells \cup {"sequence", "header"}, ZeroCell(c)
      PROVE ReaderInv'
  BY <1>2 DEF ZeroCell, clientVars, Whole, Covered, WriterInv
<1>3. CASE WriteHeader
  BY <1>3 DEF WriteHeader, clientVars, Whole, Covered, WriterInv
<1>4. CASE Capture
  BY <1>4 DEF Capture, sectionVars, clientVars, Whole, Covered
<1>5. CASE BeginPublish
  BY <1>5, Parity DEF BeginPublish, clientVars, Whole, Covered, WriterInv
<1>6. ASSUME NEW c \in Cells, WriteCell(c) PROVE ReaderInv'
  BY <1>6 DEF WriteCell, clientVars, Whole, Covered, WriterInv
<1>7. CASE EndPublish
  BY <1>7 DEF EndPublish, clientVars, Whole, Covered, WriterInv
<1>8. CASE ServiceExit
  BY <1>8 DEF ServiceExit, sectionVars, clientVars, Whole, Covered
<1>9. CASE Connect
  BY <1>9 DEF Connect, sectionVars, serviceVars
<1>10. CASE BeginCollect
  BY <1>10 DEF BeginCollect, sectionVars, serviceVars
<1>11. CASE ReadBefore
  BY <1>11 DEF ReadBefore, NextAttempt, CloseClient, sectionVars, serviceVars
<1>12. ASSUME NEW c \in Cells, CopyCell(c) PROVE ReaderInv'
  BY <1>12 DEF CopyCell, sectionVars, serviceVars
<1>13. CASE ReadAfter
  <2>1. CASE sequence = before
    <3>1. window = "clean" => \A c \in Covered(copy) : copy[c] = cell[c]
      BY <1>13, <2>1 DEF ReadAfter, Covered
    <3>2. window = "clean" => Whole(copy)
      BY <1>13, <2>1, <3>1
         DEF ReadAfter, WriterInv, Whole, Covered, Prefix
    <3>. QED BY <1>13, <2>1, <3>2 DEF ReadAfter, Whole, Covered
  <2>2. CASE sequence # before
    BY <1>13, <2>2 DEF ReadAfter, NextAttempt, CloseClient
  <2>. QED BY <2>1, <2>2
<1>14. CASE Judge
  BY <1>14 DEF Judge, CloseClient
<1>15. CASE ClientExit
  BY <1>15 DEF ClientExit, CloseClient
<1>16. CASE Tick \/ UNCHANGED vars
  BY <1>16 DEF Tick, vars, sectionVars, serviceVars, clientVars, Whole, Covered
<1>17. QED
  BY <1>1, <1>2, <1>3, <1>4, <1>5, <1>6, <1>7, <1>8, <1>9, <1>10, <1>11,
     <1>12, <1>13, <1>14, <1>15, <1>16 DEF Next, ServiceNext, ClientNext

LEMMA TakenInductive ==
  ASSUME TypeOK, ReaderInv, TakenIsWhole, [Next]_vars PROVE TakenIsWhole'
<1>1. CASE UNCHANGED taken
  BY <1>1 DEF TakenIsWhole, Whole, Covered
<1>2. CASE Judge /\ taken' # taken
  <2>1. window = "clean" => Whole(copy)
    BY <1>2 DEF ReaderInv, Judge
  <2>2. taken' = [copy |-> Appended(copy), at |-> now, window |-> window]
    BY <1>2 DEF Judge
  <2>. QED BY <2>1, <2>2, AppendedType DEF TakenIsWhole, TypeOK, Whole, Covered
<1>3. QED
  BY <1>1, <1>2
     DEF Next, ServiceNext, ClientNext, Initialize, ZeroCell, WriteHeader,
         Capture, BeginPublish, WriteCell, EndPublish, ServiceExit, Connect,
         BeginCollect, ReadBefore, CopyCell, ReadAfter, ClientExit, Tick,
         vars, clientVars

\* The whole inductive invariant of the protocol's integrity.
BridgeInv == TypeOK /\ WriterInv /\ ReaderInv /\ TakenIsWhole

LEMMA BridgeInvInit == Init => BridgeInv
<1>1. Init => WriterInv /\ ReaderInv
  BY BlankWhole DEF Init, WriterInv, ReaderInv
<1>2. Init => TakenIsWhole
  BY BlankWhole DEF Init, TakenIsWhole, Nothing, Whole, Covered
<1>3. QED BY <1>1, <1>2, TypeInit DEF BridgeInv

LEMMA BridgeInvariant == Spec => []BridgeInv
<1>1. BridgeInv /\ [Next]_vars => BridgeInv'
  BY WriterInductive, ReaderInductive, TakenInductive, TypeNext DEF BridgeInv
<1>2. QED BY BridgeInvInit, <1>1, PTL DEF Spec

\* What Collect hands to the desktop is one publication and never a mixture,
\* unless the service started anew while the copy was being made.
THEOREM CopiesAreWhole == Spec => []TakenIsWhole
<1>1. BridgeInv => TakenIsWhole
  BY DEF BridgeInv
<1>2. QED BY BridgeInvariant, <1>1, PTL

-----------------------------------------------------------------------------
LEMMA StampInductive ==
  ASSUME TypeOK, StampInv, [Next]_vars PROVE StampInv'
<1> USE BridgeAssumption DEF TypeOK, StampInv, Snapshot
<1>1. CASE Initialize
  <2>1. CASE client = "closed"
    BY <1>1, <2>1 DEF Initialize, clientVars, Blank, Zero, Cells, Prefix
  <2>2. CASE client # "closed"
    BY <1>1, <2>2 DEF Initialize, clientVars, sectionVars
  <2>. QED BY <2>1, <2>2
<1>2. ASSUME NEW c \in Cells \cup {"sequence", "header"}, ZeroCell(c)
      PROVE StampInv'
  BY <1>2 DEF ZeroCell, clientVars, Zero, Cells, Prefix
<1>3. CASE WriteHeader
  BY <1>3 DEF WriteHeader, clientVars
<1>4. CASE Capture
  BY <1>4 DEF Capture, sectionVars, clientVars, Cells, Prefix
<1>5. CASE BeginPublish
  BY <1>5 DEF BeginPublish, clientVars
<1>6. ASSUME NEW c \in Cells, WriteCell(c) PROVE StampInv'
  BY <1>6 DEF WriteCell, clientVars, Cells, Prefix
<1>7. CASE EndPublish
  BY <1>7 DEF EndPublish, clientVars
<1>8. CASE ServiceExit
  BY <1>8 DEF ServiceExit, sectionVars, clientVars
<1>9. CASE Connect
  BY <1>9 DEF Connect, sectionVars, serviceVars
<1>10. CASE BeginCollect
  BY <1>10 DEF BeginCollect, sectionVars, serviceVars, Blank, Zero, Cells,
               Prefix
<1>11. CASE ReadBefore
  BY <1>11 DEF ReadBefore, NextAttempt, CloseClient, sectionVars, serviceVars,
               Blank, Zero, Cells, Prefix
<1>12. ASSUME NEW c \in Cells, CopyCell(c) PROVE StampInv'
  BY <1>12 DEF CopyCell, sectionVars, serviceVars, Cells, Prefix
<1>13. CASE ReadAfter
  BY <1>13 DEF ReadAfter, NextAttempt, CloseClient, sectionVars, serviceVars,
               Blank, Zero, Cells, Prefix
<1>14. CASE Judge
  <2>1. CASE Fresh(copy["qpc"].qpc)
    <3>1. /\ taken'.copy["qpc"] = copy["qpc"] /\ taken'.at = now
          /\ copy' = Blank
      BY <1>14, <2>1, AppendedType DEF Judge
    <3>2. UNCHANGED <<now, cell, current>>
      BY <1>14 DEF Judge, sectionVars, serviceVars
    <3>. QED BY <2>1, <3>1, <3>2 DEF Fresh, Blank, Zero, Cells, Prefix
  <2>2. CASE ~Fresh(copy["qpc"].qpc)
    BY <1>14, <2>2 DEF Judge, CloseClient, sectionVars, serviceVars, Blank,
                       Zero, Cells, Prefix
  <2>. QED BY <2>1, <2>2
<1>15. CASE ClientExit
  BY <1>15 DEF ClientExit, CloseClient, sectionVars, serviceVars, Blank, Zero,
               Cells, Prefix
<1>16. CASE Tick
  BY <1>16 DEF Tick, sectionVars, serviceVars, clientVars
<1>17. CASE UNCHANGED vars
  BY <1>17 DEF vars, sectionVars, serviceVars, clientVars
<1>18. QED
  BY <1>1, <1>2, <1>3, <1>4, <1>5, <1>6, <1>7, <1>8, <1>9, <1>10, <1>11,
     <1>12, <1>13, <1>14, <1>15, <1>16, <1>17
     DEF Next, ServiceNext, ClientNext

LEMMA StampInvariant == Spec => [](TypeOK /\ StampInv)
<1>1. Init => StampInv
  BY BlankType, BridgeAssumption DEF Init, StampInv, Nothing, Blank, Zero, Cells, Prefix
<1>2. TypeOK /\ StampInv /\ [Next]_vars => (TypeOK /\ StampInv)'
  BY TypeNext, StampInductive
<1>3. QED BY <1>1, <1>2, TypeInit, PTL DEF Spec

\* A dead service is never shown as live for longer than MaxAge.
THEOREM DeadServiceIsNotShown == Spec => []NeverShowsDeadService
<1>1. TypeOK /\ StampInv => NeverShowsDeadService
  BY BridgeAssumption DEF TypeOK, StampInv, NeverShowsDeadService, Snapshot, Cells, Prefix
<1>2. QED BY StampInvariant, <1>1, PTL

\* The stamps on the screen never move backward, across any restarts.
THEOREM StampsAreMonotone == Spec => StampsMoveForward
<1>1. TypeOK /\ StampInv /\ [Next]_vars
        => [taken'.copy["qpc"].qpc >= taken.copy["qpc"].qpc]_taken
  <2> SUFFICES ASSUME TypeOK, StampInv, [Next]_vars, taken' # taken
               PROVE  taken'.copy["qpc"].qpc >= taken.copy["qpc"].qpc
    OBVIOUS
  <2>1. Judge
    BY DEF Next, ServiceNext, ClientNext, Initialize, ZeroCell, WriteHeader,
           Capture, BeginPublish, WriteCell, EndPublish, ServiceExit, Connect,
           BeginCollect, ReadBefore, CopyCell, ReadAfter, ClientExit, Tick,
           vars, clientVars
  <2>2. Fresh(copy["qpc"].qpc) /\ taken'.copy["qpc"] = copy["qpc"]
    BY <2>1, AppendedType DEF Judge, TypeOK
  <2>. QED BY <2>2 DEF Fresh, StampInv
<1>2. QED BY StampInvariant, <1>1, PTL DEF Spec, StampsMoveForward

-----------------------------------------------------------------------------
LEMMA IdInductive ==
  ASSUME TypeOK, IdInv, [Next]_vars PROVE IdInv'
<1> USE DEF TypeOK, IdInv, Snapshot
<1>1. CASE Initialize
  BY <1>1 DEF Initialize, sectionVars, Blank, Zero
<1>2. ASSUME NEW c \in Cells \cup {"sequence", "header"}, ZeroCell(c)
      PROVE IdInv'
  BY <1>2 DEF ZeroCell, Zero
<1>3. CASE Capture
  BY <1>3 DEF Capture, sectionVars
<1>4. CASE WriteHeader \/ BeginPublish \/ EndPublish
  BY <1>4 DEF WriteHeader, BeginPublish, EndPublish
<1>5. ASSUME NEW c \in Cells, WriteCell(c) PROVE IdInv'
  BY <1>5 DEF WriteCell
<1>6. CASE ServiceExit
  BY <1>6 DEF ServiceExit, sectionVars
<1>7. CASE ClientNext \/ Tick \/ UNCHANGED vars
  <2>1. UNCHANGED <<sectionVars, serviceVars>>
    BY <1>7 DEF ClientNext, Connect, BeginCollect, ReadBefore, CopyCell,
                ReadAfter, Judge, ClientExit, Tick, vars
  <2>. QED BY <2>1 DEF sectionVars, serviceVars
<1>8. QED
  BY <1>1, <1>2, <1>3, <1>4, <1>5, <1>6, <1>7 DEF Next, ServiceNext

\* A step that leaves the four mapped variables alone is a stuttering step of
\* the board; the mapped variables are functions of few of the bridge's.
LEMMA Stutter ==
  ASSUME UNCHANGED <<Board, Reading, Held, Shown>>
  PROVE  [Contract!Next]_Contract!vars
  BY DEF Contract!vars

LEMMA SameBoard ==
  ASSUME UNCHANGED <<sectionVars, initialized, current>>
  PROVE  Board' = Board
  BY DEF Board, sectionVars

LEMMA SameContent ==
  ASSUME UNCHANGED <<copy, taken, window, client>>
  PROVE  UNCHANGED <<Reading, Held, Shown>>
  BY DEF Reading, Held, Shown, Content, Whole, Covered

LEMMA SameShown ==
  ASSUME UNCHANGED taken
  PROVE  Shown' = Shown
  BY DEF Shown, Content, Whole, Covered

\* A step of the service publishes, restarts or does nothing to the board.
LEMMA ServiceStep ==
  ASSUME BridgeInv, IdInv, ServiceNext
  PROVE  [Contract!Next]_Contract!vars
<1> USE DEF BridgeInv, TypeOK
<1>1. CASE Initialize
  <2>1. Board' = Zero /\ Shown' = Shown
    BY <1>1, SameShown DEF Initialize, Board, clientVars
  <2>2. Reading' = IF Reading = "no" THEN "no" ELSE "disturbed"
    BY <1>1 DEF Initialize, Reading, clientVars
  <2>3. Held' = Held
    BY <1>1 DEF Initialize, Held, Content, Whole, Covered, clientVars
  <2>. QED BY <2>1, <2>2, <2>3
           DEF Contract!Next, Contract!Restart, Contract!Clear, Zero
<1>2. ASSUME NEW c \in Cells \cup {"sequence", "header"}, ZeroCell(c)
      PROVE [Contract!Next]_Contract!vars
  <2>1. Board' = Board
    BY <1>2 DEF ZeroCell, Board, WriterInv
  <2>. QED BY <1>2, <2>1, SameContent, Stutter DEF ZeroCell, clientVars
<1>3. CASE WriteHeader
  <2>1. Board' = Board
    BY <1>3, Even0 DEF WriteHeader, Board, WriterInv, Cells, Prefix
  <2>. QED BY <1>3, <2>1, SameContent, Stutter DEF WriteHeader, clientVars
<1>4. CASE Capture
  <2>1. Board' = Board
    BY <1>4 DEF Capture, Board, WriterInv, sectionVars
  <2>. QED BY <1>4, <2>1, SameContent, Stutter DEF Capture, clientVars
<1>5. CASE BeginPublish
  <2>1. Board' = current /\ Board = cell["qpc"]
    BY <1>5, Parity DEF BeginPublish, Board, WriterInv
  <2>2. current.id > cell["qpc"].id
    BY <1>5 DEF BeginPublish, IdInv, Cells, Prefix, Snapshot
  <2>3. UNCHANGED <<Reading, Held, Shown>>
    BY <1>5, SameContent DEF BeginPublish, clientVars
  <2>. QED BY <2>1, <2>2, <2>3
           DEF Contract!Next, Contract!Publish, Contract!Snapshot, Snapshot
<1>6. ASSUME NEW c \in Cells, WriteCell(c)
      PROVE [Contract!Next]_Contract!vars
  <2>1. Board' = Board
    BY <1>6 DEF WriteCell, Board, WriterInv
  <2>. QED BY <1>6, <2>1, SameContent, Stutter DEF WriteCell, clientVars
<1>7. CASE EndPublish
  <2>1. Board' = Board
    BY <1>7, Parity DEF EndPublish, Board, WriterInv, Prefix
  <2>. QED BY <1>7, <2>1, SameContent, Stutter DEF EndPublish, clientVars
<1>8. CASE ServiceExit
  BY <1>8, SameBoard, SameContent, Stutter
     DEF ServiceExit, sectionVars, clientVars
<1>9. QED
  BY <1>1, <1>2, <1>3, <1>4, <1>5, <1>6, <1>7, <1>8 DEF ServiceNext

\* A step of the client approaches the board, takes what is on it, shows or
\* drops what it took, or does nothing to it.
LEMMA ClientStep ==
  ASSUME BridgeInv, ClientNext
  PROVE  [Contract!Next]_Contract!vars
<1> USE DEF BridgeInv, TypeOK
<1>1. Board' = Board
  BY SameBoard DEF ClientNext, Connect, BeginCollect, ReadBefore, CopyCell,
                   ReadAfter, Judge, ClientExit, serviceVars
<1>2. CASE Connect \/ BeginCollect
  <2>1. Shown' = Shown
    BY <1>2, SameShown DEF Connect, BeginCollect
  <2>2. UNCHANGED <<Reading, Held>>
    BY <1>2 DEF Connect, BeginCollect, Reading, Held
  <2>. QED BY <1>1, <2>1, <2>2, Stutter
<1>3. CASE ReadBefore
  <2>1. Shown' = Shown
    BY <1>3, SameShown DEF ReadBefore
  <2>2. CASE Odd(sequence)
    <3>1. UNCHANGED <<Reading, Held>>
      BY <1>3, <2>2 DEF ReadBefore, NextAttempt, CloseClient, Reading, Held
    <3>. QED BY <1>1, <2>1, <3>1, Stutter
  <2>3. CASE ~Odd(sequence)
    <3>1. /\ Reading = "no" /\ Reading' \in {"clean", "disturbed"}
          /\ UNCHANGED Held
          /\ Held = [kind |-> "nothing", of |-> Zero]
      BY <1>3, <2>3 DEF ReadBefore, Reading, Held
    <3>. QED BY <1>1, <2>1, <3>1
             DEF Contract!Next, Contract!Approach, Contract!Nothing,
                 Contract!Clear, Zero
  <2>. QED BY <2>2, <2>3
<1>4. ASSUME NEW c \in Cells, CopyCell(c)
      PROVE [Contract!Next]_Contract!vars
  <2>1. Shown' = Shown
    BY <1>4, SameShown DEF CopyCell
  <2>2. UNCHANGED <<Reading, Held>>
    BY <1>4 DEF CopyCell, Reading, Held
  <2>. QED BY <1>1, <2>1, <2>2, Stutter
<1>5. CASE ReadAfter
  <2>1. Shown' = Shown
    BY <1>5, SameShown DEF ReadAfter
  <2>2. CASE sequence = before
    <3>1. /\ Reading # "no" /\ Reading' = "no" /\ Reading = window
          /\ Held' = Content(copy, window)'
      BY <1>5, <2>2 DEF ReadAfter, Reading, Held
    <3>2. UNCHANGED <<copy, window>>
      BY <1>5, <2>2 DEF ReadAfter
    <3>3. Content(copy, window)' = Content(copy, window)
      BY <3>2 DEF Content, Whole, Covered
    <3>4. CASE window = "clean"
      <4>1. \A c \in Covered(copy) : copy[c] = cell[c]
        BY <1>5, <2>2, <3>4 DEF ReadAfter, ReaderInv, Covered
      <4>2. initialized /\ ~Odd(sequence) /\ Whole(cell)
        BY <1>5, <2>2, <3>4 DEF ReadAfter, ReaderInv, WriterInv
      <4>3. Whole(copy) /\ copy["qpc"] = cell["qpc"]
        BY <4>1, <4>2 DEF Whole, Covered, Prefix
      <4>4. Held' = [kind |-> "snapshot", of |-> Board]
        BY <3>1, <3>3, <3>4, <4>2, <4>3 DEF Content, Board
      <4>. QED BY <1>1, <2>1, <3>1, <3>4, <4>4
               DEF Contract!Next, Contract!Take, Contract!Taken
    <3>5. CASE window = "disturbed"
      <4>1. Held' = [kind |-> "garbage", of |-> Zero]
        BY <3>1, <3>3, <3>5 DEF Content
      <4>. QED BY <1>1, <2>1, <3>1, <3>5, <4>1
               DEF Contract!Next, Contract!Take, Contract!Garbage,
                   Contract!Clear, Zero
    <3>. QED BY <3>4, <3>5
  <2>3. CASE sequence # before
    <3>1. Reading # "no" /\ Reading' = "no" /\ UNCHANGED Held
      BY <1>5, <2>3
         DEF ReadAfter, NextAttempt, CloseClient, Reading, Held
    <3>. QED BY <1>1, <2>1, <3>1 DEF Contract!Next, Contract!Leave
  <2>. QED BY <2>2, <2>3
<1>6. CASE Judge
  <2>1. /\ UNCHANGED Reading /\ Held = Content(copy, window)
        /\ Held' = [kind |-> "nothing", of |-> Zero]
    BY <1>6 DEF Judge, CloseClient, Reading, Held
  <2>2. Held.kind \in {"snapshot", "garbage"}
    BY <2>1 DEF Content
  <2>3. Held # Contract!Nothing /\ Held' = Contract!Nothing
    BY <2>1, <2>2 DEF Contract!Nothing, Contract!Clear, Zero
  <2>4. CASE UNCHANGED taken
    <3>1. Shown' = Shown
      BY <2>4, SameShown
    <3>. QED BY <1>1, <2>1, <2>3, <3>1 DEF Contract!Next, Contract!Drop
  <2>5. CASE taken' # taken
    <3>1. taken' = [copy |-> Appended(copy), at |-> now, window |-> window]
      BY <1>6, <2>5 DEF Judge
    <3>2. Shown' = Content(Appended(copy), window)
      BY <3>1 DEF Shown, Content, Whole, Covered
    <3>3. Content(Appended(copy), window) = Content(copy, window)
      BY <1>6, AppendedType DEF Judge, ReaderInv, Content
    <3>. QED BY <1>1, <2>1, <2>3, <3>2, <3>3 DEF Contract!Next, Contract!Show
  <2>. QED BY <2>4, <2>5
<1>7. CASE ClientExit
  <2>1. Shown' = Shown
    BY <1>7, SameShown DEF ClientExit
  <2>2. Reading' = "no" /\ Held' = [kind |-> "nothing", of |-> Zero]
    BY <1>7 DEF ClientExit, CloseClient, Reading, Held
  <2>3. CASE client = "copying"
    BY <1>1, <2>1, <2>2, <2>3
       DEF Reading, Held, Contract!Next, Contract!Leave
  <2>4. CASE client = "judging"
    <3>1. Held # Contract!Nothing /\ Held' = Contract!Nothing
      BY <2>2, <2>4 DEF Held, Content, Contract!Nothing, Contract!Clear, Zero
    <3>. QED BY <1>1, <2>1, <2>2, <2>4, <3>1
             DEF Reading, Contract!Next, Contract!Drop
  <2>5. CASE client \notin {"copying", "judging"}
    <3>1. UNCHANGED <<Reading, Held>>
      BY <2>2, <2>5 DEF Reading, Held
    <3>. QED BY <1>1, <2>1, <3>1, Stutter
  <2>. QED BY <2>3, <2>4, <2>5
<1>8. QED BY <1>2, <1>3, <1>4, <1>5, <1>6, <1>7 DEF ClientNext

\* The lock-free protocol implements the board: what the desktop shows is
\* what an atomic read of the latest publication would have returned.
THEOREM BridgeImplementsBoard == Spec => ImplementsBoard
<1>1. Init => Contract!Init
  BY BlankWhole, BlankType
     DEF Init, Contract!Init, Contract!Clear, Contract!Nothing, Contract!Taken,
         Board, Reading, Held, Shown, Content, Nothing, Blank, Zero, Cells,
         Prefix
<1>2. Init => IdInv
  BY DEF Init, IdInv, Blank, Zero
<1>3. BridgeInv /\ IdInv /\ [Next]_vars => IdInv'
  BY IdInductive DEF BridgeInv
<1>4. BridgeInv /\ IdInv /\ [Next]_vars => [Contract!Next]_Contract!vars
  <2> SUFFICES ASSUME BridgeInv, IdInv, [Next]_vars
               PROVE  [Contract!Next]_Contract!vars
    OBVIOUS
  <2>1. CASE Tick \/ UNCHANGED vars
    BY <2>1, SameBoard, SameContent, Stutter
       DEF Tick, vars, serviceVars, clientVars
  <2>. QED BY <2>1, ServiceStep, ClientStep DEF Next
<1>5. QED
  BY <1>1, <1>2, <1>3, <1>4, BridgeInvariant, PTL DEF Spec, ImplementsBoard

-----------------------------------------------------------------------------
(* The control channel. *)

\* Where a request can be, by the states of the pipe's two ends.
ShapeInv ==
  /\ handle = "none" => queue = <<>>
  /\ pipe = "broken" => handle = "none"
  /\ pipe \in {"listening", "broken", "disconnected"} => queue = <<>>

\* How far the desktop's request is from being read: it is in the pipe, the
\* pipe is open for it, the service has yet to open the pipe, or to close its
\* end of the previous instance before, the desktop has yet to listen again while
\* that end is open, or anything else.
Place ==
  IF pipe = "connected" /\ queue = <<wanted>> THEN "written"
  ELSE IF pipe = "connected" /\ queue = <<>> THEN "open"
  ELSE IF pipe = "listening" THEN IF handle = "none" THEN "listening" ELSE "closing"
  ELSE IF pipe = "disconnected" /\ handle = "orphan" THEN "refused"
  ELSE "far"

\* The ticks within which it is read from there, when the desktop's next poll is
\* due in d ticks, the service's in s, and the desktop polls every p ticks.
WaitAt(place, d, s, p) ==
  CASE place = "written"   -> s
    [] place = "open"      -> d + 1
    [] place = "listening" -> s + p + 1
    [] place = "closing"   -> s + p + 2
    [] place = "refused"   -> (IF d < s THEN s ELSE d) + p + 2
    [] place = "far"       -> d + p + 2

DesktopDue == Period(wanted) - sincePoll
ServiceDue == IF polled THEN 1 ELSE 0
Wait == WaitAt(Place, DesktopDue, ServiceDue, Period(wanted))

\* There is time left for the request to arrive, or it is in effect and will be
\* renewed before it expires.
Arriving == steady + Wait < Reach
LastAsked == Len(queue) = 1 => queue = <<wanted>>
Kept ==
  /\ requested = wanted /\ age + Wait <= Limit(wanted) + 1
  /\ LastAsked

SteadyInv ==
  /\ sincePoll <= Period(wanted)
  /\ desktop = "polling" => Arriving \/ Kept

\* What a desktop that is silent left behind is read within a tick, and from
\* then on the request grows old.
SilentInv ==
  desktop # "polling" =>
    /\ (silence >= 1 /\ polled) \/ silence >= 2 => queue = <<>>
    /\ queue = <<>> => requested = Default \/ age >= silence - 1
    /\ SilentDesktopExpires

ControlIInv == ControlTypeOK /\ ShapeInv /\ SilentInv


\* One request appended to what the pipe holds.
LEMMA AppendedRequest ==
  ASSUME NEW q \in Seq(Requests), NEW r \in Requests, Len(q) < 2
  PROVE  /\ Append(q, r) \in Seq(Requests) /\ Len(Append(q, r)) = Len(q) + 1
         /\ q = <<>> => Append(q, r) = <<r>>
<1>1. Append(q, r) \in Seq(Requests) /\ Len(Append(q, r)) = Len(q) + 1
  OBVIOUS
<1>2. Append(<<>>, r) = <<r>>
  OBVIOUS
<1> QED BY <1>1, <1>2

LEMMA HeadRequest ==
  ASSUME NEW q \in Seq(Requests), Len(q) = 1
  PROVE  Head(q) \in Requests /\ q = <<Head(q)>>
  OBVIOUS

LEMMA RequestTypes ==
  /\ Default \in Requests
  /\ \A r \in Requests : /\ [r EXCEPT !.target = "none"] \in Requests
                         /\ Period(r) \in 1 .. SlowPeriod
                         /\ Limit(r) \in Nat /\ Limit(r) <= SlowLimit
                         /\ Limit(r) >= 2 * Period(r) + 1
<1>1. Default \in Requests
  BY DEF Default, Requests
<1>2. ASSUME NEW r \in Requests
      PROVE  /\ [r EXCEPT !.target = "none"] \in Requests
             /\ Period(r) \in 1 .. SlowPeriod
             /\ Limit(r) \in Nat /\ Limit(r) <= SlowLimit
             /\ Limit(r) >= 2 * Period(r) + 1
  BY ControlAssumption, TimingAssumption DEF Requests, Period, Limit
<1> QED BY <1>1, <1>2

\* What a call of SetFpsTarget, failed or not, does to the pipe.
LEMMA SetKeepsShape ==
  ASSUME ControlTypeOK, ShapeInv, NEW r \in Requests,
         SetFpsTarget(r) \/ SetFpsTargetFails
  PROVE  /\ pipe' \in {"none", "listening", "connected", "broken", "disconnected"}
         /\ queue' \in Seq(Requests) /\ Len(queue') <= 2
         /\ handle' \in {"none", "open", "orphan"}
         /\ (handle' = "open") = (pipe' = "connected")
         /\ ShapeInv'
<1> USE DEF ControlTypeOK, ShapeInv
<1>1. CASE pipe = "connected" /\ Write(r)
  <2>1. CASE queue' = Append(queue, r) /\ Len(queue) < 2 /\ UNCHANGED <<pipe, handle>>
    BY <1>1, <2>1, AppendedRequest
  <2>2. CASE queue' = <<>> /\ pipe' = "disconnected" /\ handle' = Orphan
    BY <1>1, <2>2 DEF Orphan
  <2> QED BY <1>1, <2>1, <2>2 DEF Write
<1>2. CASE pipe \in {"broken", "disconnected"} /\ Listen
  BY <1>2, ControlAssumption DEF Listen
<1>3. CASE pipe \in {"none", "listening"} /\ UNCHANGED <<queue, handle>>
           /\ pipe' \in {pipe, "listening"} /\ (pipe' # pipe => handle # "orphan")
  BY <1>3
<1> QED BY <1>1, <1>2, <1>3 DEF SetFpsTarget, SetFpsTargetFails

LEMMA ControlInitIInv == ControlInit => ControlIInv
<1> SUFFICES ASSUME ControlInit PROVE ControlIInv
  OBVIOUS
<1>1. ControlTypeOK
  <2>1. polled \in BOOLEAN
    BY Zenon DEF ControlInit
  <2>2. queue \in Seq(Requests) /\ Len(queue) <= 2 /\ requested \in Requests
    BY RequestTypes DEF ControlInit
  <2> QED BY <2>1, <2>2, ControlAssumption DEF ControlInit, ControlTypeOK
<1>2. ShapeInv /\ SilentInv
  BY DEF ControlInit, ShapeInv, SilentInv
<1> QED BY <1>1, <1>2 DEF ControlIInv


\* What the service's turn does to the pipe and to the request.
LEMMA PollKeepsShape ==
  ASSUME ControlIInv, PollFpsControl
  PROVE  ControlTypeOK' /\ ShapeInv' /\ queue' = <<>> /\ polled'
<1> USE ControlAssumption, RequestTypes
    DEF ControlIInv, ControlTypeOK, ShapeInv, Expire, Accept, CloseEnd
<1>1. queue' = <<>> /\ polled' /\ polled' \in BOOLEAN
  <2>1. Len(queue) = 0 => queue = <<>>
    OBVIOUS
  <2> QED BY <2>1 DEF PollFpsControl
<1>2. /\ pipe' \in {"none", "listening", "connected", "broken", "disconnected"}
      /\ handle' \in {"none", "open", "orphan"}
      /\ (handle' = "open") = (pipe' = "connected")
      /\ pipe' = "broken" => handle' = "none"
  BY DEF PollFpsControl
<1>3. requested' \in Requests /\ age' \in 0 .. SlowLimit + 1
  <2>1. Len(queue) = 1 => Head(queue) \in Requests
    BY HeadRequest
  <2> QED BY <2>1 DEF PollFpsControl
<1>4. UNCHANGED <<desktop, wanted, sincePoll, steady, silence>>
  BY DEF PollFpsControl
<1>5. queue' \in Seq(Requests) /\ Len(queue') <= 2
  BY <1>1
<1> QED BY <1>1, <1>2, <1>3, <1>4, <1>5

LEMMA ControlNextIInv ==
  ControlIInv /\ [ControlNext]_controlVars => ControlIInv'
<1> SUFFICES ASSUME ControlIInv, [ControlNext]_controlVars PROVE ControlIInv'
  OBVIOUS
<1> USE ControlAssumption DEF ControlIInv
<1> wanted \in Requests /\ requested \in Requests
  BY DEF ControlTypeOK
<1>1. CASE DesktopPoll
  <2>1. PICK r \in Requests : /\ wanted' = r
                              /\ SetFpsTarget(r) \/ SetFpsTargetFails
    BY <1>1 DEF DesktopPoll
  <2>2. steady' \in {0, steady}
    BY <1>1 DEF DesktopPoll
  <2>3. ControlTypeOK' /\ ShapeInv'
    BY <1>1, <2>1, <2>2, SetKeepsShape DEF DesktopPoll, ControlTypeOK
  <2>4. SilentInv'
    BY <1>1 DEF DesktopPoll, SilentInv
  <2> QED BY <2>3, <2>4
<1>2. CASE CloseControl
  <2>1. ControlTypeOK' /\ ShapeInv'
    BY <1>2 DEF CloseControl, Orphan, ControlTypeOK, ShapeInv
  <2>2. SilentInv'
    BY <1>2 DEF CloseControl, SilentInv
  <2> QED BY <2>1, <2>2
<1>3. CASE Pause
  <2>1. /\ [wanted EXCEPT !.target = "none"] \in Requests
        /\ SetFpsTarget([wanted EXCEPT !.target = "none"]) \/ SetFpsTargetFails
    BY <1>3, RequestTypes DEF Pause
  <2>2. ControlTypeOK' /\ ShapeInv'
    BY <1>3, <2>1, SetKeepsShape DEF Pause, ControlTypeOK
  <2>3. SilentInv'
    BY <1>3 DEF Pause, SilentInv, SilentDesktopExpires, ControlTypeOK
  <2> QED BY <2>2, <2>3
<1>4. CASE Unpause
  <2>1. ControlTypeOK' /\ ShapeInv'
    BY <1>4 DEF Unpause, ControlTypeOK, ShapeInv
  <2>2. SilentInv'
    BY <1>4 DEF Unpause, SilentInv
  <2> QED BY <2>1, <2>2
<1>5. CASE DesktopExit
  <2>1. ControlTypeOK' /\ ShapeInv'
    BY <1>5 DEF DesktopExit, Orphan, ControlTypeOK, ShapeInv
  <2>2. SilentInv'
    BY <1>5 DEF DesktopExit, SilentInv, SilentDesktopExpires, ControlTypeOK
  <2> QED BY <2>1, <2>2
<1>6. CASE DesktopStart
  <2>1. ControlTypeOK' /\ ShapeInv'
    BY <1>6 DEF DesktopStart, ControlTypeOK, ShapeInv
  <2>2. SilentInv'
    BY <1>6 DEF DesktopStart, SilentInv
  <2> QED BY <2>1, <2>2
<1>7. CASE PollFpsControl
  <2>1. ControlTypeOK' /\ ShapeInv' /\ queue' = <<>>
    BY <1>7, PollKeepsShape
  <2>2. ASSUME desktop # "polling"
        PROVE  /\ requested' = Default \/ age' >= silence - 1
               /\ silence > SlowLimit + 1 => requested' = Default
    <3>1. CASE queue = <<>>
      <4>1. Expire
        BY <1>7, <3>1 DEF PollFpsControl
      <4>2. Limit(requested) \in Nat /\ Limit(requested) <= SlowLimit
        BY RequestTypes
      <4> QED BY <2>2, <3>1, <4>1, <4>2 DEF Expire, SilentInv, ControlTypeOK
    <3>2. CASE queue # <<>>
      <4>1. silence <= 1
        BY <2>2, <3>2 DEF SilentInv, ControlTypeOK
      <4>2. age' \in Nat
        BY <2>1 DEF ControlTypeOK
      <4> QED BY <4>1, <4>2 DEF ControlTypeOK
    <3> QED BY <3>1, <3>2
  <2>3. UNCHANGED <<desktop, silence>>
    BY <1>7 DEF PollFpsControl
  <2>4. SilentInv'
    BY <2>1, <2>2, <2>3 DEF SilentInv, SilentDesktopExpires
  <2> QED BY <2>1, <2>4
<1>8. CASE ServiceRestart
  <2>1. ControlTypeOK' /\ ShapeInv'
    BY <1>8, RequestTypes DEF ServiceRestart, CloseEnd, ControlTypeOK, ShapeInv
  <2>2. SilentInv'
    BY <1>8 DEF ServiceRestart, SilentInv, SilentDesktopExpires
  <2> QED BY <2>1, <2>2
<1>9. CASE ControlTick
  <2>1. ControlTypeOK' /\ ShapeInv'
    <3>1. polled' \in BOOLEAN
      BY <1>9, Zenon DEF ControlTick
    <3>2. age' \in 0 .. SlowLimit + 1
      BY <1>9 DEF ControlTick, Capped, ControlTypeOK
    <3>3. silence' \in 0 .. SlowLimit + 2 /\ steady' \in 0 .. Reach
      BY <1>9 DEF ControlTick, Capped, ControlTypeOK
    <3>4. sincePoll' \in 0 .. SlowPeriod
      <4>1. Period(wanted) \in 1 .. SlowPeriod
        BY RequestTypes
      <4>2. CASE desktop = "polling"
        BY <1>9, <4>1, <4>2 DEF ControlTick, ControlTypeOK
      <4>3. CASE desktop # "polling"
        BY <1>9, <4>3 DEF ControlTick, ControlTypeOK
      <4> QED BY <4>2, <4>3
    <3> QED BY <1>9, <3>1, <3>2, <3>3, <3>4 DEF ControlTick, ControlTypeOK, ShapeInv
  <2>2. SilentInv'
    BY <1>9 DEF ControlTick, Capped, SilentInv, SilentDesktopExpires, ControlTypeOK
  <2> QED BY <2>1, <2>2
<1>10. CASE UNCHANGED controlVars
  BY <1>10 DEF controlVars, ControlTypeOK, ShapeInv, SilentInv, SilentDesktopExpires
<1>11. CASE ValidationFails
  <2>1. ControlTypeOK' /\ ShapeInv'
    BY <1>11, RequestTypes DEF ValidationFails, Expire, ControlTypeOK, ShapeInv
  <2>2. Limit(requested) \in Nat /\ Limit(requested) <= SlowLimit
    BY RequestTypes
  <2>3. SilentInv'
    BY <1>11, <2>2 DEF ValidationFails, Expire, ControlTypeOK, ShapeInv, SilentInv,
       SilentDesktopExpires
  <2> QED BY <2>1, <2>3
<1> QED BY <1>1, <1>2, <1>3, <1>4, <1>5, <1>6, <1>7, <1>8, <1>9, <1>10, <1>11 DEF ControlNext

LEMMA ControlInvariance == ControlSpec => []ControlIInv
  BY ControlInitIInv, ControlNextIInv, PTL DEF ControlSpec


Places == {"written", "open", "listening", "closing", "refused", "far"}

\* What a poll of the desktop (the next is due in p ticks), a poll of the service
\* (the next is due in one) and a tick make of the wait.
LEMMA WaitSteps ==
  ASSUME NEW p \in Nat, p >= 1, NEW d \in 0 .. p, NEW s \in {0, 1}
  PROVE  /\ \A x \in Places : WaitAt(x, d, s, p) \in 0 .. 2 * p + 2
         /\ \A x \in {"listening", "closing"} : WaitAt(x, p, s, p) <= WaitAt(x, d, s, p)
         /\ WaitAt("written", p, s, p) <= WaitAt("open", d, s, p)
         /\ WaitAt("listening", p, s, p) <= WaitAt("far", d, s, p)
         /\ WaitAt("closing", p, s, p) <= WaitAt("refused", d, s, p)
         /\ \A x \in {"open", "far"} : WaitAt(x, d, 1, p) <= WaitAt(x, d, s, p)
         /\ WaitAt("open", d, 1, p) <= WaitAt("listening", d, s, p)
         /\ WaitAt("listening", d, 1, p) <= WaitAt("closing", d, s, p)
         /\ WaitAt("far", d, 1, p) <= WaitAt("refused", d, s, p)
         /\ \A x \in Places \ {"written"} : WaitAt(x, d, s, p) >= 1
         /\ d >= 1 => \A x \in Places : WaitAt(x, d - 1, 0, p) = WaitAt(x, d, 1, p) - 1
<1>1. /\ WaitAt("written", d, s, p) = s
      /\ WaitAt("open", d, s, p) = d + 1
      /\ WaitAt("listening", d, s, p) = s + p + 1
      /\ WaitAt("closing", d, s, p) = s + p + 2
      /\ WaitAt("refused", d, s, p) = (IF d < s THEN s ELSE d) + p + 2
      /\ WaitAt("far", d, s, p) = d + p + 2
  BY DEF WaitAt
<1>2. \A x \in {"listening", "closing"} : WaitAt(x, p, s, p) <= WaitAt(x, d, s, p)
  BY DEF WaitAt
<1>3. /\ WaitAt("written", p, s, p) <= WaitAt("open", d, s, p)
      /\ WaitAt("listening", p, s, p) <= WaitAt("far", d, s, p)
      /\ WaitAt("closing", p, s, p) <= WaitAt("refused", d, s, p)
  BY DEF WaitAt
<1>4. /\ \A x \in {"open", "far"} : WaitAt(x, d, 1, p) <= WaitAt(x, d, s, p)
      /\ WaitAt("open", d, 1, p) <= WaitAt("listening", d, s, p)
      /\ WaitAt("listening", d, 1, p) <= WaitAt("closing", d, s, p)
      /\ WaitAt("far", d, 1, p) <= WaitAt("refused", d, s, p)
  BY DEF WaitAt
<1>5. /\ \A x \in Places : WaitAt(x, d, s, p) \in 0 .. 2 * p + 2
      /\ \A x \in Places \ {"written"} : WaitAt(x, d, s, p) >= 1
  BY <1>1 DEF Places
<1>6. ASSUME d >= 1, NEW x \in Places
      PROVE  WaitAt(x, d - 1, 0, p) = WaitAt(x, d, 1, p) - 1
  BY <1>6 DEF WaitAt, Places
<1> QED BY <1>2, <1>3, <1>4, <1>5, <1>6

\* Less to wait for leaves no less time.
LEMMA TimeLeft ==
  ASSUME NEW s \in Nat, NEW v \in Nat, NEW w \in Nat, NEW r \in Nat, v <= w
  PROVE  /\ s + w < r => s + v < r
         /\ s + w <= r + 1 => s + v <= r + 1
  OBVIOUS

\* A tick passes.
LEMMA TimePasses ==
  ASSUME NEW s \in Nat, NEW w \in Nat, NEW r \in Nat, NEW b \in Nat, w >= 1
  PROVE  /\ s + w < r => Capped(s, r) + (w - 1) < r
         /\ s + w <= r + 1 /\ r <= b => Capped(s, b + 1) + (w - 1) <= r + 1
  BY DEF Capped


\* What the arithmetic needs of the state.
WaitIsBounded ==
  /\ Wait \in Nat /\ Reach \in Nat /\ SlowLimit \in Nat /\ age \in Nat /\ steady \in Nat
  /\ wanted \in Requests /\ requested \in Requests
  /\ Period(wanted) \in Nat /\ Period(wanted) >= 1
  /\ Limit(wanted) \in Nat /\ Limit(wanted) <= SlowLimit
  /\ DesktopDue \in 0 .. Period(wanted) /\ ServiceDue \in {0, 1} /\ Place \in Places
  /\ Wait <= Limit(wanted) + 1
  /\ steady = 0 => Arriving

LEMMA WaitBounds == ControlTypeOK /\ sincePoll <= Period(wanted) => WaitIsBounded
<1> SUFFICES ASSUME ControlTypeOK, sincePoll <= Period(wanted) PROVE WaitIsBounded
  OBVIOUS
<1>1. wanted \in Requests /\ requested \in Requests
  BY DEF ControlTypeOK
<1>2. /\ Period(wanted) \in 1 .. SlowPeriod
      /\ Limit(wanted) \in Nat /\ Limit(wanted) <= SlowLimit
      /\ Limit(wanted) >= 2 * Period(wanted) + 1
  BY <1>1, RequestTypes
<1>3. DesktopDue \in 0 .. Period(wanted)
  BY <1>2, ControlAssumption DEF DesktopDue, ControlTypeOK
<1>4. ServiceDue \in {0, 1}
  BY DEF ServiceDue
<1>5. Place \in Places
  BY DEF Place, Places
<1>6. Period(wanted) \in Nat /\ Period(wanted) >= 1
  BY <1>2
<1>7. Wait \in 0 .. 2 * Period(wanted) + 2
  BY <1>3, <1>4, <1>5, <1>6, WaitSteps, Zenon DEF Wait
<1>8. Wait \in Nat /\ Wait <= Limit(wanted) + 1
  BY <1>2, <1>7
<1>9. steady = 0 => Arriving
  <2>1. Period(wanted) <= SlowPeriod /\ 2 * SlowPeriod + 3 <= Reach
    BY <1>2, ControlAssumption, TimingAssumption
  <2>2. Wait < Reach
    BY <1>2, <1>7, <2>1, ControlAssumption
  <2> QED BY <1>8, <2>2 DEF Arriving
<1>10. Reach \in Nat /\ SlowLimit \in Nat /\ age \in Nat /\ steady \in Nat
  BY ControlAssumption DEF ControlTypeOK
<1> QED BY <1>1, <1>2, <1>3, <1>4, <1>5, <1>6, <1>8, <1>9, <1>10 DEF WaitIsBounded

\* WaitSteps for the desktop's and the service's next polls.
LEMMA WaitStepsHere ==
  ASSUME WaitIsBounded, NEW p, p = Period(wanted), NEW d, d = DesktopDue,
         NEW s, s = ServiceDue
  PROVE  /\ p \in Nat /\ p >= 1 /\ d \in 0 .. p /\ s \in {0, 1}
         /\ \A x \in {"listening", "closing"} : WaitAt(x, p, s, p) <= WaitAt(x, d, s, p)
         /\ WaitAt("written", p, s, p) <= WaitAt("open", d, s, p)
         /\ WaitAt("listening", p, s, p) <= WaitAt("far", d, s, p)
         /\ WaitAt("closing", p, s, p) <= WaitAt("refused", d, s, p)
         /\ \A x \in {"open", "far"} : WaitAt(x, d, 1, p) <= WaitAt(x, d, s, p)
         /\ WaitAt("open", d, 1, p) <= WaitAt("listening", d, s, p)
         /\ WaitAt("listening", d, 1, p) <= WaitAt("closing", d, s, p)
         /\ WaitAt("far", d, 1, p) <= WaitAt("refused", d, s, p)
         /\ \A x \in Places \ {"written"} : WaitAt(x, d, s, p) >= 1
         /\ d >= 1 => \A x \in Places : WaitAt(x, d - 1, 0, p) = WaitAt(x, d, 1, p) - 1
<1>1. p \in Nat /\ p >= 1 /\ d \in 0 .. p /\ s \in {0, 1}
  BY Zenon DEF WaitIsBounded
<1> QED BY <1>1, WaitSteps, Zenon

LEMMA WaitBoundsNext ==
  (ControlTypeOK /\ sincePoll <= Period(wanted) => WaitIsBounded)'
  BY WaitBounds, PTL

\* A step that disturbs nothing and takes nothing from the time that is left.
LEMMA NoLater ==
  ASSUME ControlTypeOK, WaitIsBounded, WaitIsBounded', Arriving \/ Kept,
         wanted' = wanted, steady' = steady, requested' = requested, age' = age,
         Wait' <= Wait, Kept => LastAsked'
  PROVE  (Arriving \/ Kept)'
<1>1. Wait \in Nat /\ Wait' \in Nat /\ Limit(wanted) \in Nat /\ Reach \in Nat
  BY DEF WaitIsBounded
<1>2. age \in Nat /\ steady \in Nat
  BY DEF WaitIsBounded
<1>3. CASE Arriving
  BY <1>1, <1>2, <1>3, TimeLeft DEF Arriving
<1>4. CASE Kept
  BY <1>1, <1>2, <1>4, TimeLeft DEF Kept
<1> QED BY <1>3, <1>4

\* A poll starts a new period.
LEMMA FreshPoll ==
  ASSUME NEW r \in Requests, NEW n, n = 0
  PROVE  n <= Period(r)
<1>1. Period(r) \in 1 .. SlowPeriod
  BY RequestTypes
<1> QED BY <1>1, ControlAssumption

LEMMA SteadyDesktopPoll ==
  ASSUME FirstListen = "listening", ControlIInv, ControlTypeOK', SteadyInv, DesktopPoll
  PROVE  SteadyInv'
<1>1. /\ desktop = "polling" /\ desktop' = "polling" /\ sincePoll' = 0
      /\ requested' = requested /\ age' = age /\ polled' = polled
  BY DEF DesktopPoll
<1>2. sincePoll' <= Period(wanted')
  <2>1. wanted' \in Requests
    BY DEF DesktopPoll
  <2> QED BY <1>1, <2>1, FreshPoll
<1>3. WaitIsBounded /\ WaitIsBounded'
  BY <1>2, WaitBounds, WaitBoundsNext DEF SteadyInv, ControlIInv
<1>4. CASE steady' = 0
  BY <1>2, <1>3, <1>4 DEF SteadyInv, WaitIsBounded
<1>5. CASE steady' # 0
  <2>1. /\ wanted' = wanted /\ SetFpsTarget(wanted) /\ steady' = steady
        /\ ~(pipe = "connected" /\ queue # <<>>)
    BY <1>5 DEF DesktopPoll
  <2>2. \/ Place \in {"listening", "closing"} /\ Place' = Place
        \/ Place = "open" /\ Place' = "written"
        \/ Place = "far" /\ Place' = "listening"
        \/ Place = "refused" /\ Place' = "closing"
    <3>1. CASE pipe = "connected"
      <4>1. queue = <<>> /\ queue' = Append(queue, wanted) /\ pipe' = "connected"
        BY <2>1, <3>1 DEF SetFpsTarget, Write
      <4>2. queue' = <<wanted>>
        BY <1>3, <4>1, AppendedRequest DEF WaitIsBounded
      <4> QED BY <2>1, <3>1, <4>1, <4>2 DEF Place
    <3>2. CASE pipe # "connected"
      BY <2>1, <3>2 DEF SetFpsTarget, Listen, Place, ControlIInv, ShapeInv, ControlTypeOK
    <3> QED BY <3>1, <3>2
  <2>3. Wait' = WaitAt(Place', Period(wanted), ServiceDue, Period(wanted))
    <3>1. DesktopDue' = Period(wanted) /\ ServiceDue' = ServiceDue
      BY <1>1, <1>3, <2>1 DEF DesktopDue, ServiceDue, WaitIsBounded
    <3> QED BY <2>1, <3>1 DEF Wait
  <2>4. Wait' <= Wait
    BY <1>3, <2>2, <2>3, WaitStepsHere, Zenon DEF Wait
  <2>5. Kept => LastAsked'
    <3>1. CASE pipe = "connected"
      BY <1>3, <2>1, <3>1, AppendedRequest DEF SetFpsTarget, Write, LastAsked, WaitIsBounded
    <3>2. CASE pipe # "connected"
      BY <2>1, <3>2 DEF SetFpsTarget, Listen, Kept, LastAsked
    <3> QED BY <3>1, <3>2
  <2>6. (Arriving \/ Kept)'
    BY <1>1, <1>3, <2>1, <2>4, <2>5, NoLater DEF SteadyInv, ControlIInv
  <2> QED BY <1>2, <2>6 DEF SteadyInv
<1> QED BY <1>4, <1>5

\* A request that will be read again is not too old yet.
LEMMA StillInTime ==
  ASSUME NEW a \in Nat, NEW w \in Nat, NEW r \in Nat, a + w <= r + 1, w >= 1
  PROVE  ~(a > r)
  OBVIOUS

LEMMA SteadyPollFpsControl ==
  ASSUME ControlIInv, ControlTypeOK', SteadyInv, PollFpsControl
  PROVE  SteadyInv'
<1>1. /\ desktop' = desktop /\ wanted' = wanted /\ sincePoll' = sincePoll
      /\ steady' = steady /\ queue' = <<>> /\ polled'
  BY PollKeepsShape DEF PollFpsControl
<1>2. WaitIsBounded /\ WaitIsBounded'
  BY <1>1, WaitBounds, WaitBoundsNext DEF SteadyInv, ControlIInv
<1>3. SUFFICES ASSUME desktop = "polling" PROVE (Arriving \/ Kept)'
  BY <1>1 DEF SteadyInv
<1>4. Wait' = WaitAt(Place', DesktopDue, 1, Period(wanted))
  BY <1>1 DEF Wait, DesktopDue, ServiceDue
<1>5. LastAsked'
  BY <1>1 DEF LastAsked
<1>6. CASE queue = <<wanted>> /\ handle # "none"
  <2>1. requested' = wanted' /\ age' = 0
    BY <1>1, <1>6 DEF PollFpsControl, Accept
  <2>2. Wait' \in Nat /\ Wait' <= Limit(wanted) + 1 /\ Limit(wanted) \in Nat
    BY <1>1, <1>2 DEF WaitIsBounded
  <2> QED BY <1>1, <1>5, <2>1, <2>2 DEF Kept
<1>7. CASE ~(queue = <<wanted>> /\ handle # "none")
  <2>1. Place # "written"
    BY <1>7 DEF Place, ControlIInv, ControlTypeOK
  <2>2. \/ Place \in {"open", "far"} /\ Place' = Place
        \/ Place = "listening" /\ Place' = "open"
        \/ Place = "closing" /\ Place' = "listening"
        \/ Place = "refused" /\ Place' = "far"
    <3>1. CASE pipe = "connected" /\ queue # <<>>
      <4>1. Place = "far" /\ Place' = "far"
        BY <1>1, <1>7, <3>1 DEF PollFpsControl, CloseEnd, Place, ControlIInv, ControlTypeOK
      <4> QED BY <4>1
    <3>2. CASE ~(pipe = "connected" /\ queue # <<>>)
      BY <1>1, <1>7, <3>2 DEF PollFpsControl, CloseEnd, Place, ControlIInv, ControlTypeOK,
         ShapeInv
    <3> QED BY <3>1, <3>2
  <2>3. Wait' <= Wait /\ Wait >= 1
    <3>1. Wait' <= Wait
      BY <1>2, <1>4, <2>2, WaitStepsHere, Zenon DEF Wait
    <3>2. Place \in Places \ {"written"}
      BY <1>2, <2>1, Zenon DEF WaitIsBounded
    <3> QED BY <1>2, <3>1, <3>2, WaitStepsHere, Zenon DEF Wait
  <2>4. CASE Arriving
    BY <1>1, <1>2, <2>3, <2>4, TimeLeft, ControlAssumption
       DEF Arriving, WaitIsBounded, ControlIInv, ControlTypeOK
  <2>5. CASE Kept
    <3>1. Len(queue) # 1 \/ handle = "none"
      BY <1>7, <2>5 DEF Kept, LastAsked
    <3>2. Expire
      BY <3>1 DEF PollFpsControl
    <3>3. ~(age > Limit(requested))
      <4>1. age \in Nat /\ Wait \in Nat /\ Limit(wanted) \in Nat
        BY <1>2 DEF WaitIsBounded
      <4>2. age + Wait <= Limit(wanted) + 1 /\ requested = wanted
        BY <2>5 DEF Kept
      <4> QED BY <2>3, <4>1, <4>2, StillInTime
    <3>4. requested' = requested /\ age' = age
      BY <3>2, <3>3, Zenon DEF Expire
    <3> QED BY <1>1, <1>2, <1>5, <2>3, <2>5, <3>4, NoLater DEF ControlIInv
  <2> QED BY <1>3, <2>4, <2>5 DEF SteadyInv
<1> QED BY <1>6, <1>7

LEMMA NextPoll ==
  ASSUME NEW n \in Nat, NEW p \in Nat, n < p
  PROVE  n + 1 <= p /\ p - (n + 1) = (p - n) - 1 /\ p - n >= 1
  OBVIOUS

LEMMA SteadyTick ==
  ASSUME ControlIInv, ControlTypeOK', SteadyInv, ControlTick
  PROVE  SteadyInv'
<1>1. /\ desktop' = desktop /\ wanted' = wanted /\ pipe' = pipe /\ queue' = queue
      /\ handle' = handle /\ requested' = requested
      /\ polled /\ ~polled' /\ age' = Capped(age, SlowLimit + 1)
  BY DEF ControlTick
<1>2. CASE desktop # "polling"
  BY <1>1, <1>2 DEF ControlTick, SteadyInv
<1>3. CASE desktop = "polling"
  <2>1. /\ sincePoll < Period(wanted) /\ sincePoll' = sincePoll + 1
        /\ steady' = Capped(steady, Reach)
    BY <1>3 DEF ControlTick
  <2>2. WaitIsBounded
    BY WaitBounds DEF SteadyInv, ControlIInv
  <2>3. sincePoll \in Nat /\ Period(wanted) \in Nat
    BY <2>2, ControlAssumption DEF WaitIsBounded, ControlIInv, ControlTypeOK
  <2>4. sincePoll' <= Period(wanted')
    BY <1>1, <2>1, <2>3, NextPoll
  <2>5. Place' = Place /\ ServiceDue = 1 /\ ServiceDue' = 0
    BY <1>1, Zenon DEF Place, ServiceDue
  <2>6. DesktopDue' = DesktopDue - 1 /\ DesktopDue >= 1
    BY <1>1, <2>1, <2>3, NextPoll DEF DesktopDue
  <2>7. Wait' = Wait - 1 /\ Wait >= 1
    <3>1. Wait' = WaitAt(Place, DesktopDue - 1, 0, Period(wanted))
          /\ Wait = WaitAt(Place, DesktopDue, 1, Period(wanted))
      BY <1>1, <2>5, <2>6, Zenon DEF Wait
    <3>2. Wait' = Wait - 1
      BY <2>2, <2>5, <2>6, <3>1, WaitStepsHere, Zenon DEF WaitIsBounded
    <3>3. Wait >= 1
      <4>1. CASE Place = "written"
        BY <3>1, <4>1 DEF WaitAt
      <4>2. CASE Place \in Places \ {"written"}
        BY <2>2, <2>5, <3>1, <4>2, WaitStepsHere, Zenon
      <4> QED BY <2>2, <4>1, <4>2, Zenon DEF WaitIsBounded
    <3> QED BY <3>2, <3>3
  <2>8. ASSUME Arriving PROVE Arriving'
    BY <2>1, <2>2, <2>7, <2>8, TimePasses, Zenon DEF Arriving, WaitIsBounded
  <2>9. ASSUME Kept PROVE Kept'
    <3>1. Capped(age, SlowLimit + 1) + (Wait - 1) <= Limit(wanted) + 1
      BY <2>2, <2>7, <2>9, TimePasses, Zenon DEF Kept, WaitIsBounded
    <3>2. Limit(wanted)' = Limit(wanted)
      BY <1>1
    <3> QED BY <1>1, <2>7, <2>9, <3>1, <3>2, Zenon DEF Kept, LastAsked
  <2> QED BY <1>1, <1>3, <2>4, <2>8, <2>9 DEF SteadyInv
<1> QED BY <1>2, <1>3

LEMMA SteadyNext ==
  ASSUME FirstListen = "listening", ControlIInv, ControlTypeOK', SteadyInv,
         [ControlNext]_controlVars
  PROVE  SteadyInv'
<1>1. CASE DesktopPoll
  BY <1>1, SteadyDesktopPoll
<1>2. CASE CloseControl \/ Unpause \/ DesktopStart \/ ServiceRestart \/ ValidationFails
  <2>1. steady' = 0 /\ sincePoll' <= Period(wanted')
    <3>1. steady' = 0
      BY <1>2, Zenon DEF CloseControl, Unpause, DesktopStart, ServiceRestart, ValidationFails
    <3>2. sincePoll' = 0 \/ (sincePoll' = sincePoll /\ wanted' = wanted)
      BY <1>2 DEF CloseControl, Unpause, DesktopStart, ServiceRestart, ValidationFails
    <3>3. wanted' \in Requests
      BY DEF ControlTypeOK
    <3>4. CASE sincePoll' = 0
      BY <3>3, <3>4, <3>1, FreshPoll
    <3>5. CASE sincePoll' = sincePoll /\ wanted' = wanted
      BY <3>5, <3>1, Zenon DEF SteadyInv
    <3> QED BY <3>2, <3>4, <3>5
  <2>2. WaitIsBounded'
    BY <2>1, WaitBoundsNext
  <2> QED BY <2>1, <2>2 DEF WaitIsBounded, SteadyInv
<1>3. CASE Pause \/ DesktopExit
  BY <1>3 DEF Pause, DesktopExit, SteadyInv
<1>4. CASE PollFpsControl
  BY <1>4, SteadyPollFpsControl
<1>5. CASE ControlTick
  BY <1>5, SteadyTick
<1>6. CASE UNCHANGED controlVars
  <2>1. Place' = Place /\ DesktopDue' = DesktopDue /\ ServiceDue' = ServiceDue
    BY <1>6 DEF controlVars, Place, DesktopDue, ServiceDue
  <2>2. Wait' = Wait
    BY <1>6, <2>1 DEF controlVars, Wait
  <2> QED BY <1>6, <2>2 DEF controlVars, SteadyInv, Arriving, Kept, LastAsked
<1> QED BY <1>1, <1>2, <1>3, <1>4, <1>5, <1>6 DEF ControlNext

LEMMA SteadyInit == ControlInit => SteadyInv
<1> SUFFICES ASSUME ControlInit PROVE SteadyInv
  OBVIOUS
<1>1. wanted \in Requests /\ sincePoll = 0 /\ steady = 0
  BY DEF ControlInit
<1>2. sincePoll <= Period(wanted)
  BY <1>1, FreshPoll
<1>3. WaitIsBounded
  BY <1>2, ControlInitIInv, WaitBounds DEF ControlIInv
<1> QED BY <1>1, <1>2, <1>3 DEF SteadyInv, WaitIsBounded

(* What ControlPipe's variables can be, whatever ConnectNamedPipe answers: the two    *)
(* ends of the pipe agree on being connected, and it holds two messages at most         *)
(* (sensor_bridge.cpp:64-136, 187-291).                                                  *)
THEOREM ControlTypeCorrect == ControlSpec => []ControlTypeOK
<1>1. ControlIInv => ControlTypeOK
  BY DEF ControlIInv
<1> QED BY <1>1, ControlInvariance, PTL

(* A desktop that is suspended, closed or killed has its game released                *)
(* (sensor_bridge.cpp:101-110): one tick for what it left in the pipe, and the limit.   *)
THEOREM SilenceReleasesGame == ControlSpec => []SilentDesktopExpires
<1>1. ControlIInv => SilentDesktopExpires
  BY DEF ControlIInv, SilentInv, SilentDesktopExpires
<1> QED BY <1>1, ControlInvariance, PTL

(* A desktop that keeps asking is served, if a disconnected instance listens when it   *)
(* is told to: a request that was not disturbed for two periods and three ticks is in    *)
(* effect, and is renewed before it expires, at every interval (sensor_bridge.cpp:64-110, *)
(* 187-291).                                                                              *)
THEOREM SteadyDesktopServed ==
  ASSUME FirstListen = "listening"
  PROVE  ControlSpec => []ChannelServesDesktop
<1>1. ControlIInv /\ SteadyInv /\ [ControlNext]_controlVars => (ControlIInv /\ SteadyInv)'
  BY ControlNextIInv, SteadyNext DEF ControlIInv
<1>2. ControlIInv /\ SteadyInv => ChannelServesDesktop
  <2> SUFFICES ASSUME ControlIInv, SteadyInv, desktop = "polling", steady >= Reach
               PROVE  requested = wanted
    BY DEF ControlIInv, ChannelServesDesktop, SteadyRequestArrives
  <2>1. Wait \in Nat
    BY WaitBounds DEF WaitIsBounded, SteadyInv, ControlIInv
  <2>2. ~Arriving
    BY <2>1, ControlAssumption DEF Arriving, ControlIInv, ControlTypeOK
  <2> QED BY <2>2 DEF SteadyInv, Kept
<1> QED BY <1>1, <1>2, ControlInitIInv, SteadyInit, PTL DEF ControlSpec
=============================================================================
