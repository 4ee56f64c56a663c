------------------------- MODULE SensorWorker_proofs -------------------------
(***************************************************************************)
(* Safety theorems about SensorWorker, for any readings and any length of   *)
(* the message queue.                                                       *)
(***************************************************************************)
EXTENDS SensorWorker, TLAPS

\* The window's flags are the thread's: it is paused while the machine is suspended,
\* and told to stop once the window is destroyed.
FlagInv == pause = suspended /\ (stop <=> window # "open")

\* The pause finds a snapshot that has been checked already, or there is none.
GrantInv == worker = "publishing" /\ suspended => granted

\* Values from before a resume are those of the turn that the resume overtook, or the
\* hardware is due before the next one collects.
StaleInv ==
  ~hardware.fresh =>
    \/ worker \in {"history", "publishing"} /\ dirty /\ stale = 0
    \/ worker = "collecting" /\ (due \/ (dirty /\ stale = 0))
    \/ worker \notin {"history", "publishing", "collecting"} /\ (dirty \/ due)

\* The session has a least and a greatest reading.
SessionInv ==
  session # {} => /\ \E m \in session : \A r \in session : m <= r
                  /\ \E m \in session : \A r \in session : m >= r

\* The type invariant in two halves: what the provers treat as formulas, and what
\* they treat as values.
FlagsOK ==
  {pause, onLaunch, dirty, resetRequest, stop, previousGame, due, suspended,
   resumeWaiting, showOsd, osdVisible, overridden, granted, late} \subseteq BOOLEAN
ValuesOK ==
  /\ worker \in {"top", "paused", "collecting", "history", "publishing",
                 "notifying", "waiting", "leaving", "ended"}
  /\ turn \in [onLaunch : BOOLEAN, game : BOOLEAN]
  /\ hardware \in [fresh : BOOLEAN, reading : Readings]
  /\ history.seen => {history.minimum, history.maximum} \subseteq Readings
  /\ {store, shown} \subseteq [fresh : BOOLEAN, number : 0 .. 2]
  /\ queue \in 0 .. QueueLimit
  /\ window \in {"open", "destroyed", "ended"}
  /\ stale \in 0 .. 2 /\ session \subseteq Readings

IInv == /\ FlagsOK /\ ValuesOK /\ FlagInv /\ GrantInv /\ StaleInv /\ SessionInv
        /\ PauseStopsPublishing /\ OneStaleSnapshot /\ NoSnapshotLost
        /\ ExtremaMatchSession /\ OsdHiddenUntilServed

LEMMA TypeSplit == TypeOK <=> FlagsOK /\ ValuesOK
  BY DEF TypeOK, FlagsOK, ValuesOK

LEMMA MinOfTwo ==
  ASSUME NEW a \in Int, NEW b \in Int
  PROVE  Min({a, b}) = IF a <= b THEN a ELSE b
<1> DEFINE m == IF a <= b THEN a ELSE b
<1>1. m \in {a, b} /\ \A y \in {a, b} : m <= y
  OBVIOUS
<1>2. \A x \in {a, b} : (\A y \in {a, b} : x <= y) => x = m
  OBVIOUS
<1> HIDE DEF m
<1>3. Min({a, b}) = m
  BY <1>1, <1>2 DEF Min
<1> QED BY <1>3 DEF m

LEMMA MaxOfTwo ==
  ASSUME NEW a \in Int, NEW b \in Int
  PROVE  Max({a, b}) = IF a >= b THEN a ELSE b
<1> DEFINE m == IF a >= b THEN a ELSE b
<1>1. m \in {a, b} /\ \A y \in {a, b} : m >= y
  OBVIOUS
<1>2. \A x \in {a, b} : (\A y \in {a, b} : x >= y) => x = m
  OBVIOUS
<1> HIDE DEF m
<1>3. Max({a, b}) = m
  BY <1>1, <1>2 DEF Max
<1> QED BY <1>3 DEF m

\* The minimum of a set with a least element is that element, and is known from it.
LEMMA MinIs ==
  ASSUME NEW S \in SUBSET Int, NEW m \in S, \A y \in S : m <= y
  PROVE  Min(S) = m
<1>1. \A x \in S : (\A y \in S : x <= y) => x = m
  OBVIOUS
<1> QED BY <1>1 DEF Min

LEMMA MaxIs ==
  ASSUME NEW S \in SUBSET Int, NEW m \in S, \A y \in S : m >= y
  PROVE  Max(S) = m
<1>1. \A x \in S : (\A y \in S : x >= y) => x = m
  OBVIOUS
<1> QED BY <1>1 DEF Max

LEMMA InitIInv == Init => IInv
<1> SUFFICES ASSUME Init PROVE IInv
  OBVIOUS
<1> USE WorkerAssumption DEF Init
<1>1. FlagsOK
  BY Zenon DEF FlagsOK
<1>2. ValuesOK
  BY DEF ValuesOK, NoTurn, NoReading, NoSnapshot
<1>3. FlagInv /\ GrantInv /\ StaleInv /\ SessionInv
  BY DEF FlagInv, GrantInv, StaleInv, SessionInv
<1>4. /\ PauseStopsPublishing /\ OneStaleSnapshot /\ NoSnapshotLost
      /\ ExtremaMatchSession /\ OsdHiddenUntilServed
  BY DEF PauseStopsPublishing, OneStaleSnapshot, NoSnapshotLost, ExtremaMatchSession,
     OsdHiddenUntilServed, Unserved, NoReading, NoSnapshot
<1> QED BY <1>1, <1>2, <1>3, <1>4 DEF IInv

\* The pause that the thread sees is the window's, so a snapshot is under way or the machine is suspended.
LEMMA ReadConfigurationIInv == ASSUME IInv, ReadConfiguration PROVE IInv'
<1> USE DEF IInv, ReadConfiguration, configVars, loopVars, windowVars, ghostVars
<1>1. FlagsOK' /\ ValuesOK'
  <2>1. CASE stop
    <3>1. FlagsOK'
      <4>1. UNCHANGED <<due, dirty>>
        BY <2>1
      <4> QED BY <4>1, Zenon DEF FlagsOK
    <3>2. ValuesOK'
      BY <2>1 DEF ValuesOK
    <3> QED BY <3>1, <3>2
  <2>2. CASE ~stop
    <3>1. due' \in BOOLEAN /\ dirty' \in BOOLEAN
      BY <2>2, Zenon DEF FlagsOK
    <3>2. turn' \in [onLaunch : BOOLEAN, game : BOOLEAN]
      <4>1. (onLaunch /\ ~pause) \in BOOLEAN
        BY Zenon
      <4> DEFINE b == onLaunch /\ ~pause
      <4>2. turn' = [NoTurn EXCEPT !.onLaunch = b]
        BY <2>2
      <4> HIDE DEF b
      <4> QED BY <4>1, <4>2 DEF NoTurn, b
    <3>3. FlagsOK'
      BY <3>1, Zenon DEF FlagsOK
    <3>4. ValuesOK'
      BY <2>2, <3>2 DEF ValuesOK
    <3> QED BY <3>3, <3>4
  <2> QED BY <2>1, <2>2
<1>2. FlagInv' /\ GrantInv' /\ StaleInv'
  BY DEF FlagInv, GrantInv, StaleInv, ValuesOK, FlagsOK
<1>3. PauseStopsPublishing' /\ OneStaleSnapshot'
  BY DEF PauseStopsPublishing, OneStaleSnapshot, GrantInv, StaleInv
<1>4. NoSnapshotLost' /\ OsdHiddenUntilServed'
  BY DEF NoSnapshotLost, OsdHiddenUntilServed, Unserved, FlagInv, ValuesOK
<1>5. SessionInv' /\ ExtremaMatchSession'
  BY DEF SessionInv, ExtremaMatchSession, NoReading
<1> QED BY <1>1, <1>2, <1>3, <1>4, <1>5

LEMMA AwaitResumeIInv == ASSUME IInv, AwaitResume PROVE IInv'
<1> USE DEF IInv, AwaitResume, configVars, loopVars, windowVars, ghostVars
<1>1. FlagsOK'
  BY Zenon DEF FlagsOK
<1>2. ValuesOK'
  BY DEF ValuesOK, FlagsOK
<1>3. FlagInv' /\ GrantInv' /\ StaleInv'
  BY DEF FlagInv, GrantInv, StaleInv, ValuesOK, FlagsOK
<1>4. PauseStopsPublishing' /\ OneStaleSnapshot'
  BY DEF PauseStopsPublishing, OneStaleSnapshot, GrantInv, StaleInv
<1>5. NoSnapshotLost' /\ OsdHiddenUntilServed'
  BY DEF NoSnapshotLost, OsdHiddenUntilServed, Unserved, FlagInv, ValuesOK
<1>6. SessionInv' /\ ExtremaMatchSession'
  BY DEF SessionInv, ExtremaMatchSession, NoReading
<1> QED BY <1>1, <1>2, <1>3, <1>4, <1>5, <1>6

\* Only a turn that a resume overtook collects nothing fresh.
LEMMA CollectIInv == ASSUME IInv, Collect PROVE IInv'
<1> USE DEF IInv, Collect, configVars, loopVars, windowVars, ghostVars
<1>1. FlagsOK'
  BY Zenon DEF FlagsOK
<1>2. ValuesOK'
  <2>1. hardware' \in [fresh : BOOLEAN, reading : Readings]
    <3>1. CASE \E r \in Readings : hardware' = [fresh |-> TRUE, reading |-> r]
      BY <3>1
    <3>2. CASE UNCHANGED hardware
      BY <3>2 DEF ValuesOK
    <3> QED BY <3>1, <3>2
  <2>2. turn' \in [onLaunch : BOOLEAN, game : BOOLEAN]
    BY DEF ValuesOK
  <2> QED BY <2>1, <2>2 DEF ValuesOK
<1>3. FlagInv' /\ GrantInv' /\ StaleInv'
  BY DEF FlagInv, GrantInv, StaleInv, ValuesOK, FlagsOK
<1>4. PauseStopsPublishing' /\ OneStaleSnapshot'
  BY DEF PauseStopsPublishing, OneStaleSnapshot, GrantInv, StaleInv
<1>5. NoSnapshotLost' /\ OsdHiddenUntilServed'
  BY DEF NoSnapshotLost, OsdHiddenUntilServed, Unserved, FlagInv, ValuesOK
<1>6. SessionInv' /\ ExtremaMatchSession'
  BY DEF SessionInv, ExtremaMatchSession, NoReading
<1> QED BY <1>1, <1>2, <1>3, <1>4, <1>5, <1>6

\* The pause and the stop are looked at here, after the session is decided.
LEMMA ResetHistoryIInv == ASSUME IInv, ResetHistory PROVE IInv'
<1> USE DEF IInv, ResetHistory, configVars, loopVars, windowVars, ghostVars
<1>1. FlagsOK' /\ ValuesOK' /\ SessionInv' /\ ExtremaMatchSession'
  <2>1. \/ history' = NoReading /\ session' = {}
        \/ UNCHANGED <<history, session>>
    OBVIOUS
  <2>2. previousGame' \in BOOLEAN
    BY DEF ValuesOK
  <2>3. worker' \in {"top", "publishing"} /\ turn' = NoTurn /\ resetRequest' = FALSE
    OBVIOUS
  <2>5. UNCHANGED <<pause, onLaunch, dirty, stop, due, hardware, store, queue,
                   windowVars, overridden, granted, late, stale>>
    OBVIOUS
  <2>4. FlagsOK /\ ValuesOK /\ SessionInv /\ ExtremaMatchSession
    OBVIOUS
  <2> HIDE DEF ResetHistory, IInv
  <2>6. FlagsOK'
    BY <2>2, <2>3, <2>4, <2>5, Zenon DEF FlagsOK
  <2>7. ValuesOK'
    BY <2>1, <2>3, <2>4, <2>5 DEF ValuesOK, NoTurn, NoReading
  <2>8. SessionInv' /\ ExtremaMatchSession'
    BY <2>1, <2>4 DEF SessionInv, ExtremaMatchSession, NoReading
  <2> QED BY <2>6, <2>7, <2>8
<1>2. FlagInv' /\ GrantInv' /\ StaleInv'
  BY DEF FlagInv, GrantInv, StaleInv, ValuesOK, FlagsOK
<1>3. PauseStopsPublishing' /\ OneStaleSnapshot'
  BY DEF PauseStopsPublishing, OneStaleSnapshot, GrantInv, StaleInv
<1>4. NoSnapshotLost' /\ OsdHiddenUntilServed'
  BY DEF NoSnapshotLost, OsdHiddenUntilServed, Unserved, FlagInv, ValuesOK
<1> QED BY <1>1, <1>2, <1>3, <1>4

\* The one step that a pause may be late for.
LEMMA PublishIInv == ASSUME IInv, Publish PROVE IInv'
<1> USE DEF IInv, Publish, configVars, loopVars, windowVars, ghostVars
<1>1. FlagsOK' /\ ValuesOK' /\ PauseStopsPublishing' /\ OneStaleSnapshot'
  <2>1. late' \in BOOLEAN /\ granted' \in BOOLEAN
    BY Zenon
  <2>2. FlagsOK'
    <3>1. UNCHANGED <<configVars, previousGame, due, windowVars, overridden>> /\ FlagsOK
      OBVIOUS
    <3> HIDE DEF Publish, IInv
    <3> QED BY <2>1, <3>1, Zenon DEF FlagsOK
  <2>3. PauseStopsPublishing'
    BY DEF PauseStopsPublishing, GrantInv
  <2>4. stale' \in 0..1
    <3>1. CASE hardware.fresh
      BY <3>1 DEF ValuesOK, OneStaleSnapshot
    <3>2. CASE ~hardware.fresh
      BY <3>2, MinOfTwo DEF StaleInv
    <3> QED BY <3>1, <3>2
  <2>5. history'.seen => {history'.minimum, history'.maximum} \subseteq Readings
    <3> DEFINE r == hardware.reading
    <3>1. r \in Readings /\ r \in Int
      BY WorkerAssumption DEF ValuesOK
    <3>2. CASE ~history.seen
      BY <3>1, <3>2 DEF Widened
    <3>3. CASE history.seen
      <4>1. {history.minimum, history.maximum} \subseteq Readings /\ Readings \subseteq Int
        BY <3>3, WorkerAssumption DEF ValuesOK
      <4> DEFINE a == history.minimum
                 b == history.maximum
      <4>2. Min({a, r}) \in Readings /\ Max({b, r}) \in Readings
        <5> HIDE DEF a, b, r
        <5>1. a \in Int /\ b \in Int /\ a \in Readings /\ b \in Readings
          BY <4>1 DEF a, b
        <5> QED BY <3>1, <5>1, MinOfTwo, MaxOfTwo
      <4>3. history' = [history EXCEPT !.minimum = Min({a, r}), !.maximum = Max({b, r})]
        BY <3>3 DEF Widened
      <4> QED BY <4>2, <4>3, <4>1
    <3> QED BY <3>2, <3>3
  <2>6. ValuesOK'
    BY <2>4, <2>5 DEF ValuesOK
  <2> QED BY <2>2, <2>3, <2>4, <2>6 DEF OneStaleSnapshot
<1>2. FlagInv' /\ GrantInv' /\ StaleInv'
  BY DEF FlagInv, GrantInv, StaleInv, ValuesOK, FlagsOK
<1>3. NoSnapshotLost' /\ OsdHiddenUntilServed'
  BY DEF NoSnapshotLost, OsdHiddenUntilServed, Unserved, FlagInv, ValuesOK
<1>4. SessionInv' /\ ExtremaMatchSession'
  <2> DEFINE r == hardware.reading
  <2>1. r \in Int /\ session \in SUBSET Int /\ session' = session \cup {r} /\ session' \in SUBSET Int
    BY WorkerAssumption DEF ValuesOK
  <2>2. history' = Widened(history, r)
    OBVIOUS
  <2>3. SessionInv /\ ExtremaMatchSession
    OBVIOUS
  <2> HIDE DEF r, IInv, Publish
  <2>4. CASE session = {}
    <3>1. history' = [seen |-> TRUE, minimum |-> r, maximum |-> r] /\ session' = {r}
      BY <2>1, <2>2, <2>3, <2>4 DEF ExtremaMatchSession, Widened
    <3>2. r \in session' /\ \A y \in session' : r <= y /\ r >= y
      BY <2>1, <3>1
    <3>3. Min(session') = r /\ Max(session') = r
      BY <2>1, <3>2, MinIs, MaxIs
    <3> QED BY <3>1, <3>2, <3>3 DEF SessionInv, ExtremaMatchSession
  <2>5. CASE session # {}
    <3>1. PICK l \in session : \A y \in session : l <= y
      BY <2>3, <2>5 DEF SessionInv
    <3>2. PICK g \in session : \A y \in session : g >= y
      BY <2>3, <2>5 DEF SessionInv
    <3>3. Min(session) = l /\ Max(session) = g /\ l \in Int /\ g \in Int
      BY <2>1, <3>1, <3>2, MinIs, MaxIs
    <3>4. history = [seen |-> TRUE, minimum |-> l, maximum |-> g]
      BY <2>3, <2>5, <3>3 DEF ExtremaMatchSession
    <3> DEFINE newl == IF l <= r THEN l ELSE r
               newg == IF g >= r THEN g ELSE r
    <3>5. history' = [seen |-> TRUE, minimum |-> newl, maximum |-> newg]
      BY <2>1, <2>2, <3>3, <3>4, MinOfTwo, MaxOfTwo DEF Widened
    <3>6. newl \in session' /\ \A y \in session' : newl <= y
      BY <2>1, <3>1, <3>3
    <3>7. newg \in session' /\ \A y \in session' : newg >= y
      BY <2>1, <3>2, <3>3
    <3> HIDE DEF newl, newg
    <3>8. Min(session') = newl /\ Max(session') = newg
      BY <2>1, <3>6, <3>7, MinIs, MaxIs
    <3>9. session' # {}
      BY <3>6
    <3> QED BY <3>5, <3>6, <3>7, <3>8, <3>9 DEF SessionInv, ExtremaMatchSession
  <2> QED BY <2>4, <2>5
<1> QED BY <1>1, <1>2, <1>3, <1>4

LEMMA NotifyIInv == ASSUME IInv, Notify PROVE IInv'
<1> USE DEF IInv, Notify, configVars, loopVars, windowVars, ghostVars
<1>1. FlagsOK'
  BY Zenon DEF FlagsOK
<1>2. ValuesOK' /\ NoSnapshotLost'
  <2>1. queue' \in 1..QueueLimit
    BY MinOfTwo, WorkerAssumption DEF ValuesOK
  <2>2. ValuesOK'
    BY <2>1 DEF ValuesOK
  <2>3. NoSnapshotLost'
    BY <2>1 DEF NoSnapshotLost
  <2> QED BY <2>2, <2>3
<1>3. FlagInv' /\ GrantInv' /\ StaleInv'
  BY DEF FlagInv, GrantInv, StaleInv, ValuesOK, FlagsOK
<1>4. PauseStopsPublishing' /\ OneStaleSnapshot'
  BY DEF PauseStopsPublishing, OneStaleSnapshot, GrantInv, StaleInv
<1>5. OsdHiddenUntilServed'
  BY DEF NoSnapshotLost, OsdHiddenUntilServed, Unserved, FlagInv, ValuesOK
<1>6. SessionInv' /\ ExtremaMatchSession'
  BY DEF SessionInv, ExtremaMatchSession, NoReading
<1> QED BY <1>1, <1>2, <1>3, <1>4, <1>5, <1>6

LEMMA AwaitIntervalIInv == ASSUME IInv, AwaitInterval PROVE IInv'
<1> USE DEF IInv, AwaitInterval, configVars, loopVars, windowVars, ghostVars
<1>1. FlagsOK'
  BY Zenon DEF FlagsOK
<1>2. ValuesOK'
  BY DEF ValuesOK, FlagsOK
<1>3. FlagInv' /\ GrantInv' /\ StaleInv'
  BY DEF FlagInv, GrantInv, StaleInv, ValuesOK, FlagsOK
<1>4. PauseStopsPublishing' /\ OneStaleSnapshot'
  BY DEF PauseStopsPublishing, OneStaleSnapshot, GrantInv, StaleInv
<1>5. NoSnapshotLost' /\ OsdHiddenUntilServed'
  BY DEF NoSnapshotLost, OsdHiddenUntilServed, Unserved, FlagInv, ValuesOK
<1>6. SessionInv' /\ ExtremaMatchSession'
  BY DEF SessionInv, ExtremaMatchSession, NoReading
<1> QED BY <1>1, <1>2, <1>3, <1>4, <1>5, <1>6

LEMMA LeaveIInv == ASSUME IInv, Leave PROVE IInv'
<1> USE DEF IInv, Leave, configVars, loopVars, windowVars, ghostVars
<1>1. FlagsOK'
  BY Zenon DEF FlagsOK
<1>2. ValuesOK'
  BY DEF ValuesOK, FlagsOK
<1>3. FlagInv' /\ GrantInv' /\ StaleInv'
  BY DEF FlagInv, GrantInv, StaleInv, ValuesOK, FlagsOK
<1>4. PauseStopsPublishing' /\ OneStaleSnapshot'
  BY DEF PauseStopsPublishing, OneStaleSnapshot, GrantInv, StaleInv
<1>5. NoSnapshotLost' /\ OsdHiddenUntilServed'
  BY DEF NoSnapshotLost, OsdHiddenUntilServed, Unserved, FlagInv, ValuesOK
<1>6. SessionInv' /\ ExtremaMatchSession'
  BY DEF SessionInv, ExtremaMatchSession, NoReading
<1> QED BY <1>1, <1>2, <1>3, <1>4, <1>5, <1>6

\* The queue is emptied, but nothing is expected of it during a pause.
LEMMA SuspendIInv == ASSUME IInv, Suspend PROVE IInv'
<1> USE DEF IInv, Suspend, configVars, loopVars, windowVars, ghostVars
<1>1. FlagsOK' /\ ValuesOK'
  <2>1. granted' \in BOOLEAN
    BY Zenon
  <2>2. FlagsOK'
    BY <2>1, Zenon DEF FlagsOK
  <2>3. ValuesOK'
    BY WorkerAssumption DEF ValuesOK
  <2> QED BY <2>2, <2>3
<1>2. FlagInv' /\ GrantInv' /\ StaleInv'
  BY DEF FlagInv, GrantInv, StaleInv, ValuesOK, FlagsOK
<1>3. PauseStopsPublishing' /\ OneStaleSnapshot'
  BY DEF PauseStopsPublishing, OneStaleSnapshot, GrantInv, StaleInv
<1>4. NoSnapshotLost' /\ OsdHiddenUntilServed'
  BY DEF NoSnapshotLost, OsdHiddenUntilServed, Unserved, FlagInv, ValuesOK
<1>5. SessionInv' /\ ExtremaMatchSession'
  BY DEF SessionInv, ExtremaMatchSession, NoReading
<1> QED BY <1>1, <1>2, <1>3, <1>4, <1>5

\* Everything before it is stale, and the hardware is due.
LEMMA ResumeIInv == ASSUME IInv, Resume PROVE IInv'
<1> USE DEF IInv, Resume, ResumeWith, configVars, loopVars, windowVars, ghostVars
<1>1. FlagsOK'
  BY Zenon DEF FlagsOK
<1>2. ValuesOK'
  <2>1. hardware' \in [fresh : BOOLEAN, reading : Readings]
    BY DEF ValuesOK
  <2>2. {store', shown'} \subseteq [fresh : BOOLEAN, number : 0 .. 2]
    BY DEF ValuesOK
  <2>3. queue' \in 0..QueueLimit /\ stale' \in 0..2
    BY WorkerAssumption
  <2> QED BY <2>1, <2>2, <2>3 DEF ValuesOK
<1>3. FlagInv' /\ GrantInv' /\ StaleInv'
  BY DEF FlagInv, GrantInv, StaleInv, ValuesOK, FlagsOK
<1>4. PauseStopsPublishing' /\ OneStaleSnapshot'
  BY DEF PauseStopsPublishing, OneStaleSnapshot, GrantInv, StaleInv
<1>5. NoSnapshotLost' /\ OsdHiddenUntilServed'
  BY DEF NoSnapshotLost, OsdHiddenUntilServed, Unserved, FlagInv, ValuesOK
<1>6. SessionInv' /\ ExtremaMatchSession'
  BY DEF SessionInv, ExtremaMatchSession, NoReading
<1> QED BY <1>1, <1>2, <1>3, <1>4, <1>5, <1>6

\* The window shows the latest snapshot, whichever message it was.
LEMMA HandleSnapshotIInv == ASSUME IInv, HandleSnapshot PROVE IInv'
<1> USE DEF IInv, HandleSnapshot, configVars, loopVars, windowVars, ghostVars
<1>1. FlagsOK'
  <2>1. /\ resumeWaiting' \in BOOLEAN /\ osdVisible' \in BOOLEAN /\ overridden' \in BOOLEAN
    BY Zenon DEF FlagsOK
  <2>2. /\ UNCHANGED <<pause, onLaunch, dirty, resetRequest, stop, previousGame, due, suspended,
                       showOsd, granted, late>>
        /\ FlagsOK
    OBVIOUS
  <2> HIDE DEF IInv, HandleSnapshot
  <2> QED BY <2>1, <2>2, Zenon DEF FlagsOK
<1>2. ValuesOK'
  <2>1. queue' \in 0..QueueLimit
    BY WorkerAssumption DEF ValuesOK
  <2>2. shown' \in {shown, store}
    OBVIOUS
  <2> QED BY <2>1, <2>2 DEF ValuesOK
<1>3. FlagInv' /\ GrantInv' /\ StaleInv'
  BY DEF FlagInv, GrantInv, StaleInv, ValuesOK, FlagsOK
<1>4. PauseStopsPublishing' /\ OneStaleSnapshot'
  BY DEF PauseStopsPublishing, OneStaleSnapshot, GrantInv, StaleInv
<1>5. NoSnapshotLost' /\ OsdHiddenUntilServed'
  BY DEF NoSnapshotLost, OsdHiddenUntilServed, Unserved, FlagInv, ValuesOK
<1>6. SessionInv' /\ ExtremaMatchSession'
  BY DEF SessionInv, ExtremaMatchSession, NoReading
<1> QED BY <1>1, <1>2, <1>3, <1>4, <1>5, <1>6

LEMMA ToggleOsdIInv == ASSUME IInv, ToggleOsd PROVE IInv'
<1> USE DEF IInv, ToggleOsd, configVars, loopVars, windowVars, ghostVars
<1>1. FlagsOK'
  <2>1. showOsd' \in BOOLEAN /\ osdVisible' \in BOOLEAN /\ overridden' \in BOOLEAN
    BY Zenon
  <2>2. /\ UNCHANGED <<pause, onLaunch, dirty, resetRequest, stop, previousGame, due, suspended,
                       resumeWaiting, granted, late>>
        /\ FlagsOK
    OBVIOUS
  <2> HIDE DEF IInv, ToggleOsd
  <2> QED BY <2>1, <2>2, Zenon DEF FlagsOK
<1>2. ValuesOK'
  BY DEF ValuesOK, FlagsOK
<1>3. FlagInv' /\ GrantInv' /\ StaleInv'
  BY DEF FlagInv, GrantInv, StaleInv, ValuesOK, FlagsOK
<1>4. PauseStopsPublishing' /\ OneStaleSnapshot'
  BY DEF PauseStopsPublishing, OneStaleSnapshot, GrantInv, StaleInv
<1>5. NoSnapshotLost' /\ OsdHiddenUntilServed'
  BY DEF NoSnapshotLost, OsdHiddenUntilServed, Unserved, FlagInv, ValuesOK
<1>6. SessionInv' /\ ExtremaMatchSession'
  BY DEF SessionInv, ExtremaMatchSession, NoReading
<1> QED BY <1>1, <1>2, <1>3, <1>4, <1>5, <1>6

LEMMA RequestMinMaxResetIInv == ASSUME IInv, RequestMinMaxReset PROVE IInv'
<1> USE DEF IInv, RequestMinMaxReset, configVars, loopVars, windowVars, ghostVars
<1>1. FlagsOK'
  BY Zenon DEF FlagsOK
<1>2. ValuesOK'
  BY DEF ValuesOK, FlagsOK
<1>3. FlagInv' /\ GrantInv' /\ StaleInv'
  BY DEF FlagInv, GrantInv, StaleInv, ValuesOK, FlagsOK
<1>4. PauseStopsPublishing' /\ OneStaleSnapshot'
  BY DEF PauseStopsPublishing, OneStaleSnapshot, GrantInv, StaleInv
<1>5. NoSnapshotLost' /\ OsdHiddenUntilServed'
  BY DEF NoSnapshotLost, OsdHiddenUntilServed, Unserved, FlagInv, ValuesOK
<1>6. SessionInv' /\ ExtremaMatchSession'
  BY DEF SessionInv, ExtremaMatchSession, NoReading
<1> QED BY <1>1, <1>2, <1>3, <1>4, <1>5, <1>6

\* The click shows the display as show_osd says, and the ghost records it.
LEMMA ClickRowIInv == ASSUME IInv, ClickRow PROVE IInv'
<1> USE DEF IInv, ClickRow, configVars, loopVars, windowVars, ghostVars
<1>1. FlagsOK'
  <2>1. osdVisible' = showOsd /\ overridden' \in BOOLEAN /\ (dirty' = dirty \/ dirty' = TRUE)
    BY Zenon
  <2>2. /\ UNCHANGED <<pause, onLaunch, resetRequest, stop, previousGame, due, suspended,
                       resumeWaiting, showOsd, granted, late>>
        /\ FlagsOK
    OBVIOUS
  <2> HIDE DEF IInv, ClickRow
  <2> QED BY <2>1, <2>2, Zenon DEF FlagsOK
<1>2. ValuesOK'
  BY DEF ValuesOK, FlagsOK
<1>3. FlagInv' /\ GrantInv' /\ StaleInv'
  BY DEF FlagInv, GrantInv, StaleInv, ValuesOK, FlagsOK
<1>4. PauseStopsPublishing' /\ OneStaleSnapshot'
  BY DEF PauseStopsPublishing, OneStaleSnapshot, GrantInv, StaleInv
<1>5. NoSnapshotLost' /\ OsdHiddenUntilServed'
  BY DEF NoSnapshotLost, OsdHiddenUntilServed, Unserved, FlagInv, ValuesOK
<1>6. SessionInv' /\ ExtremaMatchSession'
  BY DEF SessionInv, ExtremaMatchSession, NoReading
<1> QED BY <1>1, <1>2, <1>3, <1>4, <1>5, <1>6

LEMMA OpenSettingsIInv == ASSUME IInv, OpenSettings PROVE IInv'
<1> USE DEF IInv, OpenSettings, configVars, loopVars, windowVars, ghostVars
<1>1. FlagsOK'
  BY Zenon DEF FlagsOK
<1>2. ValuesOK'
  BY DEF ValuesOK, FlagsOK
<1>3. FlagInv' /\ GrantInv' /\ StaleInv'
  BY DEF FlagInv, GrantInv, StaleInv, ValuesOK, FlagsOK
<1>4. PauseStopsPublishing' /\ OneStaleSnapshot'
  BY DEF PauseStopsPublishing, OneStaleSnapshot, GrantInv, StaleInv
<1>5. NoSnapshotLost' /\ OsdHiddenUntilServed'
  BY DEF NoSnapshotLost, OsdHiddenUntilServed, Unserved, FlagInv, ValuesOK
<1>6. SessionInv' /\ ExtremaMatchSession'
  BY DEF SessionInv, ExtremaMatchSession, NoReading
<1> QED BY <1>1, <1>2, <1>3, <1>4, <1>5, <1>6

LEMMA ApplySettingsIInv == ASSUME IInv, ApplySettings PROVE IInv'
<1> USE DEF IInv, ApplySettings, configVars, loopVars, windowVars, ghostVars
<1>1. FlagsOK'
  <2>1. /\ showOsd' \in BOOLEAN /\ osdVisible' \in BOOLEAN /\ onLaunch' \in BOOLEAN
        /\ dirty' = TRUE
    BY Zenon
  <2>2. overridden' \in BOOLEAN
    BY Zenon
  <2>3. /\ UNCHANGED <<pause, resetRequest, stop, previousGame, due, suspended, resumeWaiting,
                       granted, late>>
        /\ FlagsOK
    OBVIOUS
  <2> HIDE DEF IInv, ApplySettings
  <2> QED BY <2>1, <2>2, <2>3, Zenon DEF FlagsOK
<1>2. ValuesOK'
  BY DEF ValuesOK, FlagsOK
<1>3. FlagInv' /\ GrantInv' /\ StaleInv'
  BY DEF FlagInv, GrantInv, StaleInv, ValuesOK, FlagsOK
<1>4. PauseStopsPublishing' /\ OneStaleSnapshot'
  BY DEF PauseStopsPublishing, OneStaleSnapshot, GrantInv, StaleInv
<1>5. NoSnapshotLost' /\ OsdHiddenUntilServed'
  BY DEF NoSnapshotLost, OsdHiddenUntilServed, Unserved, FlagInv, ValuesOK
<1>6. SessionInv' /\ ExtremaMatchSession'
  BY DEF SessionInv, ExtremaMatchSession, NoReading
<1> QED BY <1>1, <1>2, <1>3, <1>4, <1>5, <1>6

LEMMA DestroyIInv == ASSUME IInv, Destroy PROVE IInv'
<1> USE DEF IInv, Destroy, configVars, loopVars, windowVars, ghostVars
<1>1. FlagsOK'
  BY Zenon DEF FlagsOK
<1>2. ValuesOK'
  BY DEF ValuesOK, FlagsOK
<1>3. FlagInv' /\ GrantInv' /\ StaleInv'
  BY DEF FlagInv, GrantInv, StaleInv, ValuesOK, FlagsOK
<1>4. PauseStopsPublishing' /\ OneStaleSnapshot'
  BY DEF PauseStopsPublishing, OneStaleSnapshot, GrantInv, StaleInv
<1>5. NoSnapshotLost' /\ OsdHiddenUntilServed'
  BY DEF NoSnapshotLost, OsdHiddenUntilServed, Unserved, FlagInv, ValuesOK
<1>6. SessionInv' /\ ExtremaMatchSession'
  BY DEF SessionInv, ExtremaMatchSession, NoReading
<1> QED BY <1>1, <1>2, <1>3, <1>4, <1>5, <1>6

LEMMA JoinIInv == ASSUME IInv, Join PROVE IInv'
<1> USE DEF IInv, Join, configVars, loopVars, windowVars, ghostVars
<1>1. FlagsOK'
  BY Zenon DEF FlagsOK
<1>2. ValuesOK'
  BY DEF ValuesOK, FlagsOK
<1>3. FlagInv' /\ GrantInv' /\ StaleInv'
  BY DEF FlagInv, GrantInv, StaleInv, ValuesOK, FlagsOK
<1>4. PauseStopsPublishing' /\ OneStaleSnapshot'
  BY DEF PauseStopsPublishing, OneStaleSnapshot, GrantInv, StaleInv
<1>5. NoSnapshotLost' /\ OsdHiddenUntilServed'
  BY DEF NoSnapshotLost, OsdHiddenUntilServed, Unserved, FlagInv, ValuesOK
<1>6. SessionInv' /\ ExtremaMatchSession'
  BY DEF SessionInv, ExtremaMatchSession, NoReading
<1> QED BY <1>1, <1>2, <1>3, <1>4, <1>5, <1>6

LEMMA NextIInv == IInv /\ [Next]_vars => IInv'
<1> SUFFICES ASSUME IInv, [Next]_vars PROVE IInv'
  OBVIOUS
<1>1. CASE WorkerNext
  BY <1>1, ReadConfigurationIInv, AwaitResumeIInv, CollectIInv, ResetHistoryIInv, PublishIInv,
     NotifyIInv, AwaitIntervalIInv, LeaveIInv DEF WorkerNext
<1>2. CASE WindowNext
  BY <1>2, SuspendIInv, ResumeIInv, HandleSnapshotIInv, ToggleOsdIInv, RequestMinMaxResetIInv,
     ClickRowIInv, OpenSettingsIInv, ApplySettingsIInv, DestroyIInv, JoinIInv DEF WindowNext
<1>3. CASE UNCHANGED vars
  <2> USE DEF vars, configVars, loopVars, windowVars, ghostVars, IInv
  <2>1. FlagsOK' /\ ValuesOK'
    BY <1>3 DEF FlagsOK, ValuesOK
  <2>2. FlagInv' /\ GrantInv' /\ StaleInv' /\ SessionInv'
    BY <1>3 DEF FlagInv, GrantInv, StaleInv, SessionInv
  <2>3. /\ PauseStopsPublishing' /\ OneStaleSnapshot' /\ NoSnapshotLost'
        /\ ExtremaMatchSession' /\ OsdHiddenUntilServed'
    BY <1>3 DEF PauseStopsPublishing, OneStaleSnapshot, NoSnapshotLost, ExtremaMatchSession,
       OsdHiddenUntilServed, Unserved
  <2> QED BY <1>3, <2>1, <2>2, <2>3
<1> QED BY <1>1, <1>2, <1>3 DEF Next

LEMMA Invariance == Spec => []IInv
<1>1. Init => IInv
  BY InitIInv
<1>2. IInv /\ [Next]_vars => IInv'
  BY NextIInv
<1> QED BY <1>1, <1>2, PTL DEF Spec

(* However suspends and resumes interleave with the thread's turns, a pause lets at  *)
(* most the snapshot through that had been checked when it came, and a resume is      *)
(* followed by at most one snapshot of values from before it                            *)
(* (sensor_worker.cpp:192-251, native_window.cpp:381-406).                               *)
THEOREM PauseObserved == Spec => []PauseIsObserved
<1>1. IInv => PauseIsObserved
  BY TypeSplit DEF IInv, PauseIsObserved
<1> QED BY Invariance, <1>1, PTL

(* A message may be dropped by a full queue, a suspend or a resume: the window shows   *)
(* the latest snapshot nevertheless, or will be told of it, or a new one is on its way  *)
(* (native_window.cpp:381-406, 672-698, sensor_worker.cpp:244-260).                      *)
THEOREM NothingLostOnTheWay == Spec => []NoSnapshotLost
<1>1. IInv => NoSnapshotLost
  BY DEF IInv
<1> QED BY Invariance, <1>1, PTL

(* What is shown as minimum and maximum is the range of what was published since the   *)
(* last reset, for any readings (sensor_worker.cpp:234-249, 304-330).                    *)
THEOREM ExtremaAreOfSession == Spec => []ExtremaMatchSession
<1>1. IInv => ExtremaMatchSession
  BY DEF IInv
<1> QED BY Invariance, <1>1, PTL

(* From a suspend until a snapshot has served the resume, the display is visible     *)
(* exactly if the last of the user's three handlers that set it (menu, settings, a      *)
(* click on a row) has shown it: no message does (native_window.cpp:381-406, 683-698,     *)
(* 1160-1180, 1363-1400).                                                                   *)
THEOREM HiddenUntilServed == Spec => []OsdHiddenUntilServed
<1>1. IInv => OsdHiddenUntilServed
  BY DEF IInv
<1> QED BY Invariance, <1>1, PTL
=============================================================================
