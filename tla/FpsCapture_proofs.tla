-------------------------- MODULE FpsCapture_proofs --------------------------
(***************************************************************************)
(* Safety theorems about FpsCapture, for any games, chains, windows and     *)
(* bounds.                                                                  *)
(***************************************************************************)
EXTENDS FpsCapture, FiniteSetTheorems, TLAPS

CsvStreams == [selected : Chains \cup {"none"}, counts : [Chains -> 0 .. MaxRows + 1],
               window : 0 .. Window, quiet : 0 .. Silence + 1, reset : BOOLEAN]

\* A stream that follows no chain has counted nothing and starts a new history, and a
\* present in the pipe still fits the counts.
StreamInv ==
  /\ csv.selected = "none" => csv.reset /\ \A c \in Chains : csv.counts[c] = 0
  /\ unread.kind = "present" =>
       csv.window >= Window \/ \A c \in Chains : csv.counts[c] < MaxRows

\* A reader is of a game, and of the loop's target unless the loop is in Stop.
TargetInv ==
  /\ reader # "none" => captured \in Games
  /\ loop = "idle" /\ reader # "none" => captured = target
  /\ loop # "idle" => target = "none"

\* The origin of the intervals of the chain followed.
Current == [game |-> captured, chain |-> csv.selected, stretch |-> stretch[csv.selected]]

\* The history is of the chain followed unless the next sample starts another; the
\* sample about to be recorded is of that chain.  A reader whose target has changed
\* may clear the mark without a sample: it will never record again.
OriginInv ==
  /\ reader \in {"top", "reading"} /\ captured = target /\ ~csv.reset => history \subseteq {Current}
  /\ reader = "recording" => /\ ~csv.reset /\ sample.from = csv.selected /\ sample.from \in Chains
                             /\ sample.new \/ history \subseteq {Current}
  /\ \A o, p \in history : o = p

IInv == TypeOK /\ StreamInv /\ TargetInv /\ OriginInv /\ HistoryIsOfTarget /\ LowIsOfHistory

\* A present of chain c: the stream keeps its type and follows a chain, and a chain that
\* takes over starts a new history.
LEMMA StreamAfterPresent ==
  ASSUME csv \in CsvStreams, StreamInv, NEW c \in Chains,
         csv.window >= Window \/ \A d \in Chains : csv.counts[d] < MaxRows,
         NEW s \in Streams(c)
  PROVE  /\ s \in CsvStreams /\ s.selected \in Chains
         /\ csv.reset \/ s.selected # csv.selected => s.reset
<1> DEFINE n == Count(csv, c)
<1> USE CaptureAssumption
<1>1. /\ n \in [selected : Chains, counts : [Chains -> Int], window : 0 .. Window,
                quiet : 0 .. Silence + 1, reset : BOOLEAN]
      /\ n.reset = csv.reset /\ (n.selected # csv.selected => n.reset)
      /\ n.window >= Window \/ \A d \in Chains : n.counts[d] \in 0 .. MaxRows + 1
  <2> DEFINE first == IF csv.selected = "none"
                        THEN [csv EXCEPT !.selected = c, !.window = 0] ELSE csv
  <2>1. /\ first \in [selected : Chains, counts : [Chains -> 0 .. MaxRows + 1],
                     window : 0 .. Window, quiet : 0 .. Silence + 1, reset : BOOLEAN]
        /\ first.reset = csv.reset /\ (first.selected # csv.selected => first.reset)
        /\ first.counts = csv.counts
    <3>1. CASE csv.selected = "none"
      <4>1. first = [csv EXCEPT !.selected = c, !.window = 0]
        BY <3>1
      <4>2. csv.reset
        BY <3>1 DEF StreamInv
      <4> HIDE DEF first
      <4>3. first.reset = csv.reset /\ first.selected = c /\ first.counts = csv.counts
        BY <4>1 DEF CsvStreams
      <4>4. first \in [selected : Chains, counts : [Chains -> 0 .. MaxRows + 1],
                      window : 0 .. Window, quiet : 0 .. Silence + 1, reset : BOOLEAN]
        <5>1. first = [selected |-> c, counts |-> csv.counts, window |-> 0,
                       quiet |-> csv.quiet, reset |-> csv.reset]
          BY <4>1 DEF CsvStreams
        <5>2. /\ csv.counts \in [Chains -> 0 .. MaxRows + 1] /\ csv.quiet \in 0 .. Silence + 1
              /\ csv.reset \in BOOLEAN /\ 0 \in 0 .. Window
          BY DEF CsvStreams
        <5> QED BY <5>1, <5>2
      <4> QED BY <4>2, <4>3, <4>4
    <3>2. CASE csv.selected # "none"
      BY <3>2 DEF CsvStreams
    <3> QED BY <3>1, <3>2
  <2>2. \/ first.window >= Window
        \/ \A d \in Chains : first.counts[d] + 1 \in 0 .. MaxRows + 1
    <3>1. CASE csv.selected = "none"
      BY <2>1, <3>1 DEF StreamInv
    <3>2. CASE csv.selected # "none"
      <4>1. first = csv
        BY <3>2
      <4> HIDE DEF first
      <4> QED BY <2>1, <4>1
    <3> QED BY <3>1, <3>2
  <2>3. n = first \/ n = [first EXCEPT !.counts[c] = @ + 1]
    BY DEF Count
  <2> HIDE DEF first, n
  <2>4. CASE n = first
    BY <2>1, <2>4
  <2>5. CASE n = [first EXCEPT !.counts[c] = @ + 1]
    BY <2>1, <2>2, <2>5
  <2> QED BY <2>3, <2>4, <2>5
<1>2. PICK b \in Busiest(n) : s = Follow(Elect(n, b), c)
  BY DEF Streams
<1>3. b \in Chains
  BY DEF Busiest
<1> HIDE DEF n
<1> DEFINE e == Elect(n, b)
<1>4. e \in CsvStreams /\ e.selected \in Chains /\ (n.reset \/ e.selected # n.selected => e.reset)
  <2>1. CASE n.window < Window
    BY <1>1, <2>1 DEF Elect, CsvStreams
  <2>2. CASE ~(n.window < Window)
    <3> DEFINE wins == b # n.selected /\ n.counts[b] > 2 * n.counts[n.selected]
               mark == n.reset \/ wins
               best == IF wins THEN b ELSE n.selected
    <3>1. e = [n EXCEPT !.counts = [d \in Chains |-> 0], !.window = 0,
                        !.selected = best, !.reset = mark]
      BY <2>2 DEF Elect
    <3>2. mark \in BOOLEAN
      BY Zenon
    <3>3. best \in Chains /\ (n.reset \/ best # n.selected => mark)
      BY <1>1, <1>3
    <3> HIDE DEF wins, mark, best, e
    <3>4. e = [selected |-> best, counts |-> [d \in Chains |-> 0], window |-> 0,
               quiet |-> n.quiet, reset |-> mark]
      BY <1>1, <3>1
    <3>5. e.selected = best /\ e.reset = mark
      BY <3>4
    <3>6. e \in CsvStreams
      BY <1>1, <3>2, <3>3, <3>4 DEF CsvStreams
    <3> QED BY <3>3, <3>5, <3>6
  <2> QED BY <2>1, <2>2
<1> HIDE DEF e
<1>5. s \in CsvStreams /\ s.selected \in Chains /\ (e.reset \/ s.selected # e.selected => s.reset)
  BY <1>2, <1>4 DEF Follow, CsvStreams, e
<1> QED BY <1>1, <1>4, <1>5

LEMMA InitIInv == Init => IInv
<1> SUFFICES ASSUME Init PROVE IInv
  OBVIOUS
<1> USE CaptureAssumption DEF Init
<1>1. csv \in CsvStreams
  BY DEF NewStream, CsvStreams
<1>2. TypeOK
  <2>1. stopping \in BOOLEAN
    BY Zenon
  <2>2. sample \in [new : BOOLEAN, from : Chains \cup {"none"}]
    BY DEF NoSample
  <2> HIDE DEF CsvStreams
  <2>3. /\ target \in Targets /\ goal \in Targets /\ captured \in Targets
        /\ loop \in {"idle", "stopping", "joining"} /\ monitor \in {"none", "running", "dead"}
        /\ unread \in Rows \cup {NoRow}
        /\ reader \in {"none", "top", "reading", "recording", "ended"}
        /\ history \subseteq Origins /\ low \subseteq Origins
        /\ lowAge \in 0 .. LowPeriod /\ stretch \in [Chains -> {0, 1}]
    BY DEF Targets
  <2> QED BY <1>1, <2>1, <2>2, <2>3 DEF TypeOK, CsvStreams
<1>3. StreamInv /\ TargetInv /\ OriginInv
  BY DEF StreamInv, TargetInv, OriginInv, NewStream, NoRow
<1>4. HistoryIsOfTarget /\ LowIsOfHistory
  BY DEF HistoryIsOfTarget, LowIsOfHistory
<1> QED BY <1>2, <1>3, <1>4 DEF IInv

\* What PresentMon does, and the reader's steps without a row.
LEMMA PipeIInv ==
  ASSUME IInv, Emit \/ MonitorExit \/ CheckToken \/ ReaderEnds
  PROVE  IInv'
<1> USE DEF IInv, captureVars, readVars, keptVars
<1>1. CASE Emit
  <2>1. PICK row \in Rows : /\ unread' = row
                            /\ row.kind = "present" => \/ csv.window >= Window
                                                       \/ \A c \in Chains : csv.counts[c] < MaxRows
    BY <1>1 DEF Emit
  <2>2. UNCHANGED <<target, loop, monitor, reader, captureVars, readVars, keptVars, stretch>>
    BY <1>1 DEF Emit
  <2> QED BY <2>1, <2>2 DEF TypeOK, StreamInv, TargetInv, OriginInv, Current, HistoryIsOfTarget, LowIsOfHistory
<1>2. CASE MonitorExit
  BY <1>2 DEF MonitorExit, TypeOK, StreamInv, TargetInv, OriginInv, Current, HistoryIsOfTarget, LowIsOfHistory
<1>3. CASE CheckToken \/ ReaderEnds
  <2>1. /\ UNCHANGED <<target, loop, monitor, unread, captureVars, readVars, keptVars, stretch>>
        /\ reader' \in {"reading", "ended"} /\ reader \in {"top", "reading"}
    BY <1>3 DEF CheckToken, ReaderEnds
  <2> QED BY <2>1 DEF TypeOK, StreamInv, TargetInv, OriginInv, Current, HistoryIsOfTarget, LowIsOfHistory
<1> QED BY <1>1, <1>2, <1>3

LEMMA ReadRowIInv ==
  ASSUME IInv, ReadRow
  PROVE  IInv'
<1> USE CaptureAssumption DEF IInv, ReadRow, captureVars, keptVars
<1>1. csv \in CsvStreams /\ unread \in Rows /\ unread.chain \in Chains
  BY DEF TypeOK, CsvStreams, Rows, NoRow
<1>2. /\ UNCHANGED <<target, loop, monitor, goal, captured, stopping, history, low, lowAge>>
      /\ unread' = NoRow /\ reader = "reading"
  OBVIOUS
<1>3. CASE unread.kind = "discontinuity"
  <2>1. csv' = Interrupted(unread.chain) /\ reader' = "top" /\ UNCHANGED sample
        /\ stretch' = [stretch EXCEPT ![unread.chain] = 1 - @]
    BY <1>3
  <2> DEFINE mark == csv.reset \/ unread.chain = csv.selected
  <2>2. mark \in BOOLEAN /\ csv' = [csv EXCEPT !.reset = mark]
    BY <2>1 DEF Interrupted
  <2> HIDE DEF IInv, ReadRow, mark
  <2>3. csv' \in CsvStreams /\ csv'.reset = mark
        /\ csv'.selected = csv.selected /\ csv'.counts = csv.counts
    BY <1>1, <2>2 DEF CsvStreams
  <2>4. stretch' \in [Chains -> {0, 1}]
    BY <1>1, <2>1 DEF TypeOK, IInv
  <2>5. TypeOK'
    BY <1>2, <2>1, <2>3, <2>4 DEF TypeOK, IInv, CsvStreams
  <2>6. StreamInv' /\ TargetInv'
    BY <1>2, <2>1, <2>3 DEF StreamInv, TargetInv, IInv, NoRow, mark
  <2>7. OriginInv'
    <3>1. ~mark => Current' = Current
      BY <1>1, <1>2, <2>1, <2>3 DEF Current, mark, TypeOK, IInv
    <3> QED BY <1>2, <2>1, <2>3, <3>1 DEF OriginInv, IInv, mark
  <2>8. HistoryIsOfTarget' /\ LowIsOfHistory'
    BY <1>2 DEF HistoryIsOfTarget, LowIsOfHistory, IInv
  <2> QED BY <2>5, <2>6, <2>7, <2>8 DEF IInv
<1>4. CASE unread.kind = "present"
  <2>1. PICK s \in Streams(unread.chain) :
          IF unread.chain # s.selected
            THEN csv' = s /\ reader' = "top" /\ UNCHANGED sample
            ELSE /\ csv' = [s EXCEPT !.reset = FALSE, !.quiet = 0]
                 /\ IF captured = target
                      THEN /\ reader' = "recording"
                           /\ sample' = [new |-> s.reset, from |-> unread.chain]
                      ELSE reader' = "top" /\ UNCHANGED sample
    BY <1>4
  <2>2. UNCHANGED stretch
    BY <1>4
  <2>3. /\ s \in CsvStreams /\ s.selected \in Chains
        /\ csv.reset \/ s.selected # csv.selected => s.reset
    BY <1>1, <1>4, StreamAfterPresent DEF StreamInv
  <2> HIDE DEF IInv, ReadRow
  <2>4. /\ csv' \in CsvStreams /\ csv'.selected = s.selected
        /\ csv'.reset => s.reset
        /\ unread.chain = s.selected => ~csv'.reset
        /\ unread.chain # s.selected => csv' = s
    <3>1. CASE unread.chain # s.selected
      BY <2>1, <2>3, <3>1
    <3>2. CASE unread.chain = s.selected
      <4>1. csv' = [s EXCEPT !.reset = FALSE, !.quiet = 0]
        BY <2>1, <3>2
      <4>2. csv' = [selected |-> s.selected, counts |-> s.counts, window |-> s.window,
                    quiet |-> 0, reset |-> FALSE]
        BY <2>3, <4>1 DEF CsvStreams
      <4>3. 0 \in 0 .. Silence + 1 /\ FALSE \in BOOLEAN
        OBVIOUS
      <4> QED BY <2>3, <3>2, <4>2, <4>3 DEF CsvStreams
    <3> QED BY <3>1, <3>2
  <2>5. StreamInv' /\ TargetInv' /\ HistoryIsOfTarget' /\ LowIsOfHistory'
    <3>1. reader' # "none" /\ csv'.selected # "none" /\ unread'.kind # "present"
      BY <1>2, <2>1, <2>3, <2>4 DEF NoRow
    <3> QED BY <1>2, <3>1 DEF StreamInv, TargetInv, HistoryIsOfTarget, LowIsOfHistory, IInv
  <2>6. ~s.reset => Current' = Current
    BY <1>2, <2>2, <2>3, <2>4 DEF Current
  <2>7. CASE unread.chain = s.selected /\ captured = target
    <3>1. reader' = "recording" /\ sample' = [new |-> s.reset, from |-> unread.chain]
      BY <2>1, <2>7
    <3>2. s.reset \in BOOLEAN
      BY <2>3 DEF CsvStreams
    <3>3. sample' \in [new : BOOLEAN, from : Chains \cup {"none"}]
      BY <1>1, <3>1, <3>2
    <3>4. sample'.new = s.reset /\ sample'.from = unread.chain
      BY <3>1
    <3>5. TypeOK'
      BY <1>2, <2>2, <2>4, <3>1, <3>3 DEF TypeOK, IInv, CsvStreams
    <3>6. sample'.new \/ history \subseteq {Current'}
      BY <1>2, <2>3, <2>6, <2>7, <3>4 DEF OriginInv, IInv
    <3>7. OriginInv'
      BY <1>1, <1>2, <2>4, <2>7, <3>1, <3>4, <3>6 DEF OriginInv, IInv
    <3> QED BY <2>5, <3>5, <3>7 DEF IInv
  <2>8. CASE ~(unread.chain = s.selected /\ captured = target)
    <3>1. reader' = "top" /\ UNCHANGED sample
      BY <2>1, <2>8
    <3>2. TypeOK'
      BY <1>2, <2>2, <2>4, <3>1 DEF TypeOK, IInv, CsvStreams
    <3>3. captured = target /\ ~csv'.reset => history \subseteq {Current'}
      BY <1>2, <2>3, <2>4, <2>6, <2>8 DEF OriginInv, IInv
    <3>4. OriginInv'
      BY <1>2, <3>1, <3>3 DEF OriginInv, IInv
    <3> QED BY <2>5, <3>2, <3>4 DEF IInv
  <2> QED BY <2>7, <2>8
<1> QED BY <1>1, <1>3, <1>4 DEF Rows

LEMMA RecordIInv ==
  ASSUME IInv, Record
  PROVE  IInv'
<1> USE CaptureAssumption DEF IInv, Record, captureVars
<1>1. /\ UNCHANGED <<target, loop, monitor, unread, goal, captured, stopping, csv, stretch>>
      /\ reader' = "top" /\ sample' = NoSample /\ reader = "recording"
  OBVIOUS
<1>2. /\ Current = [game |-> captured, chain |-> sample.from, stretch |-> stretch[sample.from]]
      /\ Current \in Origins /\ Current.game = captured /\ ~csv.reset
  BY DEF Current, OriginInv, TargetInv, TypeOK, Origins
<1>3. /\ history' \subseteq {Current} /\ history' \subseteq history \cup {Current}
      /\ low' \subseteq history' /\ lowAge' \in 0 .. LowPeriod
  <2>1. CASE sample.new
    <3>1. history' = {Current} /\ low' = {} /\ lowAge' = LowPeriod
      BY <1>2, <2>1
    <3> QED BY <3>1
  <2>2. CASE ~sample.new
    <3>1. history' \in {history, history \cup {Current}} /\ UNCHANGED <<low, lowAge>>
      BY <1>2, <2>2
    <3>2. history \subseteq {Current} /\ low \subseteq history /\ lowAge \in 0 .. LowPeriod
      BY <1>1, <2>2 DEF OriginInv, LowIsOfHistory, TypeOK
    <3> QED BY <3>1, <3>2
  <2> QED BY <2>1, <2>2
<1> HIDE DEF IInv, Record
<1>4. TypeOK'
  <2>1. NoSample \in [new : BOOLEAN, from : Chains \cup {"none"}]
    BY DEF NoSample
  <2>2. history' \subseteq Origins /\ low' \subseteq Origins
    BY <1>2, <1>3
  <2> QED BY <1>1, <1>3, <2>1, <2>2 DEF TypeOK, IInv
<1>5. StreamInv' /\ TargetInv'
  BY <1>1 DEF StreamInv, TargetInv, IInv
<1>6. Current' = Current
  BY <1>1 DEF Current
<1>7. OriginInv'
  BY <1>1, <1>3, <1>6 DEF OriginInv
<1>8. HistoryIsOfTarget' /\ LowIsOfHistory'
  BY <1>1, <1>2, <1>3 DEF HistoryIsOfTarget, LowIsOfHistory, TargetInv, IInv
<1> QED BY <1>4, <1>5, <1>7, <1>8 DEF IInv

LEMMA TickIInv ==
  ASSUME IInv, Tick
  PROVE  IInv'
<1> USE CaptureAssumption DEF IInv, Tick, captureVars
<1>1. /\ UNCHANGED <<target, loop, monitor, unread, reader, goal, captured, stopping, sample,
                     history, low, stretch>>
      /\ csv' = [csv EXCEPT !.window = Capped(csv.window, Window),
                            !.quiet = Capped(csv.quiet, Silence + 1)]
      /\ lowAge' = Capped(lowAge, LowPeriod)
  OBVIOUS
<1>2. csv \in CsvStreams /\ lowAge \in 0 .. LowPeriod
  BY DEF TypeOK, CsvStreams
<1> HIDE DEF IInv, Tick
<1>3. csv' = [selected |-> csv.selected, counts |-> csv.counts, window |-> Capped(csv.window, Window),
              quiet |-> Capped(csv.quiet, Silence + 1), reset |-> csv.reset]
  BY <1>1, <1>2 DEF CsvStreams
<1>4. /\ Capped(csv.window, Window) \in 0 .. Window
      /\ Capped(csv.quiet, Silence + 1) \in 0 .. Silence + 1
      /\ Capped(lowAge, LowPeriod) \in 0 .. LowPeriod
      /\ csv.window >= Window => Capped(csv.window, Window) >= Window
  BY <1>2 DEF Capped, CsvStreams
<1>5. csv' \in CsvStreams
  BY <1>2, <1>3, <1>4 DEF CsvStreams
<1>6. csv'.selected = csv.selected /\ csv'.counts = csv.counts /\ csv'.reset = csv.reset
      /\ csv'.window = Capped(csv.window, Window)
  BY <1>3
<1>7. TypeOK'
  BY <1>1, <1>4, <1>5 DEF TypeOK, IInv, CsvStreams
<1>8. Current' = Current
  BY <1>1, <1>6 DEF Current
<1>9. StreamInv'
  BY <1>1, <1>4, <1>6 DEF StreamInv, IInv
<1>10. TargetInv' /\ HistoryIsOfTarget' /\ LowIsOfHistory'
  BY <1>1 DEF TargetInv, HistoryIsOfTarget, LowIsOfHistory, IInv
<1>11. OriginInv'
  BY <1>1, <1>6, <1>8 DEF OriginInv, IInv
<1> QED BY <1>7, <1>9, <1>10, <1>11 DEF IInv

\* The loop: Stop takes the target from the reader before it waits for its end, and
\* Start gives the next one an empty history.
LEMMA LoopIInv ==
  ASSUME IInv, LoopNext
  PROVE  IInv'
<1> USE CaptureAssumption DEF IInv, captureVars, readVars, keptVars
<1>1. ASSUME NEW p \in Targets, SetTarget(p) PROVE IInv'
  <2>1. /\ UNCHANGED <<monitor, unread, reader, captured, sample, csv, history, low, lowAge, stretch>>
        /\ goal' = p /\ loop' = "stopping" /\ target' = "none" /\ stopping' = TRUE
    BY <1>1 DEF SetTarget
  <2>2. TypeOK'
    <3>1. stopping' \in BOOLEAN
      BY <2>1, Zenon
    <3> QED BY <2>1, <3>1 DEF TypeOK, Targets
  <2>3. reader # "none" => captured # "none"
    BY DEF TargetInv
  <2>4. StreamInv' /\ TargetInv' /\ OriginInv'
    BY <2>1, <2>3 DEF StreamInv, TargetInv, OriginInv, Current
  <2>5. HistoryIsOfTarget' /\ LowIsOfHistory'
    BY <2>1 DEF HistoryIsOfTarget, LowIsOfHistory
  <2> QED BY <2>2, <2>4, <2>5
<1>2. CASE AwaitMonitor
  <2>1. /\ UNCHANGED <<target, unread, goal, captured, stopping, sample, csv, history, low, lowAge, stretch>>
        /\ loop = "stopping" /\ loop' = "joining" /\ monitor' \in {"none", "running", "dead"}
        /\ reader' = reader \/ (reader = "reading" /\ reader' = "ended")
    BY <1>2 DEF AwaitMonitor, TypeOK
  <2> QED BY <2>1 DEF TypeOK, StreamInv, TargetInv, OriginInv, Current, HistoryIsOfTarget, LowIsOfHistory
<1>3. CASE JoinReader
  <2>1. /\ loop' = "idle" /\ unread' = NoRow /\ stopping' = FALSE
        /\ history' = {} /\ low' = {} /\ lowAge' = LowPeriod /\ target' = goal
        /\ sample' = NoSample /\ csv' = NewStream /\ goal' = "none"
        /\ stretch' = [c \in Chains |-> 0]
    BY <1>3 DEF JoinReader, Clear
  <2>2. \/ /\ monitor' = "running" /\ reader' = "top" /\ captured' = goal /\ goal \in Games
        \/ monitor' = "none" /\ reader' = "none" /\ captured' = "none"
    BY <1>3 DEF JoinReader, Start, TypeOK, Targets
  <2> HIDE DEF IInv
  <2>3. csv' \in CsvStreams /\ sample' \in [new : BOOLEAN, from : Chains \cup {"none"}]
    BY <2>1 DEF NewStream, CsvStreams, NoSample
  <2>4. TypeOK'
    <3>1. stopping' \in BOOLEAN
      BY <2>1, Zenon
    <3>2. /\ target' \in Targets /\ goal' \in Targets /\ captured' \in Targets
          /\ loop' \in {"idle", "stopping", "joining"} /\ monitor' \in {"none", "running", "dead"}
          /\ unread' \in Rows \cup {NoRow}
          /\ reader' \in {"none", "top", "reading", "recording", "ended"}
          /\ history' \subseteq Origins /\ low' \subseteq Origins
          /\ lowAge' \in 0 .. LowPeriod /\ stretch' \in [Chains -> {0, 1}]
      BY <2>1, <2>2 DEF Targets, TypeOK, IInv
    <3> QED BY <2>3, <3>1, <3>2 DEF TypeOK, CsvStreams
  <2>5. StreamInv' /\ TargetInv' /\ OriginInv'
    BY <2>1, <2>2 DEF StreamInv, TargetInv, OriginInv, NewStream, NoRow
  <2>6. HistoryIsOfTarget' /\ LowIsOfHistory'
    BY <2>1 DEF HistoryIsOfTarget, LowIsOfHistory
  <2> QED BY <2>4, <2>5, <2>6 DEF IInv
<1>4. CASE Snapshot
  <2>1. /\ UNCHANGED <<target, loop, monitor, unread, reader, goal, captured, stopping, sample, csv,
                       history, stretch>>
        /\ low' \in {{}, history} /\ lowAge' = 0
    BY <1>4 DEF Snapshot
  <2> QED BY <2>1 DEF TypeOK, StreamInv, TargetInv, OriginInv, Current, HistoryIsOfTarget, LowIsOfHistory
<1> QED BY <1>1, <1>2, <1>3, <1>4 DEF LoopNext

LEMMA NextIInv == IInv /\ [Next]_vars => IInv'
<1> SUFFICES ASSUME IInv, [Next]_vars PROVE IInv'
  OBVIOUS
<1>1. CASE UNCHANGED vars
  BY <1>1 DEF vars, captureVars, readVars, keptVars, IInv, TypeOK, StreamInv, TargetInv, OriginInv,
     Current, HistoryIsOfTarget, LowIsOfHistory
<1>2. CASE Next
  BY <1>2, PipeIInv, ReadRowIInv, RecordIInv, TickIInv, LoopIInv DEF Next, ReaderNext
<1> QED BY <1>1, <1>2

LEMMA Invariance == Spec => []IInv
<1> QED BY InitIInv, NextIInv, PTL DEF Spec

\* A history without two different origins has at most one.
LEMMA OneOrigin ==
  ASSUME \A o, p \in history : o = p
  PROVE  OneStream
<1>1. CASE history = {}
  BY <1>1, FS_EmptySet DEF OneStream
<1>2. CASE history # {}
  <2>1. PICK o \in history : history = {o}
    BY <1>2
  <2>2. Cardinality(history) = 1
    BY <2>1, FS_Singleton
  <2> QED BY <2>2 DEF OneStream
<1> QED BY <1>1, <1>2

(* RecordInterval looks at the target before it takes the mutex, and SetTarget, Stop and  *)
(* Start may come in between: for any games, the history that the loop publishes is of      *)
(* its target (presentmon_fps_runner.cpp:203-227, 322-380).                                      *)
THEOREM HistoryOfTarget == Spec => []HistoryIsOfTarget
<1>1. IInv => HistoryIsOfTarget
  BY DEF IInv
<1> QED BY Invariance, <1>1, PTL

(* The statistics never combine two chains, two stretches of one chain or two games, and *)
(* the cached low is of the history it is published with, for any number of chains, any     *)
(* length of the windows and whichever way a chain takes over                                *)
(* (presentmon_fps_runner.cpp:151-171, 337-380).                                             *)
THEOREM OneStreamStatistics == Spec => []StatisticsAreOfOneStream
<1>1. IInv => StatisticsAreOfOneStream
  BY OneOrigin DEF IInv, OriginInv, StatisticsAreOfOneStream
<1> QED BY Invariance, <1>1, PTL
=============================================================================
