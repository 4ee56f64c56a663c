----------------------------- MODULE FpsCapture -----------------------------
(***************************************************************************)
(* The capture of a game's frame rate (presentmon_fps_runner.cpp): the     *)
(* service's loop starts PresentMon for the target (SetTarget, Start) and  *)
(* stops it (Stop), a reader thread follows its output (ReadOutput), picks *)
(* one of the game's swap chains (PresentMonCsvStream::Consume) and keeps  *)
(* a history of frame intervals (RecordInterval), from which the loop      *)
(* computes what it publishes (Snapshot).                                  *)
(*                                                                         *)
(* An interval is reduced to its origin: the game, the swap chain and the  *)
(* continuous stretch of that chain's presents it belongs to.  A row of    *)
(* output is a present, or the trace of a discontinuity: a present that    *)
(* arrives too late to be used or follows a gap longer than the history.   *)
(* Rows that Consume ignores before it looks at the chain are left out.    *)
(***************************************************************************)
EXTENDS Integers, FiniteSets

CONSTANTS Games,      \* process ids
          Chains,     \* swap chains of a game
          MaxStreams, \* chains counted in a window (8 in the code)
          Window,     \* one second, in ticks: a window of the chains' counts
          Silence,    \* 2.5 seconds, in ticks: then another chain takes over
          LowPeriod,  \* one second, in ticks: the 1% low is cached that long
          MaxRows     \* bound on the presents in a window

ASSUME CaptureAssumption ==
  /\ "none" \notin Games /\ "none" \notin Chains
  /\ MaxStreams \in Nat \ {0} /\ Window \in Nat \ {0}
  /\ Silence \in Nat /\ LowPeriod \in Nat \ {0} /\ MaxRows \in Nat

VARIABLES target,   \* target_process_id_
          loop,     \* the service's loop: "idle", or in Stop
          goal,     \* the target SetTarget was called with
          monitor,  \* the PresentMon process: "none", "running", "dead"
          unread,   \* the row in the pipe
          reader,   \* the reader thread
          stopping, \* its stop token
          captured, \* the process id it was started with
          sample,   \* the interval it is about to record
          csv,      \* its PresentMonCsvStream
          history,  \* origins of the intervals kept
          low,      \* origins of the intervals the cached 1% low is of
          lowAge,   \* ticks since it was computed
          stretch   \* ghost: the current stretch of each chain's presents

captureVars == <<goal, captured, stopping>>
readVars    == <<sample, csv>>
keptVars    == <<history, low, lowAge>>
vars == <<target, loop, monitor, unread, reader, captureVars, readVars,
          keptVars, stretch>>

-----------------------------------------------------------------------------
Targets == Games \cup {"none"}
Rows    == [chain : Chains, kind : {"present", "discontinuity"}]
Origins == [game : Games, chain : Chains, stretch : {0, 1}]
NoRow   == [chain |-> "none", kind |-> "none"]
NoSample == [new |-> FALSE, from |-> "none"]

Capped(n, bound) == IF n < bound THEN n + 1 ELSE bound

\* The chain followed, the presents of each chain in this window, the ticks
\* since the window began and since the chain last gave a sample, and whether
\* the next sample starts a new history.
NewStream ==
  [selected |-> "none", counts |-> [c \in Chains |-> 0], window |-> 0,
   quiet |-> Silence + 1, reset |-> TRUE]

Counted(s) == {c \in Chains : s.counts[c] > 0}

Init ==
  /\ target = "none" /\ loop = "idle" /\ goal = "none"
  /\ monitor = "none" /\ unread = NoRow
  /\ reader = "none" /\ stopping = FALSE /\ captured = "none"
  /\ sample = NoSample /\ csv = NewStream
  /\ history = {} /\ low = {} /\ lowAge = LowPeriod
  /\ stretch = [c \in Chains |-> 0]

-----------------------------------------------------------------------------
\* PresentMonCsvStream::Consume, for a present of chain c.

\* The first chain seen is followed, and the present is counted.
Count(s, c) ==
  LET first == IF s.selected = "none"
                 THEN [s EXCEPT !.selected = c, !.window = 0] ELSE s
  IN  IF c \in Counted(s) \/ Cardinality(Counted(s)) < MaxStreams
        THEN [first EXCEPT !.counts[c] = @ + 1] ELSE first

\* Mutant: the history goes on when another chain takes over.
ElectSilently(s, best) ==
  IF s.window < Window THEN s
  ELSE [s EXCEPT !.counts = [c \in Chains |-> 0], !.window = 0,
                 !.selected = IF s.counts[best] > 2 * s.counts[@] THEN best ELSE @]

\* Mutant: the next window goes on counting where this one ended.
ElectKeepingCounts(s, best) ==
  LET wins == best # s.selected /\ s.counts[best] > 2 * s.counts[s.selected]
  IN  IF s.window < Window THEN s
      ELSE [s EXCEPT !.window = 0, !.selected = IF wins THEN best ELSE @,
                     !.reset = @ \/ wins]

\* At the end of a window the busiest chain takes over if it presented more
\* than twice as often as the one followed.
Elect(s, best) ==
  LET wins == best # s.selected /\ s.counts[best] > 2 * s.counts[s.selected]
  IN  IF s.window < Window THEN s
      ELSE [s EXCEPT !.counts = [c \in Chains |-> 0], !.window = 0,
                     !.selected = IF wins THEN best ELSE @,
                     !.reset = @ \/ wins]

\* A chain that has been silent for too long is given up for the present one.
Follow(s, c) ==
  IF c # s.selected /\ s.quiet > Silence
    THEN [s EXCEPT !.selected = c, !.reset = TRUE] ELSE s

Busiest(s) == {b \in Chains : \A c \in Chains : s.counts[c] <= s.counts[b]}

\* The stream after a present of chain c.
Streams(c) ==
  LET counted == Count(csv, c)
  IN  {Follow(Elect(counted, b), c) : b \in Busiest(counted)}

\* The stream after a discontinuity of chain c.
Interrupted(c) == [csv EXCEPT !.reset = @ \/ c = csv.selected]

-----------------------------------------------------------------------------
\* PresentMon and the reader thread.

\* The game presents a frame, or PresentMon loses some, and a row of it
\* reaches the pipe.
Emit ==
  /\ monitor = "running" /\ unread = NoRow
  /\ \E row \in Rows :
       /\ row.kind = "present" => \/ csv.window >= Window
                                  \/ \A c \in Chains : csv.counts[c] < MaxRows
       /\ unread' = row
  /\ UNCHANGED <<target, loop, monitor, reader, captureVars, readVars, keptVars,
                 stretch>>

\* It ends with the game, when its session is stopped, or by itself.
MonitorExit ==
  /\ monitor = "running" /\ monitor' = "dead"
  /\ UNCHANGED <<target, loop, unread, reader, captureVars, readVars, keptVars,
                 stretch>>

CheckToken ==
  /\ reader = "top"
  /\ reader' = IF stopping THEN "ended" ELSE "reading"
  /\ UNCHANGED <<target, loop, monitor, unread, captureVars, readVars, keptVars,
                 stretch>>

\* A row is read and consumed; a sample of the target is to be recorded.  The
\* target is looked at here, before RecordInterval takes the mutex.
ReadRow ==
  /\ reader = "reading" /\ unread # NoRow
  /\ unread' = NoRow
  /\ IF unread.kind = "discontinuity"
       THEN /\ csv' = Interrupted(unread.chain)
            /\ stretch' = [stretch EXCEPT ![unread.chain] = 1 - @]
            /\ reader' = "top" /\ UNCHANGED sample
       ELSE /\ UNCHANGED stretch
            /\ \E s \in Streams(unread.chain) :
                 IF unread.chain # s.selected
                   THEN csv' = s /\ reader' = "top" /\ UNCHANGED sample
                   ELSE /\ csv' = [s EXCEPT !.reset = FALSE, !.quiet = 0]
                        /\ IF captured = target
                             THEN /\ reader' = "recording"
                                  /\ sample' = [new |-> s.reset, from |-> unread.chain]
                             ELSE reader' = "top" /\ UNCHANGED sample
  /\ UNCHANGED <<target, loop, monitor, captureVars, keptVars>>

\* Mutant: the cached 1% low survives the history it was computed from.
RecordKeepingLow ==
  /\ reader = "recording"
  /\ LET origin == [game |-> captured, chain |-> sample.from,
                    stretch |-> stretch[sample.from]]
     IN  history' \in IF sample.new THEN {{origin}}
                                    ELSE {history, history \cup {origin}}
  /\ reader' = "top" /\ sample' = NoSample
  /\ UNCHANGED <<target, loop, monitor, unread, captureVars, csv, low, lowAge,
                 stretch>>

\* RecordInterval, under the mutex.  A present older than the last one is
\* left out.
Record ==
  /\ reader = "recording"
  /\ LET origin == [game |-> captured, chain |-> sample.from,
                    stretch |-> stretch[sample.from]]
     IN  IF sample.new
           THEN history' = {origin} /\ low' = {} /\ lowAge' = LowPeriod
           ELSE /\ history' \in {history, history \cup {origin}}
                /\ UNCHANGED <<low, lowAge>>
  /\ reader' = "top" /\ sample' = NoSample
  /\ UNCHANGED <<target, loop, monitor, unread, captureVars, csv, stretch>>

\* The pipe is broken, or an unterminated line has grown too long.
ReaderEnds ==
  /\ reader = "reading" /\ (monitor = "dead" => unread = NoRow)
  /\ monitor = "dead" \/ unread # NoRow
  /\ reader' = "ended"
  /\ UNCHANGED <<target, loop, monitor, unread, captureVars, readVars, keptVars,
                 stretch>>

-----------------------------------------------------------------------------
\* The service's loop.

\* SetTarget does nothing if the target is captured already; otherwise it
\* stops the capture and starts another.  A capture that ended by itself is
\* started again, a failed start only after a while.
SetTarget(p) ==
  /\ loop = "idle"
  /\ p # target \/ (p # "none" /\ monitor # "running")
  /\ goal' = p /\ loop' = "stopping"
  /\ target' = "none" /\ stopping' = TRUE
  /\ UNCHANGED <<monitor, unread, reader, captured, readVars, keptVars, stretch>>

\* Mutant: the process is neither awaited nor terminated.
AwaitMonitorOnly ==
  /\ loop = "stopping" /\ monitor # "running"
  /\ loop' = "joining"
  /\ UNCHANGED <<target, monitor, unread, reader, captureVars, readVars,
                 keptVars, stretch>>

\* Stop waits for PresentMon, whose session it has stopped, terminates it if
\* that takes too long, and cancels a read that is still under way.
AwaitMonitor ==
  /\ loop = "stopping"
  /\ loop' = "joining"
  /\ monitor' = IF monitor = "running" THEN "dead" ELSE monitor
  /\ reader' \in IF reader = "reading" THEN {"reading", "ended"} ELSE {reader}
  /\ UNCHANGED <<target, unread, captureVars, readVars, keptVars, stretch>>

\* Start: a new process, pipe and reader, or nothing.
Start(p) ==
  \/ /\ p # "none"
     /\ monitor' = "running" /\ reader' = "top" /\ captured' = p
  \/ monitor' = "none" /\ reader' = "none" /\ captured' = "none"

\* Mutant: only what was computed from the history is cleared.
ClearLowOnly == UNCHANGED history /\ low' = {} /\ lowAge' = LowPeriod

Clear == history' = {} /\ low' = {} /\ lowAge' = LowPeriod

\* The reader has been joined: the rest of Stop, and SetTarget's Start.
JoinReader ==
  /\ loop = "joining" /\ reader \in {"none", "ended"}
  /\ loop' = "idle" /\ unread' = NoRow /\ stopping' = FALSE
  /\ Clear /\ target' = goal /\ Start(goal)
  /\ sample' = NoSample /\ csv' = NewStream
  /\ goal' = "none" /\ stretch' = [c \in Chains |-> 0]

\* Snapshot computes the 1% low of the history at most once a period; a short
\* history has none.
Snapshot ==
  /\ loop = "idle" /\ target # "none" /\ history # {} /\ lowAge >= LowPeriod
  /\ low' \in {{}, history} /\ lowAge' = 0
  /\ UNCHANGED <<target, loop, monitor, unread, reader, captureVars, readVars,
                 history, stretch>>

Tick ==
  /\ csv' = [csv EXCEPT !.window = Capped(@, Window),
                        !.quiet = Capped(@, Silence + 1)]
  /\ lowAge' = Capped(lowAge, LowPeriod)
  /\ UNCHANGED <<target, loop, monitor, unread, reader, captureVars, sample,
                 history, low, stretch>>

-----------------------------------------------------------------------------
ReaderNext == CheckToken \/ ReadRow \/ Record \/ ReaderEnds

LoopNext ==
  \/ \E p \in Targets : SetTarget(p)
  \/ AwaitMonitor \/ JoinReader \/ Snapshot

Next == Emit \/ MonitorExit \/ ReaderNext \/ LoopNext \/ Tick

\* The reader runs, and a Stop that has been entered goes on.
Fairness ==
  WF_vars(ReaderNext) /\ WF_vars(AwaitMonitor) /\ WF_vars(JoinReader)

Spec == Init /\ [][Next]_vars /\ Fairness

-----------------------------------------------------------------------------
TypeOK ==
  /\ target \in Targets /\ goal \in Targets /\ captured \in Targets
  /\ loop \in {"idle", "stopping", "joining"}
  /\ monitor \in {"none", "running", "dead"}
  /\ unread \in Rows \cup {NoRow} /\ stopping \in BOOLEAN
  /\ reader \in {"none", "top", "reading", "recording", "ended"}
  /\ sample \in [new : BOOLEAN, from : Chains \cup {"none"}]
  /\ csv \in [selected : Chains \cup {"none"}, counts : [Chains -> 0 .. MaxRows + 1],
              window : 0 .. Window, quiet : 0 .. Silence + 1, reset : BOOLEAN]
  /\ history \subseteq Origins /\ low \subseteq Origins
  /\ lowAge \in 0 .. LowPeriod /\ stretch \in [Chains -> {0, 1}]

\* What the comment on PresentMonCsvStream promises: the statistics never
\* combine two swap chains, and no discontinuity of one either.
OneStream == Cardinality(history) <= 1

\* The history is of the target in effect: an interval of the game captured
\* before never survives into the next capture.
HistoryIsOfTarget ==
  loop = "idle" => \A o \in history : o.game = target

\* The cached 1% low was computed from the stream it is published with.
LowIsOfHistory == low \subseteq history

\* The statistics are of one stream, in states of the right types: see the
\* parts.
StatisticsAreOfOneStream == TypeOK /\ OneStream /\ LowIsOfHistory

\* Stop ends: the loop is never left waiting for the reader.
StopEnds == (loop # "idle") ~> (loop = "idle")
=============================================================================
