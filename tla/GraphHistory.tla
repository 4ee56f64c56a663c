---------------------------- MODULE GraphHistory ----------------------------
(***************************************************************************)
(* GraphHistory and the floating window that feeds it: each series is a ring *)
(* of samples with their times and a mark where the line is broken.  Snapshots *)
(* come late, again or not at all, sensors are missing from some, the user     *)
(* pauses, resets and hides the graph and changes what it shows.               *)
(*                                                                          *)
(* Only the time of a sample is kept; its value decides nothing.             *)
(***************************************************************************)
EXTENDS Integers, Sequences, FiniteSets

CONSTANTS GraphIds,      \* sensors
          UnitOf,        \* their units
          Capacity,      \* graph_model.hpp: kMaximumSamples
          Histories,     \* values of osd_graph_history_seconds
          RefreshTime,   \* osd_graph_refresh_interval_ms
          StaleTime,     \* stale_after_milliseconds_
          GraphMaxTime   \* bound on the clock

ASSUME GraphAssumption ==
    /\ UnitOf \in [GraphIds -> STRING]
    /\ Capacity \in Nat \ {0} /\ Histories \subseteq Nat \ {0}
    /\ RefreshTime \in Nat \ {0} /\ StaleTime \in Nat \ {0} /\ GraphMaxTime \in Nat \ {0}

VARIABLES
    ids,              \* configured_ids_ and series_count_
    history,          \* history_seconds_
    series,           \* series_
    lastSequence,     \* whether last_snapshot_sequence_ is set
    lastSnapshotTick, lastSampleTick, latestTick,
    paused,
    visible,          \* the window is enabled and visible
    taken,            \* times of the samples of each series since it began (history)
    now               \* GetTickCount64

graphConfig == <<ids, history>>
graphTicks == <<lastSequence, lastSnapshotTick, lastSampleTick, latestTick>>
graphVars == <<graphConfig, series, graphTicks, paused, visible, taken, now>>

Cells == 0..Capacity - 1
Ticks == 0..GraphMaxTime
Empty == [id |-> "none", stamps |-> [c \in Cells |-> 0], breaks |-> [c \in Cells |-> FALSE],
          first |-> 0, count |-> 0, gap |-> FALSE, available |-> FALSE]
Configurations == {<<s>> : s \in GraphIds} \cup {p \in GraphIds \X GraphIds : p[1] # p[2]}

GraphTypeOK ==
    /\ ids \in Configurations /\ history \in Histories
    /\ series \in [1..2 -> [id : GraphIds \cup {"none"}, stamps : [Cells -> Ticks],
                            breaks : [Cells -> BOOLEAN], first : Cells, count : 0..Capacity,
                            gap : BOOLEAN, available : BOOLEAN]]
    /\ lastSequence \in BOOLEAN
    /\ {lastSnapshotTick, lastSampleTick, latestTick} \subseteq Ticks
    /\ paused \in BOOLEAN /\ visible \in BOOLEAN
    /\ taken \in [1..2 -> SUBSET Ticks]
    /\ now \in 1..GraphMaxTime

GraphInit ==
    /\ ids \in Configurations /\ history \in Histories
    /\ series = [i \in 1..2 |-> Empty] /\ taken = [i \in 1..2 |-> {}]
    /\ lastSequence = FALSE
    /\ lastSnapshotTick = 0 /\ lastSampleTick = 0 /\ latestTick = 0
    /\ paused = FALSE /\ visible = TRUE /\ now = 1

-----------------------------------------------------------------------------
\* GraphSeries::Timestamp and BreakBefore, counted from the oldest sample.
Cell(s, k) == (s.first + k - 1) % Capacity
Timestamp(s, k) == s.stamps[Cell(s, k)]
BreakBefore(s, k) == s.breaks[Cell(s, k)]

\* Mutant: the oldest sample's cell does not wrap around.
DropUnwrapped(s) == [s EXCEPT !.first = @ + 1, !.count = @ - 1]
DropOldest(s) == [s EXCEPT !.first = (@ + 1) % Capacity, !.count = @ - 1]

\* AdvanceTime on one series: what is as old as the window goes.
Expired(s, tick) == {k \in 1..s.count : tick - Timestamp(s, k) >= history}
\* Mutant: the time of the ring's first cell is looked at, wherever the oldest is.
AgedAtCell(s, tick) ==
    IF s.count # 0 /\ tick - s.stamps[0] >= history THEN DropOldest(s) ELSE s
Aged(s, tick) == [s EXCEPT !.first = (@ + Cardinality(Expired(s, tick))) % Capacity,
                           !.count = @ - Cardinality(Expired(s, tick))]

Outage(tick) == lastSequence /\ tick - lastSnapshotTick >= StaleTime
\* Mutant: an outage makes the series unavailable but does not break its line.
GapUnmarked(s) == [s EXCEPT !.available = FALSE]
Gap(s) == [s EXCEPT !.available = FALSE, !.gap = TRUE]

Advanced(s, tick) == IF Outage(tick) THEN Gap(Aged(s, tick)) ELSE Aged(s, tick)

\* Mutant: the sample is written to a full ring without dropping one.
InsertedOver(s, id, tick) ==
    LET c == (s.first + s.count) % Capacity
    IN [s EXCEPT !.id = id, !.stamps[c] = tick, !.breaks[c] = s.gap, !.gap = FALSE,
                 !.count = IF @ = Capacity THEN @ ELSE @ + 1, !.available = TRUE]
\* A full ring loses its oldest sample, although it may be within the window.
Inserted(old, id, tick) ==
    LET s == IF old.count = Capacity THEN DropOldest(old) ELSE old
        c == (s.first + s.count) % Capacity
    IN [s EXCEPT !.id = id, !.stamps[c] = tick, !.breaks[c] = s.gap, !.gap = FALSE,
                 !.count = @ + 1, !.available = TRUE]

\* Mutant: without its reference a series is sampled unchecked.
SampledUnchecked(s, i, present, tick) ==
    IF ids[i] \notin present THEN Gap(s)
    ELSE IF ids[1] \in present /\ UnitOf[ids[i]] # UnitOf[ids[1]] THEN Empty
    ELSE Inserted(IF s.id = ids[i] THEN s ELSE Empty, ids[i], tick)
\* Update on one series, of a snapshot with the given sensors: a missing sensor or a
\* missing reference leaves a gap, another unit than the reference's empties the series.
SampledSeries(s, i, present, tick) ==
    IF ids[i] \notin present \/ ids[1] \notin present THEN Gap(s)
    ELSE IF UnitOf[ids[i]] # UnitOf[ids[1]] THEN Empty
    ELSE Inserted(IF s.id = ids[i] THEN s ELSE Empty, ids[i], tick)

-----------------------------------------------------------------------------
AdvanceTime(tick) == /\ latestTick' = tick
                     /\ series' = [i \in 1..2 |-> Advanced(series[i], tick)]

\* A snapshot, in which those of the configured sensors are present, reaches the
\* window: one not seen before, or the last one again.
UpdateGraph(fresh, present) ==
    /\ visible /\ ~paused
    /\ LET new == fresh \/ ~lastSequence
           due == lastSampleTick = 0 \/ now - lastSampleTick >= RefreshTime
       IN /\ lastSequence' = (lastSequence \/ new)
          /\ lastSnapshotTick' = IF new THEN now ELSE lastSnapshotTick
          /\ IF new /\ due
             THEN /\ latestTick' = now /\ lastSampleTick' = now
                  /\ series' = [i \in 1..2 |->
                        IF i <= Len(ids) THEN SampledSeries(Advanced(series[i], now), i, present, now)
                                         ELSE Advanced(series[i], now)]
                  /\ taken' = [i \in 1..2 |-> IF series'[i].available /\ i <= Len(ids)
                                              THEN taken[i] \cup {now}
                                              ELSE IF series'[i] = Empty THEN {} ELSE taken[i]]
             ELSE AdvanceTime(now) /\ UNCHANGED <<lastSampleTick, taken>>
    /\ UNCHANGED <<graphConfig, paused, visible, now>>

\* The window's timer, a second after the graph moved last.
AgeTimer == /\ visible /\ ~paused /\ now > latestTick
            /\ AdvanceTime(now)
            /\ UNCHANGED <<graphConfig, lastSequence, lastSnapshotTick, lastSampleTick,
                           paused, visible, taken, now>>

\* Mutant: Clear forgets the samples but not when the last snapshot came.
ClearSeries == /\ series' = [i \in 1..2 |-> [series[i] EXCEPT !.count = 0]]
               /\ taken' = [i \in 1..2 |-> {}]
               /\ lastSequence' = FALSE
               /\ lastSnapshotTick' = 0 /\ lastSampleTick' = 0 /\ latestTick' = 0
Clear == /\ series' = [i \in 1..2 |-> Empty] /\ taken' = [i \in 1..2 |-> {}]
         /\ lastSequence' = FALSE
         /\ lastSnapshotTick' = 0 /\ lastSampleTick' = 0 /\ latestTick' = 0

Configure(newIds, newHistory) ==
    /\ ids' = newIds /\ history' = newHistory
    /\ IF newIds # ids \/ newHistory # history THEN Clear
       ELSE UNCHANGED <<series, taken, graphTicks>>
    /\ visible' \in BOOLEAN
    /\ UNCHANGED <<paused, now>>

Pause == paused' = ~paused /\ UNCHANGED <<graphConfig, series, graphTicks, visible, taken, now>>
ResetGraph == Clear /\ UNCHANGED <<graphConfig, paused, visible, now>>
\* WM_CLOSE hides the window; a later change of the settings may show it again.
Hide == /\ visible /\ visible' = FALSE
        /\ UNCHANGED <<graphConfig, series, graphTicks, paused, taken, now>>

GraphTick == /\ now < GraphMaxTime /\ now' = now + 1
             /\ UNCHANGED <<graphConfig, series, graphTicks, paused, visible, taken>>

GraphNext ==
    \/ \E fresh \in BOOLEAN, present \in SUBSET {ids[i] : i \in DOMAIN ids} :
          UpdateGraph(fresh, present)
    \/ AgeTimer \/ Pause \/ ResetGraph \/ Hide \/ GraphTick
    \/ \E c \in Configurations, h \in Histories : Configure(c, h)
GraphSpec == GraphInit /\ [][GraphNext]_graphVars

-----------------------------------------------------------------------------
(* The ring holds exactly the samples taken since the series began that are       *)
(* younger than the window, or as many of the latest as fit, oldest first          *)
(* (graph_model.cpp:66-70, 118-127): nothing is lost or resurrected when it wraps.  *)
RingIsTheWindow ==
    \A i \in 1..2 :
        LET s == series[i]
        IN /\ {Timestamp(s, k) : k \in 1..s.count} =
                 {t \in taken[i] : /\ latestTick - t < history
                                   /\ Cardinality({u \in taken[i] : u > t}) < Capacity}
           /\ \A k \in 1..s.count - 1 : Timestamp(s, k) < Timestamp(s, k + 1)

(* "Without inventing a sensor sample during an outage" (graph_model.hpp:43): two    *)
(* samples joined by a line are less apart than a refresh and an outage together,     *)
(* whether the time between them passed without snapshots, paused, hidden or with      *)
(* the sensor missing (graph_model.cpp:71-75, 94-105).                                  *)
LineDoesNotBridge ==
    \A i \in 1..2 : \A k \in 2..series[i].count :
        BreakBefore(series[i], k) \/
        Timestamp(series[i], k) - Timestamp(series[i], k - 1) < RefreshTime + StaleTime

(* "Imported IDs cannot bypass the same-unit graph contract" (graph_model.cpp:107):    *)
(* whatever the graph shows has one unit, also while the first sensor is missing.        *)
UnitsNeverMixed ==
    \A i \in 1..2 : series[i].count # 0 => i <= Len(ids) /\ UnitOf[ids[i]] = UnitOf[ids[1]]

(* A series shown with a current value was in a snapshot less than StaleTime before      *)
(* the time the graph is drawn for (graph_model.cpp:71-75).                               *)
AvailableIsCurrent ==
    \A i \in 1..2 : series[i].available => lastSequence /\ latestTick - lastSnapshotTick < StaleTime

(* The graph's ring is the window of time it stands for, its line joins no samples   *)
(* across an outage, it shows sensors of one unit and calls current only what is       *)
(* (graph_model.cpp:60-138).                                                            *)
GraphIsTrue == RingIsTheWindow /\ LineDoesNotBridge /\ UnitsNeverMixed /\ AvailableIsCurrent
=============================================================================
