--------------------------- MODULE SensorDisplay ---------------------------
(***************************************************************************)
(* What the views make of a snapshot and the settings: the items of the     *)
(* on-screen display (osd_model.cpp), the rows of the main window's table    *)
(* (sensor_view_model.cpp) and those of the tray panel.  A snapshot is a     *)
(* sequence of sensors, each with or without a reading; names, values and    *)
(* colours are left out.                                                     *)
(***************************************************************************)
EXTENDS Integers, SequencesExt

CONSTANTS Sensors,       \* sensor identities
          KindOf,        \* "fps", "low", "time" (the frame rate, its 1% low and the
                         \* frame time), or the category a sensor belongs to
          MeasuredIn,    \* the unit of a sensor
          SectionOf,     \* the section of the table that lists it
          Sections,      \* all sections, in the order of the table
          MaxIds,        \* kMaximumPinnedSensors, kMaximumFavoriteSensors and
                         \* kMaximumOsdOrderSensors, which are one number
          MaxSources,    \* kMaximumGraphSensors
          TrayRowsMax    \* rows of the tray panel

Categories == {"cpu", "gpu"}
Rates == {"fps", "low", "time"}
Kinds == Categories \cup Rates \cup {"other"}

\* Lists of sensors, none of them twice.
Lists == {ids \in Seq(Sensors) : IsInjective(ids)}
ShortLists == {ids \in Lists : Len(ids) <= MaxIds}

\* The settings these views depend on; Normalize and ParseSensorIds leave no list
\* with a sensor that it has twice.  The graph of the display (osd_graph_enabled)
\* draws the sensors that are its sources.
Settings == [fps : BOOLEAN, low : BOOLEAN, separate : BOOLEAN, easyOn : BOOLEAN,
             easy : SUBSET Categories, pins : ShortLists, order : ShortLists,
             favs : ShortLists, inited : BOOLEAN, completed : SUBSET Categories,
             floating : BOOLEAN, graph : BOOLEAN, sources : SUBSET Sensors]

\* SensorKind::frame_rate.
FrameRates == {s \in Sensors : KindOf[s] \in Rates}

\* The frame rate, its 1% low and the frame time are one sensor each (kFpsSensorId,
\* kFpsOnePercentLowSensorId, kFpsFrameTimeSensorId); the marks of a header and a
\* placeholder are none.
ASSUME DisplayAssumption ==
    /\ KindOf \in [Sensors -> Kinds]
    /\ SectionOf \in [Sensors -> ToSet(Sections)]
    /\ Sections \in Seq(ToSet(Sections)) /\ Sections # <<>> /\ IsInjective(Sections)
    /\ \A s, t \in FrameRates : KindOf[s] = KindOf[t] => s = t
    /\ "header" \notin Sensors /\ "placeholder" \notin Sensors
    /\ DOMAIN MeasuredIn = Sensors
    /\ {MaxIds, MaxSources, TrayRowsMax} \subseteq Nat \ {0}

-----------------------------------------------------------------------------
(* Lists.  What the code does in loops over them is written with recursive     *)
(* functions of the number of turns.                                             *)

\* The elements at the places P, in order; those that are members of A.
Picked(ids, P) ==
    LET pick[n \in 0..Len(ids)] ==
            IF n = 0 THEN <<>>
            ELSE IF n \in P THEN Append(pick[n - 1], ids[n]) ELSE pick[n - 1]
    IN pick[Len(ids)]
Kept(ids, A) == Picked(ids, {i \in DOMAIN ids : ids[i] \in A})

\* Every element where it comes first.
Deduped(ids) == Picked(ids, {i \in DOMAIN ids : \A j \in 1..(i - 1) : ids[j] # ids[i]})
\* Mutant: one more than there is room for.
UpOneMore(n, seq) == SubSeq(seq, 1, IF n < Len(seq) THEN n + 1 ELSE Len(seq))
Up(n, seq) == SubSeq(seq, 1, IF n < Len(seq) THEN n ELSE Len(seq))

Ids(snap) == [i \in DOMAIN snap |-> snap[i].id]
Present(snap, s) == \E i \in DOMAIN snap : snap[i] = [id |-> s, ok |-> TRUE]

-----------------------------------------------------------------------------
(* osd_model.cpp *)

\* Those of a kind, as far as they have a reading.
Shown(snap, ids) == Kept(ids, {s \in Sensors : Present(snap, s)})
OfKind(snap, k) == Kept(Ids(snap), {s \in Sensors : KindOf[s] = k})

\* The first sensor of each chosen category, in the order of the snapshot; if that
\* one has no reading, no other takes its place.
EasyItems(snap, st) ==
    Kept(Ids(snap), {s \in ToSet(Ids(snap)) : /\ st.easyOn /\ KindOf[s] \in st.easy
                                              /\ s = Head(OfKind(snap, KindOf[s]))})

FrameRateItems(snap, st) ==
    IF ~st.fps THEN <<>>
    ELSE Up(1, OfKind(snap, "fps")) \o (IF st.low THEN Up(1, OfKind(snap, "low")) ELSE <<>>)

\* Mutant: a sensor is added for each reason there is to show it.
ItemsForEachReason(snap, st) == Shown(snap, FrameRateItems(snap, st) \o EasyItems(snap, st) \o st.pins)
\* What is shown, before it is put in order.
UnorderedItems(snap, st) ==
    Shown(snap, Deduped(FrameRateItems(snap, st) \o EasyItems(snap, st) \o st.pins))

\* std::stable_sort, if there is an order: frame rates first, then by the place in
\* the order; the sensors that it does not list come last and keep their order.
InOrder(order, ids) ==
    LET hardware == Kept(ids, Sensors \ FrameRates)
    IN IF order = <<>> THEN ids
       ELSE Kept(ids, FrameRates) \o Kept(order, ToSet(hardware))
            \o Kept(hardware, Sensors \ ToSet(order))

BuildOsdDisplayItems(snap, st) == InOrder(st.order, UnorderedItems(snap, st))

BuildOsdSurfaceItems(snap, st, fpsSurface) ==
    LET items == BuildOsdDisplayItems(snap, st)
    IN IF ~st.separate THEN (IF fpsSurface THEN <<>> ELSE items)
       ELSE Kept(items, IF fpsSurface THEN FrameRates ELSE Sensors \ FrameRates)

\* Mutant: the chosen categories are forgotten.
IsSelectedIfPinned(s, st) ==
    CASE KindOf[s] = "fps" -> st.fps
      [] KindOf[s] = "low" -> st.fps /\ st.low
      [] KindOf[s] = "time" -> st.graph /\ s \in st.sources
      [] OTHER -> Contains(st.pins, s)
IsSensorSelectedForOsd(s, st) ==
    CASE KindOf[s] = "fps" -> st.fps
      [] KindOf[s] = "low" -> st.fps /\ st.low
      [] KindOf[s] = "time" -> st.graph /\ s \in st.sources
      [] OTHER -> Contains(st.pins, s) \/ (st.easyOn /\ KindOf[s] \in st.easy)

\* PinSensor and AddFavorite.
AddId(ids, s) == IF Contains(ids, s) \/ Len(ids) >= MaxIds THEN ids ELSE Append(ids, s)
\* Mutant: the count is taken down, but nothing is moved.
RemoveIdUnmoved(ids, s) == IF Contains(ids, s) THEN SubSeq(ids, 1, Len(ids) - 1) ELSE ids
\* UnpinSensor and RemoveFavorite.
RemoveId(ids, s) == Kept(ids, Sensors \ {s})
\* One after another.
AddIds(ids, more) ==
    LET add[n \in 0..Len(more)] == IF n = 0 THEN ids ELSE AddId(add[n - 1], more[n])
    IN add[Len(more)]

\* Mutant: a sensor is unpinned, but its category stays chosen.
SetSelectedPinOnly(s, st, selected) ==
    CASE KindOf[s] = "fps" -> [st EXCEPT !.fps = selected]
      [] KindOf[s] = "low" -> [st EXCEPT !.low = selected]
      [] KindOf[s] = "time" -> [st EXCEPT !.graph = selected, !.sources = {s}]
      [] OTHER -> [st EXCEPT !.pins = IF selected THEN AddId(@, s) ELSE RemoveId(@, s)]
SetSensorSelectedForOsd(s, st, selected) ==
    CASE KindOf[s] = "fps" -> [st EXCEPT !.fps = selected]
      [] KindOf[s] = "low" -> [st EXCEPT !.low = selected]
      [] KindOf[s] = "time" -> [st EXCEPT !.graph = selected, !.sources = {s}]
      [] KindOf[s] \notin Rates /\ selected -> [st EXCEPT !.pins = AddId(@, s)]
      [] OTHER -> [st EXCEPT !.pins = RemoveId(@, s),
                             !.easy = IF st.easyOn THEN @ \ {KindOf[s]} ELSE @]

-----------------------------------------------------------------------------
(* sensor_view_model.cpp *)

\* Categories still to be given their favourite that have a reading now.
NewDefaults(snap, st) ==
    {k \in st.easy \ st.completed : Shown(snap, OfKind(snap, k)) # <<>>}
Default(snap, k) == Head(Shown(snap, OfKind(snap, k)))

InitializeDefaultFavorites(snap, st) ==
    IF st.inited \/ snap = <<>> THEN st
    ELSE LET found == NewDefaults(snap, st)
             added == Kept(Ids(snap), {Default(snap, k) : k \in found})
             done == st.completed \cup found
         IN [st EXCEPT !.favs = AddIds(@, added),
                       !.completed = done,
                       !.inited = st.easy \subseteq done]

\* The rows of one section: its header, and its sensors unless it is collapsed.
Header(sec) == [section |-> sec, sensor |-> "header"]
Row(sec, s) == [section |-> sec, sensor |-> s]
Listed(snap, st, sec, onlyFavorites) ==
    Kept(Ids(snap), {s \in Sensors : SectionOf[s] = sec /\ (onlyFavorites => Contains(st.favs, s))})
Placeholder(snap, sec) == sec = Head(Sections) /\ ~\E i \in DOMAIN snap : SectionOf[snap[i].id] = sec
\* Mutant: a section is listed although nothing in it matches.
SectionRowsAlways(snap, st, sec, collapsed, onlyFavorites) ==
    LET ids == Listed(snap, st, sec, onlyFavorites)
    IN <<Header(sec)>> \o (IF sec \in collapsed THEN <<>>
                           ELSE <<Row(sec, "placeholder")>> \o [i \in DOMAIN ids |-> Row(sec, ids[i])])
SectionRows(snap, st, sec, collapsed, onlyFavorites) ==
    LET ids == Listed(snap, st, sec, onlyFavorites)
        below == IF sec \in collapsed THEN <<>>
                 ELSE IF Placeholder(snap, sec) THEN <<Row(sec, "placeholder")>>
                 ELSE [i \in DOMAIN ids |-> Row(sec, ids[i])]
    IN IF ids = <<>> /\ ~Placeholder(snap, sec) THEN <<>> ELSE <<Header(sec)>> \o below

\* BuildSensorView without a search text.
BuildSensorView(snap, st, collapsed, onlyFavorites) ==
    LET view[n \in 0..Len(Sections)] ==
            IF n = 0 THEN <<>>
            ELSE view[n - 1] \o SectionRows(snap, st, Sections[n], collapsed, onlyFavorites)
    IN view[Len(Sections)]

\* TrayPanelWindow::RefreshRows: favourites first, then the recommended sensors.
RefreshRows(snap, st) ==
    LET recommended == Kept(Ids(snap), {s \in Sensors : KindOf[s] \notin {"time", "other"}})
    IN Up(TrayRowsMax, Shown(snap, Deduped(st.favs \o recommended)))
=============================================================================
