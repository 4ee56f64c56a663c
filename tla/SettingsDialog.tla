--------------------------- MODULE SettingsDialog ---------------------------
(***************************************************************************)
(* The choice of what is displayed: clicks in the main window's table, and    *)
(* the settings dialog.  A dialog edits a copy of the settings, made when it    *)
(* opened, and is given the window's own snapshot; its message loop lets new     *)
(* snapshots be handled meanwhile, and the lists it filled when it opened refer   *)
(* to positions in that snapshot.  The tray's menu opens a second dialog inside    *)
(* the loop of the first: all of them take input, the innermost loop has to end     *)
(* first, and its end enables the main window under the dialogs that are left.       *)
(* The window takes over the latest published snapshot in most of its handlers.       *)
(***************************************************************************)
EXTENDS SensorDisplay, FiniteSets

CONSTANTS Layouts,     \* the snapshots that may be published
          Initially,   \* the settings at start-up
          Imports,     \* the settings a file may hold
          MaxEdits     \* bound on what the user does

\* The sensors of a snapshot have identifiers of their own, which each provider
\* makes of its domain and what it numbers.
Snapshots == {snap \in Seq([id : Sensors, ok : BOOLEAN]) : IsInjective(Ids(snap))}

ASSUME DialogAssumption ==
    /\ MaxEdits \in Nat /\ Initially \in Imports /\ Imports \subseteq Settings
    /\ <<>> \in Layouts /\ Layouts \subseteq Snapshots

VARIABLES
    settings,   \* settings_ of the main window
    snapshot,   \* ui_snapshot_
    dialogs,    \* the DialogStates of the open dialogs, the innermost loop's last
    enabled,    \* the main window takes input
    tray,       \* the tray panel: whether it is visible, its snapshot and its rows
    edits,      \* how much the user did (bound)
    unstarred   \* sensors whose star the user took away (history)

dialogVars == <<settings, snapshot, dialogs, enabled, tray, edits, unstarred>>

Boxes == {"fps", "low", "separate", "floating", "graph"}
BoxesOf(st) == {b \in Boxes : st[b]}
Transfers == {"none", "export", "import"}

\* A dialog: its draft, the entries of its sensor list and which of them are chosen,
\* its order list, its boxes, the sensors it offers for the graph and those chosen.
\* The rest is history: the settings it opened with and what was unstarred then,
\* whether the user changed nothing and the sensors stayed where they were, and
\* whether the draft was imported.
Dialogs == [draft : Settings, list : Seq(Nat), chosen : SUBSET Nat, rank : Lists,
            boxes : SUBSET Boxes, graphList : Seq(Sensors), sources : SUBSET Sensors,
            transfer : Transfers, done : BOOLEAN, saved : BOOLEAN,
            base : Settings, unstarred : SUBSET Sensors,
            quiet : BOOLEAN, steady : BOOLEAN, imported : BOOLEAN]

\* The tray panel keeps a snapshot of its own while it is visible.
Hidden == [visible |-> FALSE, snap |-> <<>>, rows |-> <<>>]

DialogTypeOK ==
    /\ settings \in Settings /\ snapshot \in Layouts
    /\ dialogs \in Seq(Dialogs) /\ enabled \in BOOLEAN
    /\ \A k \in DOMAIN dialogs : /\ dialogs[k].chosen \subseteq DOMAIN dialogs[k].list
                                 /\ ToSet(dialogs[k].rank) \cap FrameRates = {}
    /\ tray \in [visible : BOOLEAN, snap : Layouts, rows : Lists] /\ Len(tray.rows) <= TrayRowsMax
    /\ edits \in 0..MaxEdits /\ unstarred \subseteq Sensors

DialogInit ==
    /\ settings = Initially
    /\ snapshot = <<>>
    /\ dialogs = <<>> /\ enabled = TRUE
    /\ tray = Hidden
    /\ edits = 0 /\ unstarred = {}

Edit == edits < MaxEdits /\ edits' = edits + 1

TrayOf(snap, st) == [visible |-> TRUE, snap |-> snap, rows |-> RefreshRows(snap, st)]
TrayRefreshed(snap, st) == IF tray.visible THEN TrayOf(snap, st) ELSE tray

\* SnapshotStore::ReadLatest: whatever has been published by now.
ReadLatest == snapshot' \in Layouts

\* The main loop or the innermost dialog's serves messages: that dialog is not done.
Running == dialogs # <<>> => ~Last(dialogs).done

-----------------------------------------------------------------------------
(* native_window.cpp *)

\* Whether the sensors stay where they were, for every dialog.
Steady == [k \in DOMAIN dialogs |->
              [dialogs[k] EXCEPT !.steady = @ /\ Ids(snapshot') = Ids(snapshot)]]

\* A published snapshot is handled, whether or not a dialog is open.
HandleSnapshotMessage ==
    /\ Running /\ ReadLatest
    /\ settings' = InitializeDefaultFavorites(snapshot', settings)
    /\ tray' = TrayRefreshed(snapshot', settings')
    /\ dialogs' = Steady
    /\ UNCHANGED <<enabled, edits, unstarred>>

\* Drawing the window reads the latest snapshot, also under a dialog.
Render == /\ Running /\ ReadLatest
          /\ dialogs' = Steady
          /\ UNCHANGED <<settings, enabled, tray, edits, unstarred>>

\* A click on a sensor's row.
ClickOsd(s) ==
    /\ Running /\ enabled /\ Edit /\ ReadLatest /\ Contains(Ids(snapshot'), s)
    /\ settings' = SetSensorSelectedForOsd(s, settings, ~IsSensorSelectedForOsd(s, settings))
    /\ dialogs' = Steady
    /\ UNCHANGED <<enabled, tray, unstarred>>

\* Mutant: the defaults may still be initialised after the user chose.
StarredOnly(s) == [settings EXCEPT !.favs = IF Contains(@, s) THEN RemoveId(@, s) ELSE AddId(@, s)]
Starred(s) == [settings EXCEPT !.favs = IF Contains(@, s) THEN RemoveId(@, s) ELSE AddId(@, s),
                               !.inited = TRUE]

ClickFavorite(s) ==
    /\ Running /\ enabled /\ Edit /\ ReadLatest /\ Contains(Ids(snapshot'), s)
    /\ settings' = Starred(s)
    /\ unstarred' = IF Contains(settings.favs, s) THEN unstarred \cup {s} ELSE unstarred \ {s}
    /\ dialogs' = Steady
    /\ UNCHANGED <<enabled, tray>>

\* The floating graph's own close button, which no dialog disables.
GraphClosed ==
    /\ Running /\ settings.floating /\ Edit
    /\ settings' = [settings EXCEPT !.floating = FALSE]
    /\ UNCHANGED <<snapshot, dialogs, enabled, tray, unstarred>>

\* TrayPanelWindow::Toggle.
ToggleTray ==
    /\ Running /\ Edit /\ ReadLatest
    /\ tray' = IF tray.visible THEN Hidden ELSE TrayOf(snapshot', settings)
    /\ dialogs' = Steady
    /\ UNCHANGED <<settings, enabled, unstarred>>

-----------------------------------------------------------------------------
(* settings_window.cpp *)

\* The order list shows the display's items but the frame rates.
Ranked(snap, st) == Kept(BuildOsdDisplayItems(snap, st), Sensors \ FrameRates)

\* The positions of the sensors that the sensor list shows.
Positions(snap) ==
    Picked([i \in DOMAIN snap |-> i], {i \in DOMAIN snap : snap[i].id \notin FrameRates})
\* Mutant: only what is pinned is chosen in the list.
ChosenIfPinned(list, snap, st) ==
    {n \in DOMAIN list : list[n] <= Len(snap) /\ Contains(st.pins, snap[list[n]].id)}
ChosenIn(list, snap, st) ==
    {n \in DOMAIN list : list[n] <= Len(snap) /\ IsSensorSelectedForOsd(snap[list[n]].id, st)}

\* The sensors offered for the graph: those with a reading, its sources first.
GraphSourceList(snap, st) ==
    LET ids == Shown(snap, Ids(snap))
    IN Kept(ids, st.sources) \o Kept(ids, Sensors \ st.sources)

Opened(snap, st) ==
    [draft |-> st, list |-> Positions(snap), chosen |-> ChosenIn(Positions(snap), snap, st),
     rank |-> Ranked(snap, st), boxes |-> BoxesOf(st), graphList |-> GraphSourceList(snap, st),
     sources |-> st.sources \cap ToSet(GraphSourceList(snap, st)), transfer |-> "none",
     done |-> FALSE, saved |-> FALSE, base |-> st, unstarred |-> unstarred,
     quiet |-> TRUE, steady |-> TRUE, imported |-> FALSE]

\* From the window itself or from the tray's menu, which serves a dialog's loop too.
ShowSettings ==
    /\ Running /\ Edit /\ ReadLatest
    /\ dialogs' = Append(Steady, Opened(snapshot', settings))
    /\ enabled' = FALSE
    /\ UNCHANGED <<settings, tray, unstarred>>

\* The pins are read from the list: the sensors that are now at the positions of
\* the chosen entries.
Pinned(d) == Kept(d.list, {d.list[n] : n \in d.chosen} \cap DOMAIN snapshot)

\* Mutant: the order is left as it is.
OrderKept(d) == d.draft.order
\* SyncOsdOrderFromList, and what Normalize makes of it.
OrderRead(d) == Deduped(Up(MaxIds, d.rank))

\* The graph's sources are the chosen ones that the snapshot still has, as far as they
\* are measured in the unit of the first; without any, they stay.
SourcesRead(d) ==
    LET now == Kept(d.graphList, d.sources \cap ToSet(Ids(snapshot)))
        alike == {s \in Sensors : MeasuredIn[s] = MeasuredIn[Head(now)]}
    IN IF now = <<>> THEN d.draft.sources ELSE ToSet(Up(MaxSources, Kept(now, alike)))

\* ReadControls.  The categories are given up for pins in any case; the pins are
\* left alone when the list is empty.
ReadControls(d) ==
    LET ids == [i \in DOMAIN Pinned(d) |-> snapshot[Pinned(d)[i]].id]
    IN [d.draft EXCEPT !.fps = "fps" \in d.boxes, !.low = "low" \in d.boxes,
                       !.separate = "separate" \in d.boxes, !.floating = "floating" \in d.boxes,
                       !.graph = "graph" \in d.boxes, !.sources = SourcesRead(d),
                       !.easyOn = FALSE, !.easy = {},
                       !.pins = IF d.list = <<>> THEN @ ELSE Up(MaxIds, ids),
                       !.order = OrderRead(d)]

WithRead(d) == [d EXCEPT !.draft = ReadControls(d)]
WithRank(d) == [d EXCEPT !.rank = Ranked(snapshot, d.draft)]

\* One of the dialogs takes a step; the others and the window are left alone.
InDialog(k, d) ==
    /\ Running /\ ~dialogs[k].done
    /\ dialogs' = [dialogs EXCEPT ![k] = d]
    /\ UNCHANGED <<settings, snapshot, enabled, tray, unstarred>>

\* A click chooses one more or one less, or no other.
Clicked(chosen, n) == {IF n \in chosen THEN chosen \ {n} ELSE chosen \cup {n}, {n}}

ChooseSensor(k, n) ==
    /\ Edit
    /\ \E c \in Clicked(dialogs[k].chosen, n) :
          InDialog(k, WithRank(WithRead([dialogs[k] EXCEPT !.chosen = c, !.quiet = FALSE])))

\* EnforceGraphSelection: a choice of too many or of different units is taken back.
Allowed(sel, s) ==
    \/ s \notin sel
    \/ /\ Cardinality(sel) <= MaxSources
       /\ \A t \in sel : {s, t} \subseteq ToSet(Ids(snapshot)) => MeasuredIn[t] = MeasuredIn[s]

ChooseSource(k, s) ==
    /\ Edit
    /\ \E c \in Clicked(dialogs[k].sources, s) :
          InDialog(k, [dialogs[k] EXCEPT !.sources = IF Allowed(c, s) THEN c ELSE c \ {s},
                                         !.quiet = FALSE])

\* The box of the floating graph is read later.
TickBox(k, b) ==
    /\ Edit
    /\ LET d == dialogs[k]
           t == IF b \in d.boxes THEN d.boxes \ {b} ELSE d.boxes \cup {b}
           ticked == [d EXCEPT !.boxes = t, !.quiet = FALSE]
       IN InDialog(k, IF b = "floating" THEN ticked ELSE WithRead(ticked))

\* Only the display's page rebuilds the list on it.
SwitchTab(k) ==
    /\ Edit
    /\ \/ InDialog(k, WithRead(dialogs[k]))
       \/ InDialog(k, WithRank(WithRead(dialogs[k])))

\* An entry is dragged to another place.
DragOrder(k, i, j) ==
    /\ Edit /\ i # j
    /\ LET r == InsertAt(RemoveAt(dialogs[k].rank, i), j, dialogs[k].rank[i])
       IN InDialog(k, [dialogs[k] EXCEPT !.rank = r, !.draft.order = Up(MaxIds, r),
                                         !.quiet = FALSE])

StartTransfer(k, kind) ==
    /\ Edit /\ dialogs[k].transfer = "none"
    /\ LET d == IF kind = "export" THEN WithRead(dialogs[k]) ELSE dialogs[k]
       IN InDialog(k, [d EXCEPT !.transfer = kind])

\* ApplyDraftToControls, with the settings imported.
Applied(d, st) ==
    WithRank([d EXCEPT !.draft = st, !.boxes = BoxesOf(st),
                       !.chosen = ChosenIn(d.list, snapshot, st),
                       !.sources = st.sources \cap ToSet(d.graphList),
                       !.quiet = FALSE, !.imported = TRUE])

\* The dialog's timer finds the transfer done.  The draft is what was imported.
TransferDone(k) ==
    /\ dialogs[k].transfer # "none" /\ UNCHANGED edits
    /\ LET d == [dialogs[k] EXCEPT !.transfer = "none"]
       IN \/ InDialog(k, d)
          \/ /\ dialogs[k].transfer = "import"
             /\ \E st \in Imports : InDialog(k, Applied(d, st))

Save(k) ==
    /\ dialogs[k].transfer = "none" /\ UNCHANGED edits
    /\ InDialog(k, [WithRead(dialogs[k]) EXCEPT !.saved = TRUE, !.done = TRUE])

Cancel(k) ==
    /\ UNCHANGED edits
    /\ InDialog(k, [dialogs[k] EXCEPT !.done = TRUE])

\* Mutant: the draft is taken from the dialog that was opened first.
Outermost == Head(dialogs)
\* The dialog whose loop runs, or has ended.
Innermost == Last(dialogs)

\* The innermost loop has ended.  The window is enabled, whatever is still open, and
\* what was saved replaces all of its settings.  A star taken away after the dialog
\* had copied them is thereby given back.
DialogReturns ==
    /\ ~Running
    /\ dialogs' = Front(dialogs) /\ enabled' = TRUE
    /\ LET d == Innermost
       IN IF d.saved
            THEN /\ settings' = d.draft
                 /\ tray' = TrayRefreshed(tray.snap, settings')
                 /\ unstarred' = IF d.imported THEN {} ELSE unstarred \cap d.unstarred
            ELSE UNCHANGED <<settings, tray, unstarred>>
    /\ UNCHANGED <<snapshot, edits>>

MainStep == \/ HandleSnapshotMessage \/ Render \/ ShowSettings \/ DialogReturns
            \/ \E s \in Sensors : ClickOsd(s) \/ ClickFavorite(s)
            \/ GraphClosed \/ ToggleTray
StepOf(k) == \/ \E n \in DOMAIN dialogs[k].list : ChooseSensor(k, n)
             \/ \E s \in ToSet(dialogs[k].graphList) : ChooseSource(k, s)
             \/ \E b \in Boxes : TickBox(k, b)
             \/ \E i, j \in DOMAIN dialogs[k].rank : DragOrder(k, i, j)
             \/ \E kind \in {"export", "import"} : StartTransfer(k, kind)
             \/ SwitchTab(k) \/ TransferDone(k) \/ Save(k) \/ Cancel(k)

DialogNext == MainStep \/ \E k \in DOMAIN dialogs : StepOf(k)
DialogSpec == DialogInit /\ [][DialogNext]_dialogVars

-----------------------------------------------------------------------------
Items == BuildOsdDisplayItems(snapshot, settings)

(* However a sensor came to be chosen - by its category, by a pin, by both - it  *)
(* is shown once, on one of the two surfaces, and has one row in the tray panel  *)
(* (osd_model.cpp:72-81, 140-151; tray_panel_window.cpp:133-153).                 *)
NothingShownTwice ==
    /\ IsInjective(Items) /\ IsInjective(tray.rows)
    /\ LET main == BuildOsdSurfaceItems(snapshot, settings, FALSE)
           fps == BuildOsdSurfaceItems(snapshot, settings, TRUE)
       IN ToSet(main) \cap ToSet(fps) = {} /\ ToSet(main) \cup ToSet(fps) = ToSet(Items)

\* A dialog whose list has become stale may pin a frame rate for another sensor;
\* the table then neither marks nor removes it.
PinnedRates == FrameRates \cap ToSet(settings.pins)

(* The mark in the table says of every sensor on the display that it is there,   *)
(* though the two are computed apart (osd_model.cpp:69-151, 153-170).             *)
ShownIsSelected ==
    \A s \in ToSet(Items) \ PinnedRates : IsSensorSelectedForOsd(s, settings)

(* A click takes a selected sensor off the display, even one that a category put *)
(* there, and puts any other on it; the exceptions are a full list of pins and   *)
(* the 1% low without the frame rate.  The frame time is never one of the items:  *)
(* its row switches the display's graph of it (osd_model.cpp:153-197,               *)
(* native_window.cpp:1164-1170).                                                   *)
ClickToggles ==
    [][\A s \in Sensors \ PinnedRates : ClickOsd(s) =>
          LET items == BuildOsdDisplayItems(snapshot', settings')
              selected == IsSensorSelectedForOsd(s, settings)
          IN IF KindOf[s] = "time"
               THEN /\ ~Contains(items, s)
                    /\ selected <=> ~(settings'.graph /\ s \in settings'.sources)
             ELSE IF selected THEN ~Contains(items, s)
             ELSE \/ Contains(items, s) \/ ~Present(snapshot', s)
                  \/ Len(settings.pins) = MaxIds
                  \/ KindOf[s] = "low" /\ ~settings.fps]_dialogVars

(* A star that the user took away does not come back with the categories'        *)
(* defaults, which arrive with their sensors at any time, nor with a dialog that *)
(* was opened since and saved later.  A dialog that was open already has a copy    *)
(* that gives it back: see DialogReturns (native_window.cpp:1151-1158, 1373-1378,          *)
(* sensor_view_model.cpp:98-124).                                                     *)
UnstarredStays == unstarred \cap ToSet(settings.favs) = {}

(* The return of a dialog that was saved with nothing changed in it leaves on the *)
(* display what the settings that it opened with show there, though it turns the *)
(* categories into pins - as long as the sensors kept their places while it was   *)
(* open and the pins suffice (settings_window.cpp:800-809, 901-902, 954-963).       *)
QuietSaveKeepsShown(d) ==
    (/\ d.quiet /\ d.steady /\ d.list # <<>> /\ Cardinality(d.chosen) <= MaxIds)
    => ToSet(BuildOsdDisplayItems(snapshot, d.base)) \ (FrameRates \cap ToSet(d.base.pins))
          \subseteq ToSet(BuildOsdDisplayItems(snapshot, settings'))

(* The sensors that the order list showed, as far as they can be stored, are       *)
(* displayed in its order after the step (settings_window.cpp:141-178, 689-711).     *)
OrderListIsObeyed(d) ==
    LET items == Ranked(snapshot, settings')
        rank == Up(MaxIds, d.rank)
        both == ToSet(items) \cap ToSet(rank)
    IN Kept(items, both) = Kept(rank, both)

(* What the dialog showed when it was saved is what is displayed when it returns,  *)
(* in both respects, whatever happened in the dialogs inside it meanwhile.           *)
SavedAsShown ==
    [][LET d == Last(dialogs)
       IN (DialogReturns /\ d.saved) => QuietSaveKeepsShown(d) /\ OrderListIsObeyed(d)]_dialogVars

(* The table has a row for every sensor, once, if nothing is collapsed; in any    *)
(* case its rows fit into the view's array, which has one place per sensor, one   *)
(* per section and one more (sensor_view_model.hpp:33-37,                           *)
(* sensor_view_model.cpp:126-163).                                                  *)
EverySensorHasARow ==
    LET rows == BuildSensorView(snapshot, settings, {}, FALSE)
        Of(s) == {i \in DOMAIN rows : rows[i].sensor = s}
    IN /\ \A i \in DOMAIN snapshot : Cardinality(Of(snapshot[i].id)) = 1
       /\ \A collapsed \in {{}, ToSet(Sections)} :
             LET view == BuildSensorView(snapshot, settings, collapsed, TRUE)
             IN /\ Len(view) <= Len(snapshot) + Len(Sections) + 1
                /\ \A i \in DOMAIN view : view[i].sensor = "header" =>
                      \/ view[i].section \in collapsed
                      \/ i < Len(view) /\ view[i + 1].section = view[i].section

(* The views agree with one another and with the user's choices: see the four      *)
(* parts.                                                                            *)
DisplayIsConsistent ==
    NothingShownTwice /\ ShownIsSelected /\ UnstarredStays /\ EverySensorHasARow

(* "Preserves OSD sensor selections if Settings opens before the first sensor     *)
(* snapshot arrives." (RELEASE_NOTES_2.0.6.md:11).  The code keeps the pins, but    *)
(* gives up the categories, which are chosen by default                              *)
(* (settings_window.cpp:901-902, 954-955).                                            *)
EarlyDialogKeepsSelection ==
    [][LET d == Last(dialogs)
       IN (DialogReturns /\ d.saved /\ d.quiet /\ d.list = <<>>) =>
          \A s \in Sensors \ FrameRates :
             IsSensorSelectedForOsd(s, d.base) => IsSensorSelectedForOsd(s, settings')]_dialogVars
=============================================================================
