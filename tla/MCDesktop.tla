----------------------------- MODULE MCDesktop -----------------------------
(***************************************************************************)
(* One instance for TLC of four machines of the desktop: the graph's history,  *)
(* the choice of what is displayed, the writer of the settings and the           *)
(* download of an update.                                                        *)
(* Each has a state of its own, so a behaviour moves one of them and leaves     *)
(* the others as they began; `part' says which one.                             *)
(***************************************************************************)
EXTENDS GraphHistory, SettingsDialog, SettingsWriter, UpdateDownload

CONSTANTS b1, b2

MCBuilds == {b1, b2}

VARIABLE part

desktopVars == <<part, graphVars, dialogVars, writerVars, downloadVars>>

MCUnits == [s \in {"a", "b", "c"} |-> IF s = "c" THEN "percent" ELSE "celsius"]

\* A frame rate with its 1% low and the frame time, the processor, two graphics cards
\* and a drive.
MCSensors == {"f", "l", "t", "c", "g1", "g2", "d"}
MCKinds == [s \in MCSensors |-> CASE s = "f" -> "fps" [] s = "l" -> "low" [] s = "t" -> "time" [] s = "c" -> "cpu"
                                  [] s \in {"g1", "g2"} -> "gpu" [] s = "d" -> "other"]
MCSectionOf == [s \in MCSensors |-> CASE s \in {"f", "l", "t"} -> "frame_rate" [] s = "c" -> "cpu"
                                      [] s \in {"g1", "g2"} -> "graphics" [] s = "d" -> "storage"]
MCMeasuredIn == [s \in MCSensors |-> CASE s \in {"f", "l"} -> "fps" [] s = "t" -> "milliseconds"
                                       [] OTHER -> "celsius"]
MCSections == <<"cpu", "graphics", "storage", "frame_rate">>

Lacking(seq, absent) == [i \in DOMAIN seq |-> [id |-> seq[i], ok |-> seq[i] # absent]]
MCLayouts == {<<>>, Lacking(<<"c", "g1", "f", "t">>, "none"),
              Lacking(<<"f", "d", "l">>, "d")}

\* The defaults of AppSettings, and a file with pins and an order.
MCDefaults == [fps |-> TRUE, low |-> TRUE, separate |-> FALSE, easyOn |-> TRUE, easy |-> Categories,
               pins |-> <<>>, order |-> <<>>, favs |-> <<>>, inited |-> FALSE, completed |-> {},
               floating |-> TRUE, graph |-> FALSE, sources |-> {"t"}]
MCImports == {MCDefaults, [MCDefaults EXCEPT !.easyOn = FALSE, !.pins = <<"d", "g2">>,
                             !.order = <<"d", "g2">>, !.favs = <<"d">>, !.inited = TRUE]}

DesktopInit ==
    /\ part \in {"graph", "dialog", "writer", "download"}
    /\ GraphInit /\ (part # "graph" => Len(ids) = 1 /\ ids[1] = "a" /\ \A h \in Histories : history <= h)
    /\ DialogInit /\ WriterInit
    /\ DownloadInit /\ (part # "download" => handed = b1)

DesktopNext ==
    /\ UNCHANGED part
    /\ \/ part = "graph" /\ GraphNext /\ UNCHANGED <<dialogVars, writerVars, downloadVars>>
       \/ part = "dialog" /\ DialogNext /\ UNCHANGED <<graphVars, writerVars, downloadVars>>
       \/ part = "writer" /\ WriterNext /\ UNCHANGED <<graphVars, dialogVars, downloadVars>>
       \/ part = "download" /\ DownloadNext /\ UNCHANGED <<graphVars, dialogVars, writerVars>>

DesktopSpec == DesktopInit /\ [][DesktopNext]_desktopVars /\ Fairness

(* Each machine's variables stay of their types. *)
DesktopTypeOK == GraphTypeOK /\ DialogTypeOK /\ WriterTypeOK /\ DownloadTypeOK
=============================================================================
