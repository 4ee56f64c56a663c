----------------------------- MODULE NvidiaGpu -----------------------------
(***************************************************************************)
(* NvidiaGpuProvider: the cards that one library (NVAPI) lists, their        *)
(* temperatures and, through a second library (NVML) that lists the cards in *)
(* an order of its own or not at all, their memory.  Libraries may be        *)
(* missing, fail to start, and fail to answer for a card at any time.        *)
(*                                                                          *)
(* A reading is what it is of, the card it was read from and when.  A        *)
(* channel of the thermal query that the driver does not serve is left as    *)
(* the caller set it, which reads as zero degrees.                           *)
(***************************************************************************)
EXTENDS Integers, Sequences, FiniteSets

CONSTANTS Cards,        \* NVIDIA cards
          Newest,       \* those of the newest series
          NvInterval,   \* 250 ms in Collect
          NvMaxTime     \* bound on the clock

ASSUME NvAssumption == Newest \subseteq Cards /\ NvInterval \in Nat \ {0} /\ NvMaxTime \in Nat \ {0}

VARIABLES
    known,         \* cards whose bus the driver tells
    channels,      \* thermal channels each card serves: none, too few, all that are read
    listing,       \* the cards in NVML's order
    answering,     \* cards that answer queries now
    initialized,   \* initialized_
    loaded,        \* how often each library is loaded (LoadLibrary)
    started,       \* how often each library's own initialisation was called
    gpus,          \* gpus_, gpu_count_: card, thermal mask and NVML's handle
    refreshed,     \* refresh_buffer_
    refreshedAt,   \* last_refresh_, 0 for none
    appended,      \* when the last Collect appended readings, 0 for never (history)
    nvTime         \* the clock

nvDriver == <<known, channels, listing, answering>>
nvProvider == <<initialized, loaded, started, gpus>>
nvReadings == <<refreshed, refreshedAt, appended>>
nvVars == <<nvDriver, nvProvider, nvReadings, nvTime>>

Libraries == {"nvapi", "nvml"}
NoCard == "none"
ASSUME NoCardAssumption == NoCard \notin Cards
Quantities == {"core", "junction", "memory"}
\* "Nobody" measured the zero of a channel that is not served.
NvReadings == [gpu : 1..Cardinality(Cards), what : Quantities,
               of : Cards \cup {NoCard}, time : 1..NvMaxTime]

Orders(C) == {o \in [1..Cardinality(C) -> C] : \A i, j \in DOMAIN o : o[i] = o[j] => i = j}

NvTypeOK ==
    /\ known \subseteq Cards /\ answering \subseteq Cards
    /\ channels \in [Cards -> 0..2]
    /\ \A i \in DOMAIN listing : listing[i] \in Cards
    /\ initialized \in BOOLEAN
    /\ loaded \in [Libraries -> Nat] /\ started \in [Libraries -> Nat]
    /\ \A i \in DOMAIN gpus :
          gpus[i] \in [card : Cards, mask : 0..2, nvml : Cards \cup {NoCard}]
    /\ refreshed \subseteq NvReadings
    /\ refreshedAt \in 0..NvMaxTime /\ appended \in 0..NvMaxTime
    /\ nvTime \in 1..NvMaxTime

NvInit ==
    /\ known \in SUBSET Cards
    /\ channels \in [Cards -> 0..2]
    /\ listing \in UNION {Orders(C) : C \in SUBSET Cards}
    /\ answering = Cards
    /\ initialized = FALSE
    /\ loaded = [l \in Libraries |-> 0] /\ started = [l \in Libraries |-> 0]
    /\ gpus = <<>>
    /\ refreshed = {} /\ refreshedAt = 0 /\ appended = 0
    /\ nvTime = 1

-----------------------------------------------------------------------------
\* Mutant: NVML's handle by its own index, as if both listed alike.
HandleByIndex(i, card) == IF i <= Len(listing) THEN listing[i] ELSE NoCard
\* NVML's handle for the i-th card: by its bus, for as many as NVML counts.
NvmlHandle(i, card) ==
    IF /\ i <= Len(listing) /\ card \in known
       /\ \E j \in DOMAIN listing : listing[j] = card
    THEN card ELSE NoCard

Record(order, i, nvml) == [card |-> order[i], mask |-> channels[order[i]],
                           nvml |-> IF nvml THEN NvmlHandle(i, order[i]) ELSE NoCard]

Ends(l, s, g) == initialized' = TRUE /\ loaded' = l /\ started' = s /\ gpus' = g

\* Initialize: at most once until Close, whatever came of it.
\* There is no library, or it lacks functions or does not start and is unloaded.
NotStarted == Ends(loaded, started, <<>>)
\* It started but lists no card: it stays loaded until Close.
NoCardListed == Ends([loaded EXCEPT !["nvapi"] = @ + 1], [started EXCEPT !["nvapi"] = @ + 1], <<>>)
\* NVML is loaded after the cards are listed; one that fails is unloaded at once.
CardsListed == \E order \in Orders(Cards), nvml \in BOOLEAN :
    LET libraries == IF nvml THEN Libraries ELSE {"nvapi"}
    IN Ends([l \in Libraries |-> loaded[l] + IF l \in libraries THEN 1 ELSE 0],
            [l \in Libraries |-> started[l] + IF l \in libraries THEN 1 ELSE 0],
            [i \in DOMAIN order |-> Record(order, i, nvml)])

NvInitialize ==
    /\ NotStarted \/ NoCardListed \/ CardsListed
    /\ UNCHANGED <<nvDriver, nvReadings, nvTime>>

\* Mutant: Close forgets NVML.
NvCloseNvapi ==
    /\ initialized' = FALSE
    /\ loaded' = [loaded EXCEPT !["nvapi"] = 0] /\ started' = [started EXCEPT !["nvapi"] = 0]
    /\ gpus' = <<>>
    /\ refreshed' = {} /\ refreshedAt' = 0 /\ appended' = 0
    /\ UNCHANGED <<nvDriver, nvTime>>
NvClose ==
    /\ initialized' = FALSE
    /\ loaded' = [l \in Libraries |-> 0] /\ started' = [l \in Libraries |-> 0]
    /\ gpus' = <<>>
    /\ refreshed' = {} /\ refreshedAt' = 0 /\ appended' = 0
    /\ UNCHANGED <<nvDriver, nvTime>>

-----------------------------------------------------------------------------
Reading(i, what, of) == [gpu |-> i, what |-> what, of |-> of, time |-> nvTime]

\* What the thermal queries give of a card that answers.  The older query gives the
\* core's temperature; the newer one, asked for the channels found at the start,
\* adds the memory junction's and replaces the core's of the newest series.  It is
\* read from fixed channels whether or not they are served.
Temperatures(i) ==
    LET g == gpus[i]
        served == IF g.mask = 2 THEN g.card ELSE NoCard
    IN IF g.mask = 0 THEN {Reading(i, "core", g.card)}
       ELSE {Reading(i, "core", IF g.card \in Newest THEN served ELSE g.card),
             Reading(i, "junction", served)}

\* What NVML gives through its handle, if the card behind it answers.
MemoryUse(i) == {Reading(i, "memory", c) : c \in {gpus[i].nvml} \cap answering}

Refreshed == UNION {MemoryUse(i) \cup IF gpus[i].card \in answering THEN Temperatures(i) ELSE {}
                        : i \in DOMAIN gpus}

\* Mutant: the readings are refreshed when the first ones were taken, only.
RefreshOnce ==
    IF refreshed # {}
    THEN appended' = nvTime /\ UNCHANGED <<refreshed, refreshedAt>>
    ELSE refreshed' = Refreshed /\ refreshedAt' = nvTime /\ appended' = nvTime

\* Collect: the readings of the last refresh until they are NvInterval old.
RefreshAndAppend ==
    IF refreshedAt # 0 /\ nvTime - refreshedAt < NvInterval
    THEN appended' = nvTime /\ UNCHANGED <<refreshed, refreshedAt>>
    ELSE refreshed' = Refreshed /\ refreshedAt' = nvTime /\ appended' = nvTime
NvCollect ==
    /\ initialized
    /\ IF gpus = <<>> THEN UNCHANGED nvReadings ELSE RefreshAndAppend
    /\ UNCHANGED <<nvDriver, nvProvider, nvTime>>
\* Collect before Initialize begins with it.
NvFirst == ~initialized /\ NvInitialize

(* The driver and the clock *)

Answers(c) == /\ answering' = IF c \in answering THEN answering \ {c} ELSE answering \cup {c}
              /\ UNCHANGED <<known, channels, listing, nvProvider, nvReadings, nvTime>>

NvTick == /\ nvTime < NvMaxTime
          /\ nvTime' = nvTime + 1
          /\ UNCHANGED <<nvDriver, nvProvider, nvReadings>>

NvNext == NvFirst \/ NvCollect \/ NvClose \/ NvTick \/ \E c \in Cards : Answers(c)
NvSpec == NvInit /\ [][NvNext]_nvVars

-----------------------------------------------------------------------------
(* "Different APIs need not enumerate adapters in the same order"              *)
(* (nvidia_gpu_provider.cpp:273): what is shown of a card's memory under the   *)
(* card's name was read from that card.                                        *)
MemoryIsOfSameCard == \A r \in refreshed : r.what = "memory" => r.of = gpus[r.gpu].card

(* A library is loaded and started at most once, both end with Close, whichever *)
(* step of Initialize failed (nvidia_gpu_provider.cpp:180-310), and none is      *)
(* started that is not loaded.                                                    *)
LibrariesAreBalanced ==
    /\ \A l \in Libraries : started[l] = loaded[l] /\ loaded[l] <= 1
    /\ ~initialized => \A l \in Libraries : loaded[l] = 0

(* What Collect appends was measured less than NvInterval before, by a card that *)
(* answered then and is listed now (nvidia_gpu_provider.cpp:322-334, 440): a       *)
(* card that fails disappears with the next refresh.                               *)
ReadingsAreRecent ==
    \A r \in refreshed : /\ r.gpu \in DOMAIN gpus
                         /\ r.time = refreshedAt /\ appended - r.time < NvInterval

(* "A missing hardware capability is omitted, never replaced by zero or a          *)
(* threshold/critical-limit value" (docs/SECOND_PC_VALIDATION.md:38).              *)
MissingIsOmitted == \A r \in refreshed : r.of # NoCard
=============================================================================
