------------------------------- MODULE AmdGpu -------------------------------
(***************************************************************************)
(* AmdGpuProvider: the library lists adapters, several of which belong to    *)
(* one card; those present, active and of the right vendor become records of *)
(* gpus_ unless one with the same identifier is there.  The identifier is    *)
(* asked for, or made of the adapter's place on the bus if that fails.        *)
(***************************************************************************)
EXTENDS Integers, Sequences, FiniteSets

CONSTANTS Boards,       \* AMD cards
          MaxAdapters,  \* adapters that the library lists
          MaximumGpus,  \* kMaximumGpus
          AmdInterval,  \* kRefreshInterval
          AmdMaxTime,   \* bound on the clock
          Megabytes     \* values of the memory's use and size

ASSUME AmdAssumption == /\ MaxAdapters \in Nat /\ MaximumGpus \in Nat \ {0}
                        /\ AmdInterval \in Nat \ {0} /\ AmdMaxTime \in Nat \ {0}
                        /\ Megabytes \subseteq Nat

VARIABLES
    adapters,      \* the library's list
    used,          \* memory in use of each card, -1 while queries fail
    amdReady,      \* initialized_
    module,        \* module_
    context,       \* context_
    records,       \* gpus_, gpu_count_
    amdBuffer,     \* refresh_buffer_: memory readings by record
    amdRefreshed,  \* last_refresh_, 0 for none
    amdShown,      \* what the last Collect appended and when (history)
    amdTime        \* the clock

amdProvider == <<amdReady, module, context, records>>
amdReadings == <<amdBuffer, amdRefreshed, amdShown>>
amdVars == <<adapters, used, amdProvider, amdReadings, amdTime>>

Adapters == [card : Boards, usable : BOOLEAN, answers : BOOLEAN, size : Megabytes]
Identifiers == {"asked", "place"} \X Boards
NoUse == [used |-> -1, total |-> 0]
Uses == [used : Megabytes \cup {-1}, total : Megabytes]

AmdTypeOK ==
    /\ adapters \in [1..Len(adapters) -> Adapters]
    /\ used \in [Boards -> Megabytes \cup {-1}]
    /\ amdReady \in BOOLEAN /\ module \in BOOLEAN /\ context \in BOOLEAN
    /\ Len(records) <= MaximumGpus
    /\ \A i \in DOMAIN records : records[i] \in [adapter : 1..Len(adapters),
                                                 id : Identifiers, total : Megabytes]
    /\ amdBuffer \in [DOMAIN amdBuffer -> Uses \cup {NoUse}] /\ DOMAIN amdBuffer \subseteq 1..MaximumGpus
    /\ amdRefreshed \in 0..AmdMaxTime
    /\ amdShown \in [time : 0..AmdMaxTime, from : 0..AmdMaxTime]
    /\ amdTime \in 1..AmdMaxTime

\* The adapters of a card report the memory of that card.
Consistent(list) == \A i, j \in DOMAIN list : list[i].card = list[j].card => list[i].size = list[j].size

AmdInit ==
    /\ adapters \in {list \in [1..MaxAdapters -> Adapters] : Consistent(list)}
    /\ used \in [Boards -> Megabytes]
    /\ amdReady = FALSE /\ module = FALSE /\ context = FALSE
    /\ records = <<>> /\ amdBuffer = <<>> /\ amdRefreshed = 0
    /\ amdShown = [time |-> 0, from |-> 0] /\ amdTime = 1

-----------------------------------------------------------------------------
\* The identifier of an adapter; two cards have different ones of either sort, and
\* the two sorts do not meet.
AdapterId(a) == <<IF a.answers THEN "asked" ELSE "place", a.card>>

\* Mutant: each usable adapter becomes a record.
ListedNever(recs, id) == FALSE
Listed(recs, id) == \E i \in DOMAIN recs : recs[i].id = id

Extended(recs, n) == Append(recs, [adapter |-> n, id |-> AdapterId(adapters[n]),
                                   total |-> adapters[n].size])

\* Mutant: only the first adapter of a card is looked at.
FoundByFirst ==
    LET found[n \in 0..MaxAdapters] ==
            IF n = 0 THEN <<>>
            ELSE IF \/ ~adapters[n].usable \/ Len(found[n - 1]) >= MaximumGpus
                    \/ \E k \in 1..n - 1 : AdapterId(adapters[k]) = AdapterId(adapters[n])
            THEN found[n - 1] ELSE Extended(found[n - 1], n)
    IN found[MaxAdapters]
\* Mutant: more records than the array has places.
FoundUnbounded ==
    LET found[n \in 0..MaxAdapters] ==
            IF n = 0 THEN <<>>
            ELSE IF ~adapters[n].usable \/ Listed(found[n - 1], AdapterId(adapters[n]))
            THEN found[n - 1] ELSE Extended(found[n - 1], n)
    IN found[MaxAdapters]
\* The loop over the adapters.
Found ==
    LET found[n \in 0..MaxAdapters] ==
            IF n = 0 THEN <<>>
            ELSE IF \/ ~adapters[n].usable \/ Len(found[n - 1]) >= MaximumGpus
                    \/ Listed(found[n - 1], AdapterId(adapters[n]))
            THEN found[n - 1] ELSE Extended(found[n - 1], n)
    IN found[MaxAdapters]

\* Initialize, once until Close: no library; a library that cannot be used, which
\* Close unloads again; a list that cannot be read; or the cards.
AmdInitialize ==
    /\ ~amdReady /\ amdReady' = TRUE
    /\ \/ module' = FALSE /\ context' = FALSE /\ records' = <<>>
       \/ module' = TRUE /\ context' = TRUE /\ records' \in {<<>>, Found}
    /\ UNCHANGED <<adapters, used, amdReadings, amdTime>>

\* Mutant: Close keeps the library of a provider without cards.
AmdCloseIfListed ==
    /\ amdReady' = FALSE /\ records' = <<>> /\ amdBuffer' = <<>> /\ amdRefreshed' = 0
    /\ module' = (module /\ records = <<>>) /\ context' = (context /\ records = <<>>)
    /\ amdShown' = [time |-> 0, from |-> 0]
    /\ UNCHANGED <<adapters, used, amdTime>>
AmdClose ==
    /\ amdReady' = FALSE /\ module' = FALSE /\ context' = FALSE
    /\ records' = <<>> /\ amdBuffer' = <<>> /\ amdRefreshed' = 0
    /\ amdShown' = [time |-> 0, from |-> 0]
    /\ UNCHANGED <<adapters, used, amdTime>>

\* Mutant: the use is not compared with the size that was read at the start.
DecodeUnchecked(u, total) == IF u < 0 THEN NoUse ELSE [used |-> u, total |-> total]
\* DecodeAmdVramSensors: all of it or nothing.
DecodeAmdVramSensors(u, total) ==
    IF u < 0 \/ total <= 0 \/ u > total THEN NoUse ELSE [used |-> u, total |-> total]

CardOf(i) == adapters[records[i].adapter].card
Decoded == [i \in DOMAIN records |-> DecodeAmdVramSensors(used[CardOf(i)], records[i].total)]

\* Mutant: last_refresh_ moves with every Collect.
AmdRecent == amdRefreshed # 0 /\ amdTime - amdShown.time < AmdInterval
AmdFresh == amdRefreshed # 0 /\ amdTime - amdRefreshed < AmdInterval

AmdCollect ==
    /\ amdReady /\ records # <<>>
    /\ IF AmdFresh THEN UNCHANGED <<amdBuffer, amdRefreshed>>
                   ELSE amdBuffer' = Decoded /\ amdRefreshed' = amdTime
    /\ amdShown' = [time |-> amdTime, from |-> amdRefreshed']
    /\ UNCHANGED <<adapters, used, amdProvider, amdTime>>

\* A card's memory use changes, or its queries fail.
UseMemory(c, u) == /\ used' = [used EXCEPT ![c] = u]
                   /\ UNCHANGED <<adapters, amdProvider, amdReadings, amdTime>>
AmdTick == /\ amdTime < AmdMaxTime
           /\ amdTime' = amdTime + 1
           /\ UNCHANGED <<adapters, used, amdProvider, amdReadings>>

AmdNext == \/ AmdInitialize \/ AmdClose \/ AmdCollect \/ AmdTick
           \/ \E c \in Boards, u \in Megabytes \cup {-1} : UseMemory(c, u)
AmdSpec == AmdInit /\ [][AmdNext]_amdVars

-----------------------------------------------------------------------------
(* A card is listed once, although the library lists several adapters of it,     *)
(* unless its identifier could be asked for through one of them and not through   *)
(* another (amd_gpu_provider.cpp:252-257).                                         *)
OneRecordPerCard ==
    \A i, j \in DOMAIN records :
        i # j /\ CardOf(i) = CardOf(j) => records[i].id[1] # records[j].id[1]

(* A card is listed if one of its adapters can be used, also when the first       *)
(* cannot; only the length of the list keeps one out (amd_gpu_provider.cpp:244).  *)
EveryCardIsListed ==
    records = <<>> \/ Len(records) = MaximumGpus \/
    \A i \in DOMAIN adapters : adapters[i].usable => \E j \in DOMAIN records : CardOf(j) = adapters[i].card

(* The list names the cards, not their adapters: see the two parts.               *)
CardsAreListedOnce == OneRecordPerCard /\ EveryCardIsListed

(* No share above the whole is shown, though the memory's size is read once and   *)
(* its use at every refresh (amd_gpu_provider.cpp:197-209, 261-266).               *)
UseIsWithinSize == \A i \in DOMAIN amdBuffer : amdBuffer[i] # NoUse => amdBuffer[i].used \in 0..amdBuffer[i].total

(* The library is unloaded and its context destroyed by Close, whatever            *)
(* Initialize found (amd_gpu_provider.cpp:272-287).                                 *)
ContextEndsWithClose == ~amdReady => ~module /\ ~context

(* What Collect appends was read less than AmdInterval before                        *)
(* (amd_gpu_provider.cpp:299-302, 324).                                               *)
AmdReadingsAreRecent == amdShown.time - amdShown.from < AmdInterval
=============================================================================
