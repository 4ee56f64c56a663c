--------------------------- MODULE Providers_proofs ---------------------------
(***************************************************************************)
(* Safety theorems about NvidiaGpu, for any cards in any orders, about        *)
(* AmdGpu, for any list of adapters, about StorageSensors and ProcessorUsage,  *)
(* and what the machines of MCProviders promise together, from their own         *)
(* invariants.  The module fixes no constant: a theorem here is about any drives, *)
(* processors, cards, intervals and bounds.  The records of AmdGpu are what a       *)
(* recursive function gives for its last argument: that the function exists and      *)
(* what it gives for every argument is proved over the natural numbers, as sets       *)
(* that hold zero and every successor.                                                 *)
(***************************************************************************)
EXTENDS MCProviders, Service_proofs, SequenceTheorems, WellFoundedInduction

-----------------------------------------------------------------------------
(* The graphics cards. *)

\* A record's handle in the second library is the record's own card, if it has one.
HandleInv ==
    /\ DOMAIN gpus \subseteq 1..Cardinality(Cards)
    /\ \A i \in DOMAIN gpus : gpus[i].nvml \in {gpus[i].card, NoCard}

\* Until Initialize there is nothing that was read.
FreshInv == ~initialized => refreshed = {}

NvIInv == /\ NvTypeOK /\ HandleInv /\ FreshInv
          /\ MemoryIsOfSameCard /\ LibrariesAreBalanced /\ ReadingsAreRecent

LEMMA NvInitIInv == NvInit => NvIInv
<1> SUFFICES ASSUME NvInit PROVE NvIInv
  OBVIOUS
<1> USE NvAssumption DEF NvInit
<1>1. \A i \in DOMAIN listing : listing[i] \in Cards
  <2>1. PICK C \in SUBSET Cards : listing \in Orders(C)
    OBVIOUS
  <2>2. listing \in [1..Cardinality(C) -> C]
    BY <2>1 DEF Orders
  <2> QED BY <2>2
<1>2. NvTypeOK
  <2>1. DOMAIN gpus = {}
    OBVIOUS
  <2>2. initialized \in BOOLEAN
    BY Zenon
  <2> QED BY <1>1, <2>1, <2>2 DEF NvTypeOK
<1>3. HandleInv /\ FreshInv /\ MemoryIsOfSameCard /\ LibrariesAreBalanced /\ ReadingsAreRecent
  BY DEF HandleInv, FreshInv, MemoryIsOfSameCard, LibrariesAreBalanced, ReadingsAreRecent
<1> QED BY <1>2, <1>3 DEF NvIInv

\* The handle found for a card is that card's or none, whatever the library's order.
LEMMA HandleIsOfCard ==
  ASSUME NEW i, NEW card
  PROVE  NvmlHandle(i, card) \in {card, NoCard}
  BY DEF NvmlHandle

LEMMA RecordsOfOrder ==
  ASSUME NvTypeOK, NEW order \in Orders(Cards), NEW nvml \in BOOLEAN,
         gpus' = [i \in DOMAIN order |-> Record(order, i, nvml)]
  PROVE  /\ DOMAIN gpus' \subseteq 1..Cardinality(Cards)
         /\ \A i \in DOMAIN gpus' : /\ gpus'[i] \in [card : Cards, mask : 0..2,
                                                     nvml : Cards \cup {NoCard}]
                                    /\ gpus'[i].nvml \in {gpus'[i].card, NoCard}
<1>1. order \in [1..Cardinality(Cards) -> Cards]
  BY DEF Orders
<1>2. \A i \in DOMAIN order :
        LET r == Record(order, i, nvml)
        IN /\ r \in [card : Cards, mask : 0..2, nvml : Cards \cup {NoCard}]
           /\ r.nvml \in {r.card, NoCard}
  BY <1>1, HandleIsOfCard DEF Record, NvTypeOK
<1> QED BY <1>1, <1>2

\* What Initialize may leave, of which the lists are typed and the libraries counted.
LEMMA NvInitializeIInv ==
  ASSUME NvIInv, NvFirst
  PROVE  NvIInv'
<1> USE DEF NvIInv, NvFirst, NvInitialize, nvDriver, nvReadings
<1>1. /\ DOMAIN gpus' \subseteq 1..Cardinality(Cards)
      /\ \A i \in DOMAIN gpus' : /\ gpus'[i] \in [card : Cards, mask : 0..2,
                                                  nvml : Cards \cup {NoCard}]
                                 /\ gpus'[i].nvml \in {gpus'[i].card, NoCard}
  <2>1. CASE NotStarted \/ NoCardListed
    BY <2>1 DEF NotStarted, NoCardListed, Ends
  <2>2. CASE CardsListed
    BY <2>2, RecordsOfOrder DEF CardsListed, Ends
  <2> QED BY <2>1, <2>2
<1>2. /\ loaded' \in [Libraries -> {0, 1}] /\ started' = loaded' /\ initialized' = TRUE
  <2>1. loaded = [l \in Libraries |-> 0] /\ started = [l \in Libraries |-> 0]
    BY DEF LibrariesAreBalanced, NvTypeOK
  <2> QED BY <2>1 DEF NotStarted, NoCardListed, CardsListed, Ends, Libraries
<1>3. refreshed' = {}
  BY DEF FreshInv
<1>4. NvTypeOK'
  BY <1>1, <1>2 DEF NvTypeOK
<1>5. HandleInv' /\ FreshInv' /\ LibrariesAreBalanced'
  BY <1>1, <1>2 DEF HandleInv, FreshInv, LibrariesAreBalanced
<1>6. MemoryIsOfSameCard' /\ ReadingsAreRecent'
  BY <1>3 DEF MemoryIsOfSameCard, ReadingsAreRecent
<1> QED BY <1>4, <1>5, <1>6

\* One refresh: what it reads is of this moment, of listed cards, memory of its own.
LEMMA RefreshedIsSound ==
  ASSUME NvTypeOK, HandleInv
  PROVE  /\ Refreshed \subseteq NvReadings
         /\ \A r \in Refreshed : /\ r.gpu \in DOMAIN gpus /\ r.time = nvTime
                                 /\ r.what = "memory" => r.of = gpus[r.gpu].card
<1> SUFFICES ASSUME NEW r \in Refreshed
             PROVE  /\ r \in NvReadings /\ r.gpu \in DOMAIN gpus /\ r.time = nvTime
                    /\ r.what = "memory" => r.of = gpus[r.gpu].card
  OBVIOUS
<1>1. PICK i \in DOMAIN gpus : r \in MemoryUse(i) \/ r \in Temperatures(i)
  BY DEF Refreshed
<1>2. /\ i \in 1..Cardinality(Cards) /\ nvTime \in 1..NvMaxTime
      /\ gpus[i] \in [card : Cards, mask : 0..2, nvml : Cards \cup {NoCard}]
      /\ gpus[i].nvml \in {gpus[i].card, NoCard}
  BY DEF NvTypeOK, HandleInv
<1>3. CASE r \in MemoryUse(i)
  <2>1. PICK c \in {gpus[i].nvml} \cap answering : r = Reading(i, "memory", c)
    BY <1>3 DEF MemoryUse
  <2>2. c \in Cards /\ c = gpus[i].card
    BY <1>2, <2>1, NoCardAssumption DEF NvTypeOK
  <2> QED BY <1>2, <2>1, <2>2 DEF Reading, NvReadings, Quantities
<1>4. CASE r \in Temperatures(i)
  <2>1. \E what \in {"core", "junction"}, of \in Cards \cup {NoCard} : r = Reading(i, what, of)
    BY <1>2, <1>4 DEF Temperatures
  <2> QED BY <1>2, <2>1 DEF Reading, NvReadings, Quantities
<1> QED BY <1>1, <1>3, <1>4

LEMMA NvCollectIInv ==
  ASSUME NvIInv, NvCollect
  PROVE  NvIInv'
<1> USE NvAssumption DEF NvIInv, NvCollect, nvDriver, nvProvider, nvReadings
<1>1. /\ UNCHANGED <<known, channels, listing, answering, initialized, loaded, started, gpus, nvTime>>
      /\ initialized
  OBVIOUS
<1>2. CASE gpus = <<>>
  BY <1>1, <1>2 DEF NvTypeOK, HandleInv, FreshInv, MemoryIsOfSameCard, LibrariesAreBalanced,
     ReadingsAreRecent
<1>3. CASE gpus # <<>> /\ refreshedAt # 0 /\ nvTime - refreshedAt < NvInterval
  <2>1. UNCHANGED <<refreshed, refreshedAt>> /\ appended' = nvTime
    BY <1>3 DEF RefreshAndAppend
  <2>2. NvTypeOK' /\ HandleInv' /\ FreshInv' /\ LibrariesAreBalanced' /\ MemoryIsOfSameCard'
    BY <1>1, <2>1 DEF NvTypeOK, HandleInv, FreshInv, LibrariesAreBalanced, MemoryIsOfSameCard
  <2>3. ReadingsAreRecent'
    BY <1>1, <1>3, <2>1 DEF ReadingsAreRecent
  <2> QED BY <2>2, <2>3
<1>4. CASE gpus # <<>> /\ ~(refreshedAt # 0 /\ nvTime - refreshedAt < NvInterval)
  <2>1. refreshed' = Refreshed /\ refreshedAt' = nvTime /\ appended' = nvTime
    BY <1>4 DEF RefreshAndAppend
  <2>2. NvTypeOK' /\ HandleInv' /\ FreshInv' /\ LibrariesAreBalanced'
    BY <1>1, <2>1, RefreshedIsSound DEF NvTypeOK, HandleInv, FreshInv, LibrariesAreBalanced
  <2>3. MemoryIsOfSameCard' /\ ReadingsAreRecent'
    BY <1>1, <2>1, RefreshedIsSound DEF MemoryIsOfSameCard, ReadingsAreRecent, NvTypeOK
  <2> QED BY <2>2, <2>3
<1> QED BY <1>2, <1>3, <1>4

LEMMA NvNextIInv == NvIInv /\ [NvNext]_nvVars => NvIInv'
<1> SUFFICES ASSUME NvIInv, [NvNext]_nvVars PROVE NvIInv'
  OBVIOUS
<1>1. CASE NvFirst
  BY <1>1, NvInitializeIInv
<1>2. CASE NvCollect
  BY <1>2, NvCollectIInv
<1>3. CASE NvClose
  <2>1. /\ UNCHANGED <<known, channels, listing, answering, nvTime>> /\ initialized' = FALSE
        /\ loaded' = [l \in Libraries |-> 0] /\ started' = [l \in Libraries |-> 0]
        /\ DOMAIN gpus' = {} /\ refreshed' = {} /\ refreshedAt' = 0 /\ appended' = 0
    BY <1>3 DEF NvClose, nvDriver
  <2>2. NvTypeOK'
    <3>1. initialized' \in BOOLEAN
      BY <2>1, Zenon
    <3>2. /\ loaded' \in [Libraries -> Nat] /\ started' \in [Libraries -> Nat]
          /\ \A i \in DOMAIN gpus' :
                gpus'[i] \in [card : Cards, mask : 0..2, nvml : Cards \cup {NoCard}]
      BY <2>1
    <3>3. /\ refreshed' \subseteq NvReadings
          /\ refreshedAt' \in 0..NvMaxTime /\ appended' \in 0..NvMaxTime
      BY <2>1, NvAssumption
    <3> QED BY <2>1, <3>1, <3>2, <3>3 DEF NvIInv, NvTypeOK
  <2>3. HandleInv' /\ FreshInv' /\ MemoryIsOfSameCard' /\ ReadingsAreRecent'
    BY <2>1 DEF HandleInv, FreshInv, MemoryIsOfSameCard, ReadingsAreRecent
  <2>4. LibrariesAreBalanced'
    BY <2>1 DEF LibrariesAreBalanced
  <2> QED BY <2>2, <2>3, <2>4 DEF NvIInv
<1>4. CASE NvTick \/ (\E c \in Cards : Answers(c)) \/ UNCHANGED nvVars
  <2>1. /\ UNCHANGED <<known, channels, listing, nvProvider, nvReadings>>
        /\ answering' \subseteq Cards /\ nvTime' \in 1..NvMaxTime
    BY <1>4, NvAssumption DEF NvTick, Answers, nvVars, nvDriver, NvIInv, NvTypeOK
  <2> QED BY <2>1 DEF nvProvider, nvReadings, NvIInv, NvTypeOK, HandleInv, FreshInv,
                      MemoryIsOfSameCard, LibrariesAreBalanced, ReadingsAreRecent
<1> QED BY <1>1, <1>2, <1>3, <1>4 DEF NvNext

LEMMA NvInvariance == NvSpec => []NvIInv
<1>1. NvInit => NvIInv
  BY NvInitIInv
<1>2. NvIInv /\ [NvNext]_nvVars => NvIInv'
  BY NvNextIInv
<1> QED BY <1>1, <1>2, PTL DEF NvSpec

(* "Different APIs need not enumerate adapters in the same order": for any number of   *)
(* cards and any two orders, the memory shown under a card's name was read from that      *)
(* card (nvidia_gpu_provider.cpp:250-280).                                                 *)
THEOREM MemoryOfSameCard == NvSpec => []MemoryIsOfSameCard
<1>1. NvIInv => MemoryIsOfSameCard
  BY DEF NvIInv
<1> QED BY NvInvariance, <1>1, PTL

(* A card that fails disappears with the next refresh: no reading is older than the     *)
(* interval or of a card that is not listed (nvidia_gpu_provider.cpp:322-334).             *)
THEOREM NvReadingsRecent == NvSpec => []ReadingsAreRecent
<1>1. NvIInv => ReadingsAreRecent
  BY DEF NvIInv
<1> QED BY NvInvariance, <1>1, PTL

-----------------------------------------------------------------------------
(* The adapters of AmdGpu. *)

\* A set of numbers with zero and the successor of each of its members has them all.
LEMMA SetInduction ==
  ASSUME NEW S \in SUBSET Nat, 0 \in S, \A n \in S : n + 1 \in S
  PROVE  S = Nat
<1> SUFFICES ASSUME Nat \ S # {} PROVE FALSE
  OBVIOUS
<1> DEFINE R == OpToRel(<, Nat)
<1>1. IsWellFoundedOn(R, Nat)
  BY NatLessThanWellFounded, Zenon
<1>2. PICK m \in Nat \ S : \A y \in Nat \ S : ~ (<<y, m>> \in R)
  <2> HIDE DEF R
  <2> QED BY <1>1, WFMin
<1>3. \A y \in Nat : y < m => <<y, m>> \in R
  BY DEF OpToRel
<1> HIDE DEF R
<1>4. m # 0 /\ m - 1 \in Nat
  OBVIOUS
<1>5. m - 1 \in Nat \ S /\ m - 1 < m
  BY <1>4
<1> QED BY <1>2, <1>3, <1>5

\* One turn of the loop over the adapters, and the loop as a function of its turns.
Turn(prev, n) ==
    IF \/ ~adapters[n].usable \/ Len(prev) >= MaximumGpus
       \/ Listed(prev, AdapterId(adapters[n]))
    THEN prev ELSE Extended(prev, n)
Loops(f, m) == f = [n \in 0..m |-> IF n = 0 THEN <<>> ELSE Turn(f[n - 1], n)]

\* The loop's function exists: its first m turns do for every m.
LEMMA LoopExists == \A m \in Nat : \E f : Loops(f, m)
<1> DEFINE S == {m \in Nat : \E f : Loops(f, m)}
<1>1. 0 \in S
  <2>1. Loops([n \in 0..0 |-> <<>>], 0)
    BY DEF Loops
  <2> QED BY <2>1
<1>2. ASSUME NEW m \in S PROVE m + 1 \in S
  <2>1. m \in Nat /\ \E f : Loops(f, m)
    OBVIOUS
  <2>2. PICK f : Loops(f, m)
    BY <2>1
  <2> DEFINE g == [n \in 0..m + 1 |-> IF n <= m THEN f[n] ELSE Turn(f[m], n)]
             h == [n \in 0..m + 1 |-> IF n = 0 THEN <<>> ELSE Turn(g[n - 1], n)]
  <2>3. \A n \in 0..m + 1 : g[n] = h[n]
    <3> SUFFICES ASSUME NEW n \in 0..m + 1 PROVE g[n] = h[n]
      OBVIOUS
    <3>1. \A k \in 0..m : g[k] = f[k]
      BY <2>1
    <3>2. CASE n <= m
      <4>1. g[n] = f[n] /\ f[n] = IF n = 0 THEN <<>> ELSE Turn(f[n - 1], n)
        BY <2>1, <2>2, <3>1, <3>2 DEF Loops
      <4>2. n # 0 => n - 1 \in 0..m
        BY <2>1, <3>2
      <4> QED BY <3>1, <4>1, <4>2
    <3>3. CASE n = m + 1
      <4>1. n # 0 /\ n - 1 = m /\ m \in 0..m /\ ~(n <= m)
        BY <2>1, <3>3
      <4> QED BY <3>1, <4>1
    <3> QED BY <2>1, <3>2, <3>3
  <2>4. g = h
    BY <2>3
  <2>5. Loops(g, m + 1)
    <3> HIDE DEF g
    <3> QED BY <2>4 DEF Loops
  <2> QED BY <2>1, <2>5
<1>3. S \in SUBSET Nat
  OBVIOUS
<1> HIDE DEF S
<1>4. S = Nat
  BY <1>1, <1>2, <1>3, SetInduction
<1> QED BY <1>4 DEF S

\* Found is what a function of the loop gives for all adapters.
LEMMA FoundIsLoop ==
  \E f : Loops(f, MaxAdapters) /\ Found = f[MaxAdapters]
<1> DEFINE f == CHOOSE g : Loops(g, MaxAdapters)
<1>1. Loops(f, MaxAdapters)
  BY LoopExists, AmdAssumption
<1>2. Found = f[MaxAdapters]
  BY DEF Found, Loops, Turn
<1> HIDE DEF f
<1> QED BY <1>1, <1>2

\* The records after the loop has looked at the first n adapters: each is of an adapter
\* that was looked at, no two have the same identifier, and the adapters without a
\* record cannot be used, have that of another, or found the list full.
RecordSet == [adapter : 1..MaxAdapters, id : Identifiers, total : Megabytes]
Sound(recs, n) ==
    /\ recs \in Seq(RecordSet) /\ Len(recs) <= MaximumGpus
    /\ \A i \in DOMAIN recs : recs[i].id = AdapterId(adapters[recs[i].adapter])
    /\ \A i, j \in DOMAIN recs : i # j => recs[i].id # recs[j].id
    /\ \/ Len(recs) = MaximumGpus
       \/ \A k \in 1..n : adapters[k].usable => Listed(recs, AdapterId(adapters[k]))

LEMMA TurnIsSound ==
  ASSUME adapters \in [1..MaxAdapters -> Adapters],
         NEW n \in 1..MaxAdapters, NEW prev, Sound(prev, n - 1)
  PROVE  Sound(Turn(prev, n), n)
<1> DEFINE id == AdapterId(adapters[n])
<1> USE AmdAssumption DEF Sound
<1>1. n - 1 \in Nat /\ \A k \in 1..n : k = n \/ k \in 1..n - 1
  OBVIOUS
<1>2. CASE ~adapters[n].usable \/ Listed(prev, id)
  <2>1. Turn(prev, n) = prev
    BY <1>2 DEF Turn
  <2> QED BY <1>1, <1>2, <2>1
<1>3. CASE Len(prev) >= MaximumGpus
  <2>1. Turn(prev, n) = prev /\ Len(prev) = MaximumGpus
    BY <1>3 DEF Turn
  <2> QED BY <2>1
<1>4. CASE adapters[n].usable /\ ~Listed(prev, id) /\ ~(Len(prev) >= MaximumGpus)
  <2> DEFINE r == [adapter |-> n, id |-> id, total |-> adapters[n].size]
             recs == Append(prev, r)
             L == Len(prev)
  <2>1. Turn(prev, n) = recs
    BY <1>4 DEF Turn, Extended
  <2>2. r \in RecordSet /\ r.id = id /\ r.adapter = n
    <3>1. adapters[n] \in Adapters
      OBVIOUS
    <3>2. id \in Identifiers
      BY <3>1 DEF AdapterId, Identifiers, Adapters
    <3> QED BY <3>1, <3>2 DEF RecordSet, Adapters
  <2>3. prev \in Seq(RecordSet)
    OBVIOUS
  <2>4. L \in Nat /\ DOMAIN prev = 1..L /\ L < MaximumGpus
    BY <1>4, <2>3, LenProperties
  <2> HIDE DEF r, id
  <2>5. /\ recs \in Seq(RecordSet) /\ Len(recs) = L + 1 /\ recs[L + 1] = r
        /\ \A i \in 1..L : recs[i] = prev[i]
    BY <2>2, <2>3, AppendProperties
  <2> HIDE DEF recs, L
  <2>6. DOMAIN recs = 1..L + 1
    BY <2>5, LenProperties
  <2>7. /\ Len(recs) <= MaximumGpus /\ L + 1 \in DOMAIN recs
        /\ DOMAIN prev \subseteq DOMAIN recs
        /\ \A i \in DOMAIN recs : i \in DOMAIN prev \/ i = L + 1
    BY <2>4, <2>5, <2>6
  <2>8. \A i \in DOMAIN prev : recs[i] = prev[i] /\ prev[i].id # id
    BY <1>4, <2>4, <2>5 DEF Listed, id
  <2>9. \A i \in DOMAIN recs : recs[i].id = AdapterId(adapters[recs[i].adapter])
    BY <2>2, <2>5, <2>7, <2>8 DEF id
  <2>10. \A i, j \in DOMAIN recs : i # j => recs[i].id # recs[j].id
    BY <2>2, <2>5, <2>7, <2>8
  <2>11. \A k \in 1..n : adapters[k].usable => Listed(recs, AdapterId(adapters[k]))
    <3> SUFFICES ASSUME NEW k \in 1..n, adapters[k].usable
                 PROVE  \E i \in DOMAIN recs : recs[i].id = AdapterId(adapters[k])
      BY DEF Listed
    <3>1. CASE k = n
      BY <2>2, <2>5, <2>7, <3>1 DEF id
    <3>2. CASE k \in 1..n - 1
      <4>1. PICK i \in DOMAIN prev : prev[i].id = AdapterId(adapters[k])
        BY <1>4, <2>4, <3>2 DEF Listed, L
      <4> QED BY <2>7, <2>8, <4>1
    <3> QED BY <1>1, <3>1, <3>2
  <2> QED BY <2>1, <2>5, <2>7, <2>9, <2>10, <2>11
<1> QED BY <1>2, <1>3, <1>4

LEMMA FoundIsSound ==
  ASSUME adapters \in [1..MaxAdapters -> Adapters]
  PROVE  Sound(Found, MaxAdapters)
<1>1. PICK f : Loops(f, MaxAdapters) /\ Found = f[MaxAdapters]
  BY FoundIsLoop
<1> DEFINE S == {n \in Nat : n <= MaxAdapters => Sound(f[n], n)}
<1>2. 0 \in S
  <2>1. f[0] = <<>>
    BY <1>1, AmdAssumption DEF Loops
  <2>2. Sound(<<>>, 0)
    BY AmdAssumption DEF Sound
  <2> QED BY <2>1, <2>2
<1>3. ASSUME NEW n \in S PROVE n + 1 \in S
  <2>1. n \in Nat /\ n + 1 \in Nat /\ (n <= MaxAdapters => Sound(f[n], n))
    OBVIOUS
  <2>2. ASSUME n + 1 <= MaxAdapters PROVE Sound(f[n + 1], n + 1)
    <3>1. n + 1 \in 1..MaxAdapters /\ n + 1 \in 0..MaxAdapters /\ n + 1 # 0 /\ (n + 1) - 1 = n
      BY <2>1, <2>2, AmdAssumption
    <3>2. f[n + 1] = Turn(f[n], n + 1)
      BY <1>1, <3>1 DEF Loops
    <3>3. Sound(f[n], (n + 1) - 1)
      <4>1. n <= MaxAdapters
        BY <2>1, <2>2, AmdAssumption
      <4> QED BY <2>1, <3>1, <4>1
    <3> QED BY <3>1, <3>2, <3>3, TurnIsSound
  <2> QED BY <2>1, <2>2
<1>4. S \in SUBSET Nat
  OBVIOUS
<1> HIDE DEF S
<1>5. S = Nat
  BY <1>2, <1>3, <1>4, SetInduction
<1>6. MaxAdapters \in Nat /\ MaxAdapters <= MaxAdapters
  BY AmdAssumption
<1>7. Sound(f[MaxAdapters], MaxAdapters)
  BY <1>5, <1>6 DEF S
<1> QED BY <1>1, <1>7

\* The values of the provider's variables, and what its records are.
AmdDriverInv ==
    /\ adapters \in [1..MaxAdapters -> Adapters] /\ used \in [Boards -> Megabytes \cup {-1}]
    /\ amdReady \in BOOLEAN /\ module \in BOOLEAN /\ context \in BOOLEAN
    /\ amdTime \in 1..AmdMaxTime
RecordsInv == records = <<>> \/ Sound(records, MaxAdapters)

\* The buffer holds a use of every record, none above the size, and its clocks are past.
BufferInv ==
    /\ amdBuffer \in [DOMAIN amdBuffer -> Uses \cup {NoUse}] /\ DOMAIN amdBuffer \subseteq 1..MaximumGpus
    /\ amdRefreshed \in 0..AmdMaxTime
    /\ amdShown \in [time : 0..AmdMaxTime, from : 0..AmdMaxTime]

AmdIInv == /\ AmdDriverInv /\ RecordsInv /\ BufferInv
           /\ ContextEndsWithClose /\ AmdReadingsAreRecent /\ UseIsWithinSize

LEMMA AmdInitIInv == AmdInit => AmdIInv
<1> SUFFICES ASSUME AmdInit PROVE AmdIInv
  OBVIOUS
<1> USE AmdAssumption DEF AmdInit
<1>1. AmdDriverInv
  <2>1. used \in [Boards -> Megabytes \cup {-1}]
    OBVIOUS
  <2>2. amdReady \in BOOLEAN /\ module \in BOOLEAN /\ context \in BOOLEAN
    BY Zenon
  <2> QED BY <2>1, <2>2 DEF AmdDriverInv
<1>2. RecordsInv
  BY DEF RecordsInv
<1>3. DOMAIN amdBuffer = {}
  OBVIOUS
<1>4. BufferInv /\ UseIsWithinSize
  BY <1>3 DEF BufferInv, UseIsWithinSize
<1>5. ContextEndsWithClose /\ AmdReadingsAreRecent
  BY DEF ContextEndsWithClose, AmdReadingsAreRecent
<1> QED BY <1>1, <1>2, <1>4, <1>5 DEF AmdIInv

LEMMA AmdInitializeIInv ==
  ASSUME AmdIInv, AmdInitialize
  PROVE  AmdIInv'
<1> USE DEF AmdIInv, AmdInitialize, amdReadings
<1>1. AmdDriverInv'
  <2>1. amdReady' \in BOOLEAN /\ module' \in BOOLEAN /\ context' \in BOOLEAN
    BY Zenon
  <2> QED BY <2>1 DEF AmdDriverInv
<1>2. RecordsInv'
  <2>1. Sound(Found, MaxAdapters) /\ UNCHANGED adapters
    BY FoundIsSound DEF AmdDriverInv
  <2>2. records' = <<>> \/ records' = Found
    OBVIOUS
  <2> QED BY <2>1, <2>2 DEF RecordsInv, Sound, AdapterId, Listed
<1>3. BufferInv' /\ UseIsWithinSize' /\ ContextEndsWithClose' /\ AmdReadingsAreRecent'
  BY DEF BufferInv, UseIsWithinSize, ContextEndsWithClose, AmdReadingsAreRecent
<1> QED BY <1>1, <1>2, <1>3

LEMMA AmdCloseIInv ==
  ASSUME AmdIInv, AmdClose
  PROVE  AmdIInv'
<1> USE AmdAssumption DEF AmdIInv, AmdClose
<1>1. AmdDriverInv'
  <2>1. amdReady' \in BOOLEAN /\ module' \in BOOLEAN /\ context' \in BOOLEAN
    BY Zenon
  <2> QED BY <2>1 DEF AmdDriverInv
<1>2. RecordsInv' /\ ContextEndsWithClose' /\ AmdReadingsAreRecent'
  BY DEF RecordsInv, ContextEndsWithClose, AmdReadingsAreRecent
<1>3. DOMAIN amdBuffer' = {}
  OBVIOUS
<1>4. BufferInv' /\ UseIsWithinSize'
  BY <1>3 DEF BufferInv, UseIsWithinSize
<1> QED BY <1>1, <1>2, <1>4

\* A use is decoded as a whole and within the size, or not at all.
LEMMA DecodedIsWithinSize ==
  ASSUME NEW u \in Megabytes \cup {-1}, NEW total \in Megabytes
  PROVE  /\ DecodeAmdVramSensors(u, total) \in Uses \cup {NoUse}
         /\ DecodeAmdVramSensors(u, total) # NoUse =>
               DecodeAmdVramSensors(u, total).used \in 0..DecodeAmdVramSensors(u, total).total
  BY AmdAssumption DEF DecodeAmdVramSensors, Uses, NoUse

LEMMA AmdCollectIInv ==
  ASSUME AmdIInv, AmdCollect
  PROVE  AmdIInv'
<1> USE AmdAssumption DEF AmdIInv, AmdCollect, amdProvider
<1>1. AmdDriverInv' /\ RecordsInv' /\ ContextEndsWithClose'
  BY DEF AmdDriverInv, RecordsInv, Sound, AdapterId, Listed, ContextEndsWithClose
<1>2. AmdReadingsAreRecent' /\ amdShown' \in [time : 0..AmdMaxTime, from : 0..AmdMaxTime]
  <2>1. /\ amdRefreshed \in 0..AmdMaxTime /\ amdTime \in 1..AmdMaxTime
        /\ amdShown' = [time |-> amdTime, from |-> amdRefreshed']
    BY DEF BufferInv, AmdDriverInv
  <2>2. amdRefreshed' \in {amdRefreshed, amdTime}
    OBVIOUS
  <2>3. amdTime - amdRefreshed' < AmdInterval
    <3>1. CASE AmdFresh
      BY <2>1, <3>1 DEF AmdFresh
    <3>2. CASE ~AmdFresh
      BY <2>1, <3>2
    <3> QED BY <3>1, <3>2
  <2>4. amdShown'.time = amdTime /\ amdShown'.from = amdRefreshed'
    <3>1. amdShown' = [time |-> amdTime, from |-> amdRefreshed']
      BY <2>1
    <3> HIDE DEF AmdIInv, AmdCollect
    <3> QED BY <3>1, Zenon
  <2> HIDE DEF AmdIInv, AmdCollect
  <2>5. AmdReadingsAreRecent'
    BY <2>3, <2>4 DEF AmdReadingsAreRecent
  <2>6. amdShown' \in [time : 0..AmdMaxTime, from : 0..AmdMaxTime]
    BY <2>1, <2>2
  <2> QED BY <2>5, <2>6
<1>3. CASE AmdFresh
  BY <1>1, <1>2, <1>3 DEF BufferInv, UseIsWithinSize
<1>4. CASE ~AmdFresh
  <2>1. amdBuffer' = Decoded /\ amdRefreshed' = amdTime
    BY <1>4
  <2>2. ASSUME NEW i \in DOMAIN records
        PROVE  /\ i \in 1..MaximumGpus /\ Decoded[i] \in Uses \cup {NoUse}
               /\ Decoded[i] # NoUse => Decoded[i].used \in 0..Decoded[i].total
    <3>1. records \in Seq(RecordSet) /\ Len(records) <= MaximumGpus
      BY DEF RecordsInv, Sound
    <3>2. i \in 1..Len(records) /\ Len(records) \in Nat /\ records[i] \in RecordSet
      BY <3>1, LenProperties, ElementOfSeq
    <3>3. CardOf(i) \in Boards
      BY <3>2 DEF CardOf, RecordSet, AmdDriverInv, Adapters
    <3>4. used[CardOf(i)] \in Megabytes \cup {-1} /\ records[i].total \in Megabytes
      BY <3>2, <3>3 DEF AmdDriverInv, RecordSet
    <3>5. Decoded[i] = DecodeAmdVramSensors(used[CardOf(i)], records[i].total)
      BY DEF Decoded
    <3> HIDE DEF AmdIInv, AmdCollect
    <3>6. i \in 1..MaximumGpus
      BY <3>1, <3>2
    <3> DEFINE d == DecodeAmdVramSensors(used[CardOf(i)], records[i].total)
    <3>7. d \in Uses \cup {NoUse} /\ (d # NoUse => d.used \in 0..d.total)
      BY <3>4, DecodedIsWithinSize
    <3> HIDE DEF d
    <3> QED BY <3>5, <3>6, <3>7 DEF d
  <2>3. BufferInv' /\ UseIsWithinSize'
    <3>1. Decoded = [i \in DOMAIN records |-> Decoded[i]]
      BY DEF Decoded
    <3>2. amdTime \in 1..AmdMaxTime
      BY DEF AmdDriverInv
    <3> HIDE DEF AmdIInv, AmdCollect
    <3>3. DOMAIN amdBuffer' = DOMAIN records /\ \A i \in DOMAIN records : amdBuffer'[i] = Decoded[i]
      BY <2>1, <3>1
    <3>4. UseIsWithinSize'
      BY <2>2, <3>3 DEF UseIsWithinSize
    <3>5. amdBuffer' \in [DOMAIN amdBuffer' -> Uses \cup {NoUse}]
      BY <2>1, <2>2, <3>1, <3>3
    <3>6. DOMAIN amdBuffer' \subseteq 1..MaximumGpus
      BY <2>2, <3>3
    <3> QED BY <1>2, <2>1, <3>2, <3>4, <3>5, <3>6 DEF BufferInv
  <2> QED BY <1>1, <1>2, <2>3
<1> QED BY <1>3, <1>4

LEMMA AmdNextIInv == AmdIInv /\ [AmdNext]_amdVars => AmdIInv'
<1> SUFFICES ASSUME AmdIInv, [AmdNext]_amdVars PROVE AmdIInv'
  OBVIOUS
<1>1. CASE AmdInitialize \/ AmdClose \/ AmdCollect
  BY <1>1, AmdInitializeIInv, AmdCloseIInv, AmdCollectIInv
<1>2. CASE AmdTick \/ (\E c \in Boards, u \in Megabytes \cup {-1} : UseMemory(c, u)) \/ UNCHANGED amdVars
  <2>1. /\ UNCHANGED <<adapters, amdReady, module, context, records, amdBuffer, amdRefreshed, amdShown>>
        /\ used' \in [Boards -> Megabytes \cup {-1}] /\ amdTime' \in 1..AmdMaxTime
    BY <1>2, AmdAssumption DEF AmdTick, UseMemory, amdVars, amdProvider, amdReadings, AmdIInv, AmdDriverInv
  <2> QED BY <2>1 DEF AmdIInv, AmdDriverInv, RecordsInv, Sound, AdapterId, Listed, BufferInv,
                      ContextEndsWithClose, AmdReadingsAreRecent, UseIsWithinSize
<1> QED BY <1>1, <1>2 DEF AmdNext

LEMMA AmdTypes == AmdIInv => AmdTypeOK
<1> SUFFICES ASSUME AmdIInv PROVE AmdTypeOK
  OBVIOUS
<1>1. adapters \in [1..MaxAdapters -> Adapters] /\ MaxAdapters \in Nat
  BY AmdAssumption DEF AmdIInv, AmdDriverInv
<1>2. adapters \in Seq(Adapters)
  BY <1>1, IsASeq
<1>3. Len(adapters) = MaxAdapters
  BY <1>1, <1>2, LenProperties
<1>4. /\ Len(records) <= MaximumGpus
      /\ \A i \in DOMAIN records : records[i] \in RecordSet
  <2>1. CASE records = <<>>
    BY <2>1, AmdAssumption
  <2>2. CASE Sound(records, MaxAdapters)
    BY <2>2, LenProperties, ElementOfSeq DEF Sound
  <2> QED BY <2>1, <2>2 DEF AmdIInv, RecordsInv
<1> QED BY <1>1, <1>3, <1>4 DEF AmdTypeOK, AmdIInv, AmdDriverInv, BufferInv, RecordSet

LEMMA AmdCardsListed == AmdIInv => CardsAreListedOnce
<1> SUFFICES ASSUME AmdIInv PROVE CardsAreListedOnce
  OBVIOUS
<1>1. CASE records = <<>>
  BY <1>1 DEF CardsAreListedOnce, OneRecordPerCard, EveryCardIsListed
<1>2. CASE Sound(records, MaxAdapters)
  <2>1. /\ \A i \in DOMAIN records : records[i].id[2] = CardOf(i)
        /\ \A i \in DOMAIN records : records[i].id = <<records[i].id[1], records[i].id[2]>>
    BY <1>2 DEF Sound, AdapterId, CardOf
  <2>2. OneRecordPerCard
    <3> SUFFICES ASSUME NEW i \in DOMAIN records, NEW j \in DOMAIN records,
                        i # j, CardOf(i) = CardOf(j), records[i].id[1] = records[j].id[1]
                 PROVE  FALSE
      BY DEF OneRecordPerCard
    <3>1. records[i].id = records[j].id
      BY <2>1
    <3> QED BY <1>2, <3>1 DEF Sound
  <2>3. EveryCardIsListed
    <3> SUFFICES ASSUME Len(records) # MaximumGpus, NEW k \in DOMAIN adapters, adapters[k].usable
                 PROVE  \E j \in DOMAIN records : CardOf(j) = adapters[k].card
      BY DEF EveryCardIsListed
    <3>1. k \in 1..MaxAdapters
      BY DEF AmdIInv, AmdDriverInv
    <3>2. PICK j \in DOMAIN records : records[j].id = AdapterId(adapters[k])
      BY <1>2, <3>1 DEF Sound, Listed
    <3> QED BY <2>1, <3>2 DEF AdapterId
  <2> QED BY <2>2, <2>3 DEF CardsAreListedOnce
<1> QED BY <1>1, <1>2 DEF AmdIInv, RecordsInv

LEMMA AmdInvariance == AmdSpec => []AmdIInv
<1> QED BY AmdInitIInv, AmdNextIInv, PTL DEF AmdSpec

(* A card is listed, once, although the library lists several adapters of it and the    *)
(* first need not be usable: for any list of adapters, unless the array is full or the    *)
(* identifier of a card can be asked for through one adapter only                           *)
(* (amd_gpu_provider.cpp:235-270).                                                           *)
THEOREM CardsListedOnce == AmdSpec => []CardsAreListedOnce
<1> QED BY AmdInvariance, AmdCardsListed, PTL

-----------------------------------------------------------------------------
(* The drives. *)

\* The clocks: nothing is dated ahead of the present, and what was collected was
\* enumerated before.
StoreClocksInv ==
    /\ lastEnum <= storeTime /\ collected <= storeTime
    /\ \A s \in Slots : since[s] <= storeTime
    /\ collected # 0 => lastEnum # 0

\* A cached temperature dates from the last refresh, of drives that answered then.
StoreCacheInv == \A s \in Slots : temps[s] # 0 => temps[s] = lastTemp

\* An enumeration found every drive that had come before it and is still there.
FoundInv == lastEnum # 0 => \A s \in plugged : since[s] < lastEnum => s \in drives

StoreIInv == StoreTypeOK /\ StoreClocksInv /\ StoreCacheInv /\ FoundInv /\ DrivesAreFollowed

\* The value of a clock that may be set to the present.
LEMMA ClockTypes ==
  ASSUME StoreTypeOK
  PROVE  /\ storeTime \in 0..StoreMaxTime /\ storeTime # 0
         /\ [s \in Slots |-> 0] \in [Slots -> 0..StoreMaxTime]
         /\ Measured \in [Slots -> 0..StoreMaxTime]
  BY StorageAssumption DEF StoreTypeOK, Measured

LEMMA StoreInitIInv == StoreInit => StoreIInv
  BY StorageAssumption DEF StoreInit, StoreIInv, StoreTypeOK, StoreClocksInv, StoreCacheInv, FoundInv,
     DrivesAreFollowed, RemovedDriveVanishes, NewDriveAppears, WorkingDriveIsShown

LEMMA StoreCollectIInv ==
  ASSUME StoreIInv, CollectDrives
  PROVE  StoreIInv'
<1> USE StorageAssumption DEF StoreIInv, CollectDrives
<1>1. StoreTypeOK'
  BY ClockTypes DEF StoreTypeOK, Known, StillWorking, EnumerationDue, TemperaturesDue
<1>2. StoreClocksInv'
  BY DEF StoreClocksInv, StoreTypeOK, EnumerationDue
<1>3. ASSUME TemperaturesDue
      PROVE  StoreCacheInv' /\ RemovedDriveVanishes' /\ WorkingDriveIsShown'
  <2>1. /\ temps' = [s \in Slots |-> IF s \in StillWorking THEN storeTime ELSE 0]
        /\ lastTemp' = storeTime /\ collected' = storeTime /\ working' = StillWorking
    BY <1>3 DEF Measured
  <2>2. \A s \in Slots : temps'[s] = IF s \in StillWorking THEN storeTime ELSE 0
    BY <2>1
  <2>3. storeTime \in Nat \ {0} /\ StillWorking \subseteq Slots
    BY <2>1, <1>1 DEF StoreTypeOK
  <2> HIDE DEF CollectDrives, StoreIInv
  <2>4. StoreCacheInv'
    BY <2>1, <2>2 DEF StoreCacheInv
  <2>5. RemovedDriveVanishes' /\ WorkingDriveIsShown'
    BY <2>1, <2>2, <2>3 DEF RemovedDriveVanishes, WorkingDriveIsShown
  <2> QED BY <2>4, <2>5
<1>4. ASSUME ~TemperaturesDue
      PROVE  StoreCacheInv' /\ RemovedDriveVanishes' /\ WorkingDriveIsShown'
  <2>1. /\ UNCHANGED <<temps, lastTemp, working>> /\ collected' = storeTime
        /\ storeTime - lastTemp < TempInterval
    BY <1>4 DEF TemperaturesDue, StillWorking, StoreTypeOK
  <2>2. StoreCacheInv /\ WorkingDriveIsShown
    BY DEF DrivesAreFollowed
  <2> HIDE DEF CollectDrives, StoreIInv
  <2>3. StoreCacheInv' /\ WorkingDriveIsShown'
    BY <2>1, <2>2 DEF StoreCacheInv, WorkingDriveIsShown
  <2>4. RemovedDriveVanishes'
    <3> SUFFICES ASSUME NEW s \in Slots, temps[s] # 0
                 PROVE  storeTime - temps[s] < TempInterval
      BY <2>1 DEF RemovedDriveVanishes
    <3> QED BY <2>1, <2>2 DEF StoreCacheInv
  <2> QED BY <2>3, <2>4
<1>5. FoundInv'
  <2>1. CASE EnumerationDue
    BY <2>1 DEF Known, FoundInv
  <2>2. CASE ~EnumerationDue
    BY <2>2 DEF Known, FoundInv
  <2> QED BY <2>1, <2>2 DEF FoundInv
<1>6. NewDriveAppears'
  <2> SUFFICES ASSUME NEW s \in plugged, storeTime - since[s] >= EnumInterval
               PROVE  s \in drives'
    BY DEF NewDriveAppears
  <2>1. CASE EnumerationDue
    BY <2>1 DEF Known
  <2>2. CASE ~EnumerationDue
    <3>1. storeTime - lastEnum < EnumInterval /\ lastEnum # 0
      BY <2>2 DEF EnumerationDue, StoreTypeOK
    <3>2. s \in Slots /\ since[s] \in Nat /\ storeTime \in Nat /\ lastEnum \in Nat
      BY DEF StoreTypeOK
    <3>3. since[s] < lastEnum
      BY <3>1, <3>2
    <3> QED BY <2>2, <3>1, <3>3 DEF FoundInv, Known
  <2> QED BY <2>1, <2>2
<1> QED BY <1>1, <1>2, <1>3, <1>4, <1>5, <1>6 DEF DrivesAreFollowed

LEMMA StoreResetIInv ==
  ASSUME StoreIInv, Reset
  PROVE  StoreIInv'
  BY ClockTypes, StorageAssumption DEF StoreIInv, Reset, StoreTypeOK, StoreClocksInv, StoreCacheInv, FoundInv,
     DrivesAreFollowed, RemovedDriveVanishes, NewDriveAppears, WorkingDriveIsShown

\* A drive comes at the present: no enumeration is due to have found it yet.
LEMMA PlugIInv ==
  ASSUME StoreIInv, NEW s \in Slots, Plug(s)
  PROVE  StoreIInv'
<1> USE StorageAssumption DEF StoreIInv, Plug
<1>1. StoreTypeOK'
  BY ClockTypes DEF StoreTypeOK
<1>2. StoreClocksInv' /\ StoreCacheInv'
  BY DEF StoreClocksInv, StoreCacheInv, StoreTypeOK
<1>3. FoundInv'
  BY DEF FoundInv, StoreClocksInv, StoreTypeOK
<1>4. RemovedDriveVanishes' /\ WorkingDriveIsShown'
  BY DEF DrivesAreFollowed, RemovedDriveVanishes, WorkingDriveIsShown
<1>5. NewDriveAppears'
  BY DEF DrivesAreFollowed, NewDriveAppears, StoreClocksInv, StoreTypeOK
<1> QED BY <1>1, <1>2, <1>3, <1>4, <1>5 DEF DrivesAreFollowed

LEMMA UnplugIInv ==
  ASSUME StoreIInv, NEW s \in Slots, Unplug(s)
  PROVE  StoreIInv'
  BY DEF StoreIInv, Unplug, StoreTypeOK, StoreClocksInv, StoreCacheInv, FoundInv,
     DrivesAreFollowed, RemovedDriveVanishes, NewDriveAppears, WorkingDriveIsShown

LEMMA StoreTickIInv ==
  ASSUME StoreIInv, StoreTick
  PROVE  StoreIInv'
<1> USE StorageAssumption DEF StoreIInv, StoreTick
<1>1. StoreTypeOK' /\ StoreClocksInv'
  BY DEF StoreTypeOK, StoreClocksInv
<1>2. StoreCacheInv' /\ FoundInv'
  BY DEF StoreCacheInv, FoundInv
<1>3. DrivesAreFollowed'
  BY DEF DrivesAreFollowed, RemovedDriveVanishes, NewDriveAppears, WorkingDriveIsShown
<1> QED BY <1>1, <1>2, <1>3

LEMMA StoreNextIInv == StoreIInv /\ [StoreNext]_storeVars => StoreIInv'
<1> SUFFICES ASSUME StoreIInv, [StoreNext]_storeVars PROVE StoreIInv'
  OBVIOUS
<1>1. CASE UNCHANGED storeVars
  BY <1>1 DEF storeVars, StoreIInv, StoreTypeOK, StoreClocksInv, StoreCacheInv, FoundInv,
     DrivesAreFollowed, RemovedDriveVanishes, NewDriveAppears, WorkingDriveIsShown
<1>2. CASE StoreNext
  BY <1>2, StoreCollectIInv, StoreResetIInv, PlugIInv, UnplugIInv, StoreTickIInv DEF StoreNext
<1> QED BY <1>1, <1>2

LEMMA StoreInvariance == StoreSpec => []StoreIInv
<1>1. StoreInit => StoreIInv
  BY StoreInitIInv
<1>2. StoreIInv /\ [StoreNext]_storeVars => StoreIInv'
  BY StoreNextIInv
<1> QED BY <1>1, <1>2, PTL DEF StoreSpec

(* The provider's lists and clocks keep their types, and a drive that answers is one *)
(* with a handle (storage_temperature_provider.cpp:99-174).                            *)
THEOREM StoreTypeCorrect == StoreSpec => []StoreTypeOK
<1>1. StoreIInv => StoreTypeOK
  BY DEF StoreIInv
<1> QED BY StoreInvariance, <1>1, PTL

(* For any drives that come and go at any time and any two intervals: what is gone    *)
(* is not shown for longer than one refresh, what has come is known after one           *)
(* enumeration, and a drive that answers is shown                                        *)
(* (storage_temperature_provider.cpp:107-117, 150-174).                                   *)
THEOREM DrivesFollowed == StoreSpec => []DrivesAreFollowed
<1>1. StoreIInv => DrivesAreFollowed
  BY DEF StoreIInv
<1> QED BY StoreInvariance, <1>1, PTL

-----------------------------------------------------------------------------
(* The processors. *)

\* The sample kept for a processor is what the system said at the last query.
KeptInv == \A t \in 1..Threads : t <= previousCount => previousTimes[t] = queried[t]

UsageIInv == UsageTypeOK /\ KeptInv /\ ShareIsAtMostTheWhole

\* The use between two samples is within its bounds, and at most the whole.
LEMMA UsageOfSamples ==
  ASSUME NEW p \in Times, NEW c \in Times
  PROVE  /\ ComputeProcessorUsage(p, c) \in [busy : 0..2 * MaxCount, total : -1..2 * MaxCount]
         /\ ComputeProcessorUsage(p, c).busy \in 0..ComputeProcessorUsage(p, c).total
<1> DEFINE total == (c.kernel - p.kernel) + (c.user - p.user)
           idle == c.idle - p.idle
           skipped == \/ c.kernel < p.kernel \/ c.user < p.user \/ c.idle < p.idle
                      \/ total = 0 \/ idle > total
<1>1. ComputeProcessorUsage(p, c) =
        IF skipped THEN [busy |-> 0, total |-> 0] ELSE [busy |-> total - idle, total |-> total]
  BY DEF ComputeProcessorUsage
<1>2. MaxCount \in Nat /\ 2 * MaxCount \in Nat
  BY UsageAssumption
<1>3. ~skipped => total \in 0..2 * MaxCount /\ total - idle \in 0..total
  BY <1>2 DEF Times
<1> HIDE DEF total, idle, skipped
<1>4. CASE skipped
  BY <1>1, <1>2, <1>4
<1>5. CASE ~skipped
  <2>1. total - idle \in 0..2 * MaxCount
    BY <1>2, <1>3, <1>5
  <2> QED BY <1>1, <1>2, <1>3, <1>5, <2>1
<1> QED BY <1>4, <1>5

LEMMA UsageInitIInv == UsageInit => UsageIInv
<1> SUFFICES ASSUME UsageInit PROVE UsageIInv
  OBVIOUS
<1> USE UsageAssumption DEF UsageInit
<1>1. NoTime \in Times
  BY DEF NoTime, Times
<1>2. None \in [busy : 0..2 * MaxCount, total : -1..2 * MaxCount]
  BY DEF None
<1>3. UsageTypeOK
  BY <1>1, <1>2 DEF UsageTypeOK
<1>4. KeptInv /\ ShareIsAtMostTheWhole
  BY DEF KeptInv, ShareIsAtMostTheWhole
<1> QED BY <1>3, <1>4 DEF UsageIInv

LEMMA QueryIInv ==
  ASSUME UsageIInv, Query
  PROVE  UsageIInv'
<1> USE UsageAssumption DEF UsageIInv, Query
<1>1. NoTime \in Times
  BY DEF NoTime, Times
<1>2. None \in [busy : 0..2 * MaxCount, total : -1..2 * MaxCount]
  BY DEF None
<1>3. \A t \in 1..Threads :
         /\ usage'[t] \in [busy : 0..2 * MaxCount, total : -1..2 * MaxCount]
         /\ usage'[t] # None => usage'[t].busy \in 0..usage'[t].total
  <2> SUFFICES ASSUME NEW t \in 1..Threads
               PROVE  /\ usage'[t] \in [busy : 0..2 * MaxCount, total : -1..2 * MaxCount]
                      /\ usage'[t] # None => usage'[t].busy \in 0..usage'[t].total
    OBVIOUS
  <2> DEFINE u == ComputeProcessorUsage(previousTimes[t], times[t])
  <2>1. usage'[t] = None \/ usage'[t] = u
    BY DEF Sampled
  <2>2. /\ u \in [busy : 0..2 * MaxCount, total : -1..2 * MaxCount]
        /\ u.busy \in 0..u.total
    BY UsageOfSamples DEF UsageTypeOK
  <2> HIDE DEF u, UsageIInv, Query
  <2>3. CASE usage'[t] = None
    BY <2>3, <1>2
  <2>4. CASE usage'[t] = u
    BY <2>2, <2>4
  <2> QED BY <2>1, <2>3, <2>4
<1>4. usage' \in [1..Threads -> [busy : 0..2 * MaxCount, total : -1..2 * MaxCount]]
  <2>1. usage' = [t \in 1..Threads |-> usage'[t]]
    BY DEF Sampled
  <2> HIDE DEF UsageIInv, Query
  <2> QED BY <1>3, <2>1
<1>5. previousTimes' \in [1..Threads -> Times]
  BY <1>1 DEF UsageTypeOK
<1>6. UsageTypeOK'
  BY <1>4, <1>5 DEF UsageTypeOK
<1>7. KeptInv'
  BY DEF KeptInv
<1>8. ShareIsAtMostTheWhole'
  BY <1>3 DEF ShareIsAtMostTheWhole
<1> QED BY <1>6, <1>7, <1>8

LEMMA UsageNextIInv == UsageIInv /\ [UsageNext]_usageVars => UsageIInv'
<1> SUFFICES ASSUME UsageIInv, [UsageNext]_usageVars PROVE UsageIInv'
  OBVIOUS
<1>1. CASE Query
  BY <1>1, QueryIInv
<1>2. CASE QueryFails
  <2>1. None \in [busy : 0..2 * MaxCount, total : -1..2 * MaxCount]
    BY UsageAssumption DEF None
  <2>2. UsageTypeOK'
    BY <1>2, <2>1 DEF QueryFails, UsageIInv, UsageTypeOK
  <2>3. KeptInv' /\ ShareIsAtMostTheWhole'
    BY <1>2 DEF QueryFails, UsageIInv, KeptInv, ShareIsAtMostTheWhole
  <2> QED BY <2>2, <2>3 DEF UsageIInv
<1>3. CASE ChangeActive \/ (\E t \in 1..Threads : Run(t)) \/ UNCHANGED usageVars
  <2>1. /\ UNCHANGED <<previousCount, previousTimes, usage, queried>>
        /\ active' \in 1..Threads
    BY <1>3 DEF ChangeActive, Run, usageVars, UsageIInv, UsageTypeOK
  <2>2. times' \in [1..Threads -> Times]
    <3>1. CASE UNCHANGED times
      BY <3>1 DEF UsageIInv, UsageTypeOK
    <3>2. CASE \E t \in 1..Threads : Run(t)
      <4>1. PICK t \in 1..Threads : Run(t)
        BY <3>2
      <4>2. times \in [1..Threads -> Times] /\ times'[t] \in Times
        BY <4>1 DEF Run, UsageIInv, UsageTypeOK
      <4>3. \E v : times' = [times EXCEPT ![t] = v]
        BY <4>1 DEF Run
      <4> QED BY <4>2, <4>3
    <3> QED BY <1>3, <3>1, <3>2 DEF ChangeActive, usageVars
  <2> QED BY <2>1, <2>2 DEF UsageIInv, UsageTypeOK, KeptInv, ShareIsAtMostTheWhole
<1> QED BY <1>1, <1>2, <1>3 DEF UsageNext

LEMMA UsageInvariance == UsageSpec => []UsageIInv
<1> QED BY UsageInitIInv, UsageNextIInv, PTL DEF UsageSpec

(* A use is that of the time since the last query that succeeded, for any counters,     *)
(* failures and changes of the number of processors                                        *)
(* (system_performance_provider.cpp:71-79, 91-119).                                         *)
THEOREM UsageSinceLastQuery == UsageSpec => UsageIsSinceLastQuery
<1>1. UsageIInv /\ [UsageNext]_usageVars =>
        [\A t \in 1..Threads :
           (usage'[t] # None /\ queried' = times /\ previousCount' = active /\ usage' # usage) =>
               usage'[t] = ComputeProcessorUsage(queried[t], times[t])]_usageVars
  <2> SUFFICES ASSUME UsageIInv, UsageNext, NEW t \in 1..Threads,
                      usage'[t] # None, usage' # usage
               PROVE  usage'[t] = ComputeProcessorUsage(queried[t], times[t])
    OBVIOUS
  <2>1. CASE Query
    <3>1. t <= previousCount
      BY <2>1 DEF Query, Sampled, None
    <3> QED BY <2>1, <3>1 DEF Query, Sampled, UsageIInv, KeptInv
  <2>2. ~QueryFails /\ ~ChangeActive /\ ~(\E s \in 1..Threads : Run(s))
    BY DEF QueryFails, ChangeActive, Run
  <2> QED BY <2>1, <2>2 DEF UsageNext
<1> QED BY <1>1, UsageInitIInv, UsageNextIInv, PTL DEF UsageSpec, UsageIsSinceLastQuery

-----------------------------------------------------------------------------
(* The machines together. *)

ProvidersIInv == PrivIInv /\ StoreIInv /\ UsageIInv /\ NvIInv /\ AmdIInv /\ HostIInv

\* A step of the whole is a step of one machine and leaves the others alone.
LEMMA StepOfOne ==
  [ProvidersNext]_providersVars =>
      /\ [PrivNext]_privVars /\ [StoreNext]_storeVars /\ [UsageNext]_usageVars
      /\ [NvNext]_nvVars /\ [AmdNext]_amdVars /\ [HostNext]_hostVars
  BY DEF ProvidersNext, providersVars

LEMMA ProvidersInvariance == ProvidersSpec => []ProvidersIInv
<1>1. ProvidersInit => ProvidersIInv
  BY PrivInitIInv, StoreInitIInv, UsageInitIInv, NvInitIInv, AmdInitIInv, HostInitIInv
     DEF ProvidersInit, ProvidersIInv
<1>2. ProvidersIInv /\ [ProvidersNext]_providersVars => ProvidersIInv'
  BY StepOfOne, PrivNextIInv, StoreNextIInv, UsageNextIInv, NvNextIInv, AmdNextIInv, HostNextIInv
     DEF ProvidersIInv
<1> QED BY <1>1, <1>2, PTL DEF ProvidersSpec

(* The machines' variables keep their types together, for any constants.                *)
THEOREM ProvidersTypeCorrect == ProvidersSpec => []ProvidersTypeOK
<1>1. ProvidersIInv => ProvidersTypeOK
  BY AmdTypes, TypeHalves DEF ProvidersIInv, ProvidersTypeOK, PrivIInv, StoreIInv, UsageIInv, NvIInv, HostIInv
<1> QED BY ProvidersInvariance, <1>1, PTL

(* Whatever a provider took - mutexes, the chip's mode and page, drivers, libraries -  *)
(* it gives back on every path through a call, and with Close                             *)
(* (nct6687_provider.cpp:143-233, ddr5_temperature_provider.cpp:120-156,                   *)
(* nvidia_gpu_provider.cpp:180-310, amd_gpu_provider.cpp:215-287).                          *)
THEOREM AllReturned == ProvidersSpec => []ResourcesAreReturned
<1>1. ProvidersIInv => ResourcesAreReturned
  BY SharedAtRest DEF ProvidersIInv, NvIInv, AmdIInv, ResourcesAreReturned
<1> QED BY ProvidersInvariance, <1>1, PTL

(* What is appended was measured in the last attempt, within the interval, of the right *)
(* page and card, and no share is above the whole (nct6687_provider.cpp:217-260,           *)
(* nvidia_gpu_provider.cpp:322-334, amd_gpu_provider.cpp:197-209,                           *)
(* system_performance_provider.cpp:71-79).                                                  *)
THEOREM ReadingsSound == ProvidersSpec => []ReadingsAreSound
<1>1. ProvidersIInv => ReadingsAreSound
  BY DEF ProvidersIInv, PrivIInv, NvIInv, AmdIInv, UsageIInv, ReadingsAreSound
<1> QED BY ProvidersInvariance, <1>1, PTL

(* A card's readings are its own and every card is listed, once, in whatever orders and *)
(* however often the libraries list it (nvidia_gpu_provider.cpp:250-280,                  *)
(* amd_gpu_provider.cpp:235-270).                                                          *)
THEOREM CardsIdentified == ProvidersSpec => []CardsAreIdentified
<1>1. ProvidersIInv => CardsAreIdentified
  BY AmdCardsListed DEF ProvidersIInv, NvIInv, CardsAreIdentified
<1> QED BY ProvidersInvariance, <1>1, PTL
=============================================================================
