------------------------- MODULE PrivilegedSensors -------------------------
(***************************************************************************)
(* PrivilegedSensorCollector and its three providers: the board's super-I/O *)
(* chip (Nct6687Provider), the memory modules (Ddr5TemperatureProvider) and *)
(* the processor (AmdZenProvider).  One thread calls them in turn.  The     *)
(* registers they read are shared with other monitoring programs, which     *)
(* agree to hold named mutexes meanwhile; such a program may keep a mutex,  *)
(* or die while it holds one.                                               *)
(*                                                                          *)
(* A reading is reduced to when it was measured and whose register page the *)
(* chip had selected at that moment.                                        *)
(***************************************************************************)
EXTENDS Integers, FiniteSets

CONSTANTS PrivMaxTime,     \* bound on the clock, in seconds
          BoardInterval,   \* nct6687_provider.cpp: kRefreshInterval
          MemoryInterval,  \* ddr5_temperature_provider.cpp: kRefreshInterval
          Registers        \* registers of the board read in one refresh

ASSUME PrivAssumption == /\ PrivMaxTime \in Nat \ {0}
                         /\ BoardInterval \in Nat \ {0}
                         /\ MemoryInterval \in Nat \ {0}
                         /\ Registers \in Nat \ {0}

VARIABLES
    holder,     \* who owns each named mutex
    opened,     \* the providers with a mutex handle and a loaded driver
    usable,     \* the providers with available_ set
    cached,     \* cached_sensors_ of the board and of the memory
    lastRead,   \* last_refresh_ of the two, 0 for a provider just opened
    tried,      \* when the last attempt to measure began (history)
    shown,      \* what the last Collect appended of their caches
    chip,       \* the super-I/O chip: mode, selected page, kind
    lost,       \* a closing write to the chip failed (history)
    reg,        \* registers that this refresh of the board has yet to read
    call,       \* the collector's call under way: Initialize or Collect
    at,         \* where the collecting thread is
    seconds     \* the clock

privVars == <<holder, opened, usable, cached, lastRead, tried, shown, chip,
              lost, reg, call, at, seconds>>
caches == <<cached, lastRead, tried, shown>>
chipVars == <<chip, lost, reg>>
owned == <<opened, usable>>

Mutexes == {"isa", "smbus", "pci"}
Cached == {"board", "memory"}
Providers == Cached \cup {"cpu"}
Pages == {"free", "ours", "theirs"}
NotRead == [time |-> 0, page |-> "free"]
Readings == [time : 0..PrivMaxTime, page : Pages]

Places == {"off", "boardOpen", "boardMutex", "probe1", "probe2", "identify1",
           "identify2", "probed", "boardRefresh", "boardLock", "boardSelect",
           "boardData", "boardFree", "boardDone", "memoryOpen",
           "memoryMutex", "memoryPci", "memoryLoad", "memoryRefresh",
           "memoryLock", "memoryRead", "cpuLock", "cpuRead", "idle"}

PrivTypeOK ==
    /\ holder \in [Mutexes -> {"nobody", "us", "tool"}]
    /\ opened \subseteq Providers
    /\ usable \subseteq Providers
    /\ cached \in [Cached -> Readings]
    /\ lastRead \in [Cached -> 0..PrivMaxTime]
    /\ tried \in [Cached -> 0..PrivMaxTime]
    /\ shown \in [Cached -> Readings]
    /\ chip \in [mode : {"run", "config"}, page : Pages, banked : BOOLEAN]
    /\ lost \subseteq {"exit", "page"}
    /\ reg \in 0..Registers
    /\ call \in {"initialize", "collect"}
    /\ at \in Places
    /\ seconds \in 1..PrivMaxTime

PrivInit ==
    /\ holder = [m \in Mutexes |-> "nobody"]
    /\ opened = {} /\ usable = {}
    /\ cached = [p \in Cached |-> NotRead]
    /\ lastRead = [p \in Cached |-> 0]
    /\ tried = [p \in Cached |-> 0]
    /\ shown = [p \in Cached |-> NotRead]
    /\ chip \in [mode : {"run"}, page : {"free"}, banked : BOOLEAN]
    /\ lost = {} /\ reg = 0
    /\ call = "initialize" /\ at = "off" /\ seconds = 1

-----------------------------------------------------------------------------
(* Waiting for a mutex: it is granted when nobody owns it, and the wait may   *)
(* time out when somebody does.  A mutex whose owner died counts as granted    *)
(* (WAIT_ABANDONED), so here it is one that nobody owns.                       *)
Grant(m) == /\ holder[m] = "nobody"
            /\ holder' = [holder EXCEPT ![m] = "us"]
Refuse(m) == holder[m] = "tool" /\ UNCHANGED holder
\* Mutant: a wait that does not give up.
AcquireForever(m, then, else) == Grant(m) /\ at' = then
\* Mutant: WaitForSingleObject's result is not looked at.
AcquireUnchecked(m, then, else) == \/ Grant(m) /\ at' = then
                                   \/ Refuse(m) /\ at' = then
Acquire(m, then, else) == \/ Grant(m) /\ at' = then
                          \/ Refuse(m) /\ at' = else

\* Mutant: only the mutex taken last is released.
ReleaseOne(M) == \E k \in M : holder' = [holder EXCEPT ![k] = "nobody"]
Release(M) == holder' = [m \in Mutexes |->
                            IF m \in M /\ holder[m] = "us" THEN "nobody" ELSE holder[m]]

\* Mutant: the handles are closed but the driver stays loaded.
ShutKeepingDriver(P) == /\ usable' = usable \ P
                        /\ cached' = [p \in Cached |-> IF p \in P THEN NotRead ELSE cached[p]]
                        /\ lastRead' = [p \in Cached |-> IF p \in P THEN 0 ELSE lastRead[p]]
                        /\ UNCHANGED <<opened, tried, shown>>
\* Close of a provider: everything it held and cached is gone.
Shut(P) == /\ opened' = opened \ P
           /\ usable' = usable \ P
           /\ cached' = [p \in Cached |-> IF p \in P THEN NotRead ELSE cached[p]]
           /\ lastRead' = [p \in Cached |-> IF p \in P THEN 0 ELSE lastRead[p]]
           /\ UNCHANGED <<tried, shown>>

-----------------------------------------------------------------------------
(* AmdZenProvider *)

\* PrivilegedSensorCollector::Initialize closes everything and begins with the
\* processor, which needs no mutex to be opened.
InitializeCpu ==
    /\ at = "off"
    /\ \/ opened' = opened \cup {"cpu"} /\ usable' = usable \cup {"cpu"}
       \/ UNCHANGED owned
    /\ call' = "initialize" /\ at' = "boardOpen"
    /\ shown' = [p \in Cached |-> NotRead]
    /\ UNCHANGED <<holder, cached, lastRead, tried, chipVars, seconds>>

LockCpu ==
    /\ at = "cpuLock"
    /\ IF "cpu" \in usable THEN Acquire("pci", "cpuRead", "idle")
                           ELSE at' = "idle" /\ UNCHANGED holder
    /\ UNCHANGED <<owned, caches, chipVars, call, seconds>>

\* ReadTemperatures reads into the snapshot itself and caches nothing, so there
\* is no older value that it could show.
ReadTemperatures ==
    /\ at = "cpuRead"
    /\ Release({"pci"})
    /\ at' = "idle"
    /\ UNCHANGED <<owned, caches, chipVars, call, seconds>>

-----------------------------------------------------------------------------
(* Nct6687Provider *)

OpenBoard ==
    /\ at = "boardOpen"
    /\ \/ opened' = opened \cup {"board"} /\ at' = "boardMutex"
       \/ UNCHANGED opened /\ at' = "memoryOpen"
    /\ UNCHANGED <<holder, usable, caches, chipVars, call, seconds>>

WaitProbe ==
    /\ at = "boardMutex"
    /\ Acquire("isa", "probe1", "memoryOpen")
    /\ IF at' = "memoryOpen" THEN Shut({"board"}) ELSE UNCHANGED <<owned, caches>>
    /\ UNCHANGED <<chipVars, call, seconds>>

NextSlot(place) == IF place \in {"probe1", "identify1"} THEN "probe2" ELSE "probed"

\* The slot is selected and the two keys are written, or one of these fails.
WriteKeys ==
    /\ at \in {"probe1", "probe2"}
    /\ \/ /\ chip' = [chip EXCEPT !.mode = "config"]
          /\ at' = IF at = "probe1" THEN "identify1" ELSE "identify2"
       \/ UNCHANGED chip /\ at' = NextSlot(at)
    /\ UNCHANGED <<holder, owned, caches, lost, reg, call, seconds>>

\* Mutant: an unknown chip is skipped without the exit key.
LeaveIfKnown ==
    \/ chip' = [chip EXCEPT !.mode = "run"] /\ lost' = lost \ {"exit"}
    \/ UNCHANGED <<chip, lost>>
\* The exit key is written whatever was found; its failure is ignored.
LeaveConfiguration ==
    \/ chip' = [chip EXCEPT !.mode = "run"] /\ lost' = lost \ {"exit"}
    \/ UNCHANGED chip /\ lost' = lost \cup {"exit"}

Identify ==
    /\ at \in {"identify1", "identify2"}
    /\ LeaveConfiguration
    /\ \/ usable' = usable \cup {"board"} /\ at' = "probed"
       \/ UNCHANGED usable /\ at' = NextSlot(at)
    /\ UNCHANGED <<holder, opened, caches, reg, call, seconds>>

EndProbe ==
    /\ at = "probed"
    /\ Release({"isa"})
    /\ IF "board" \in usable
          THEN at' = "boardRefresh" /\ UNCHANGED <<owned, caches>>
          ELSE at' = "memoryOpen" /\ Shut({"board"})
    /\ UNCHANGED <<chipVars, call, seconds>>

AfterBoard == IF call = "initialize" THEN "memoryOpen" ELSE "memoryRefresh"

\* Mutant: the cache is kept until a new measurement replaces it.
EmptiedLate(p) == UNCHANGED cached
\* The cache is emptied before the attempt.
Emptied(p) == cached' = [cached EXCEPT ![p] = NotRead]

Due(p, interval) == lastRead[p] = 0 \/ seconds - lastRead[p] >= interval

\* The part of Collect before the refresh, and the beginning of Refresh.
RefreshBoard ==
    /\ at = "boardRefresh"
    /\ IF "board" \in usable /\ (call = "initialize" \/ Due("board", BoardInterval))
          THEN /\ Emptied("board")
               /\ lastRead' = [lastRead EXCEPT !["board"] = seconds]
               /\ tried' = [tried EXCEPT !["board"] = seconds]
               /\ at' = "boardLock"
               /\ UNCHANGED shown
          ELSE /\ shown' = [shown EXCEPT !["board"] = cached["board"]]
               /\ at' = AfterBoard
               /\ UNCHANGED <<cached, lastRead, tried>>
    /\ UNCHANGED <<holder, owned, chipVars, call, seconds>>

\* What Collect appends after a refresh that ended at this step.
AppendBoard == shown' = IF call = "collect"
                           THEN [shown EXCEPT !["board"] = cached["board"]]
                           ELSE shown

LockBoard ==
    /\ at = "boardLock"
    /\ Acquire("isa", "boardSelect", AfterBoard)
    /\ reg' = IF at' = "boardSelect" THEN Registers ELSE 0
    /\ IF at' = AfterBoard THEN AppendBoard ELSE UNCHANGED shown
    /\ UNCHANGED <<owned, cached, lastRead, tried, chip, lost, call, seconds>>

NextRegister == /\ reg' = reg - 1
                /\ at' = IF reg = 1 THEN "boardDone" ELSE "boardSelect"

\* ReadEcByte up to the index write: wait for a free page, or free it by force
\* after 50 ms, and select ours.  ReadBankedByte selects its bank at once.
SelectPage ==
    /\ at = "boardSelect"
    /\ \/ chip' = [chip EXCEPT !.page = "ours"] /\ at' = "boardData" /\ UNCHANGED reg
       \/ UNCHANGED chip /\ NextRegister
    /\ UNCHANGED <<holder, owned, caches, lost, call, seconds>>

\* The data read: it may fail, or the value may be implausible.
ReadRegister ==
    /\ at = "boardData"
    /\ \/ cached' = [cached EXCEPT !["board"] = [time |-> seconds, page |-> chip.page]]
       \/ UNCHANGED cached
    /\ at' = "boardFree"
    /\ UNCHANGED <<holder, owned, lastRead, tried, shown, chipVars, call, seconds>>

\* Mutant: the page is given back only after a read that succeeded.
GiveBackIfRead ==
    \/ chip' = [chip EXCEPT !.page = "free"] /\ lost' = lost \ {"page"}
    \/ UNCHANGED <<chip, lost>>
\* The page is given back, whether or not the read succeeded.
GiveBack ==
    \/ chip' = [chip EXCEPT !.page = "free"] /\ lost' = lost \ {"page"}
    \/ UNCHANGED chip /\ lost' = lost \cup {"page"}

FreePage ==
    /\ at = "boardFree"
    /\ IF chip.banked THEN UNCHANGED <<chip, lost>> ELSE GiveBack
    /\ NextRegister
    /\ UNCHANGED <<holder, owned, caches, call, seconds>>

EndBoard ==
    /\ at = "boardDone"
    /\ Release({"isa"})
    /\ lastRead' = [lastRead EXCEPT !["board"] = seconds]
    /\ AppendBoard
    /\ at' = AfterBoard
    /\ UNCHANGED <<owned, cached, tried, chipVars, call, seconds>>

-----------------------------------------------------------------------------
(* Ddr5TemperatureProvider *)

\* A mutex that cannot be created counts as one that cannot be acquired.
OpenMemory ==
    /\ at = "memoryOpen"
    /\ \/ opened' = opened \cup {"memory"} /\ at' = "memoryMutex"
       \/ UNCHANGED opened /\ at' = "idle"
    /\ UNCHANGED <<holder, usable, caches, chipVars, call, seconds>>

WaitSmbus ==
    /\ at = "memoryMutex"
    /\ Acquire("smbus", "memoryPci", "idle")
    /\ IF at' = "idle" THEN Shut({"memory"}) ELSE UNCHANGED <<owned, caches>>
    /\ UNCHANGED <<chipVars, call, seconds>>

\* Mutant: the second wait's failure returns with the first mutex held.
WaitPciKeeping ==
    /\ at = "memoryPci"
    /\ \/ Grant("pci") /\ at' = "memoryLoad" /\ UNCHANGED <<owned, caches>>
       \/ /\ Refuse("pci")
          /\ at' = "idle" /\ Shut({"memory"})
    /\ UNCHANGED <<chipVars, call, seconds>>
WaitPci ==
    /\ at = "memoryPci"
    /\ \/ Grant("pci") /\ at' = "memoryLoad" /\ UNCHANGED <<owned, caches>>
       \/ /\ holder["pci"] = "tool"
          /\ Release({"smbus"})
          /\ at' = "idle" /\ Shut({"memory"})
    /\ UNCHANGED <<chipVars, call, seconds>>

\* The buses are tried one by one; the provider is usable if one answers.
LoadBuses ==
    /\ at = "memoryLoad"
    /\ Release({"pci", "smbus"})
    /\ \/ usable' = usable \cup {"memory"} /\ at' = "memoryRefresh" /\ UNCHANGED <<opened, caches>>
       \/ at' = "idle" /\ Shut({"memory"})
    /\ UNCHANGED <<chipVars, call, seconds>>

AfterMemory == IF call = "initialize" THEN "idle" ELSE "cpuLock"
AppendMemory(r) == shown' = IF call = "collect" THEN [shown EXCEPT !["memory"] = r] ELSE shown

RefreshMemory ==
    /\ at = "memoryRefresh"
    /\ IF "memory" \in usable /\ Due("memory", MemoryInterval)
          THEN /\ Emptied("memory")
               /\ lastRead' = [lastRead EXCEPT !["memory"] = seconds]
               /\ tried' = [tried EXCEPT !["memory"] = seconds]
               /\ at' = "memoryLock"
               /\ UNCHANGED shown
          ELSE /\ AppendMemory(cached["memory"])
               /\ at' = AfterMemory
               /\ UNCHANGED <<cached, lastRead, tried>>
    /\ UNCHANGED <<holder, owned, chipVars, call, seconds>>

LockMemory ==
    /\ at = "memoryLock"
    /\ Acquire("smbus", "memoryRead", AfterMemory)
    /\ IF at' = AfterMemory THEN AppendMemory(cached["memory"]) ELSE UNCHANGED shown
    /\ UNCHANGED <<owned, cached, lastRead, tried, chipVars, call, seconds>>

\* The modules are read into a buffer that replaces the cache.
ReadMemory ==
    /\ at = "memoryRead"
    /\ \E r \in {NotRead, [time |-> seconds, page |-> "ours"]} :
          cached' = [cached EXCEPT !["memory"] = r] /\ AppendMemory(r)
    /\ Release({"smbus"})
    /\ at' = AfterMemory
    /\ UNCHANGED <<owned, lastRead, tried, chipVars, call, seconds>>

-----------------------------------------------------------------------------
(* PrivilegedSensorCollector *)

\* Collect: the board, the memory, then the processor.
BeginCollect ==
    /\ at = "idle"
    /\ call' = "collect" /\ at' = "boardRefresh"
    /\ shown' = [p \in Cached |-> NotRead]
    /\ UNCHANGED <<holder, owned, cached, lastRead, tried, chipVars, seconds>>

Close ==
    /\ at = "idle"
    /\ Shut(Providers)
    /\ at' = "off"
    /\ UNCHANGED <<holder, chipVars, call, seconds>>

(* The other program *)

ToolTakes(m) ==
    /\ holder[m] = "nobody"
    /\ holder' = [holder EXCEPT ![m] = "tool"]
    /\ UNCHANGED <<owned, caches, chipVars, call, at, seconds>>

ToolSelects ==
    /\ holder["isa"] = "tool"
    /\ chip' = [chip EXCEPT !.page = "theirs"]
    /\ UNCHANGED <<holder, owned, caches, lost, reg, call, at, seconds>>

\* It gives the page back before it gives the mutex back.
ToolGives(m) ==
    /\ holder[m] = "tool"
    /\ holder' = [holder EXCEPT ![m] = "nobody"]
    /\ chip' = IF m = "isa" /\ chip.page = "theirs" THEN [chip EXCEPT !.page = "free"] ELSE chip
    /\ UNCHANGED <<owned, caches, lost, reg, call, at, seconds>>

\* It may die with its page selected; its mutexes are abandoned.
ToolDies ==
    /\ \E m \in Mutexes : holder[m] = "tool"
    /\ holder' = [m \in Mutexes |-> IF holder[m] = "tool" THEN "nobody" ELSE holder[m]]
    /\ UNCHANGED <<owned, caches, chipVars, call, at, seconds>>

\* A collection may last long; for the bound's sake time stands still in some.
Second ==
    /\ seconds < PrivMaxTime
    /\ at \in {"idle", "boardLock", "boardData", "memoryLock"}
    /\ seconds' = seconds + 1
    /\ UNCHANGED <<holder, owned, caches, chipVars, call, at>>

-----------------------------------------------------------------------------
BoardStep == \/ OpenBoard \/ WaitProbe \/ WriteKeys \/ Identify \/ EndProbe \/ RefreshBoard
             \/ LockBoard \/ SelectPage \/ ReadRegister \/ FreePage \/ EndBoard
MemoryStep == \/ OpenMemory \/ WaitSmbus \/ WaitPci \/ LoadBuses
              \/ RefreshMemory \/ LockMemory \/ ReadMemory
CpuStep == LockCpu \/ ReadTemperatures
\* A call of the collector that is under way goes on.
GoOn == BoardStep \/ MemoryStep \/ CpuStep
Tool == \/ \E m \in Mutexes : ToolTakes(m) \/ ToolGives(m)
        \/ ToolSelects \/ ToolDies

PrivNext == InitializeCpu \/ GoOn \/ BeginCollect \/ Close \/ Tool \/ Second

\* Every wait of the thread has a timeout, so it goes on; nobody has to call it.
PrivFairness == WF_privVars(GoOn)
PrivSpec == PrivInit /\ [][PrivNext]_privVars /\ PrivFairness

-----------------------------------------------------------------------------
(* Whatever path a call of a provider takes - a mutex refused, a driver that  *)
(* cannot be loaded, an unknown chip - the thread owns no mutex between two    *)
(* calls of the collector (nct6687_provider.cpp:143-203,                        *)
(* ddr5_temperature_provider.cpp:120-156): no other program is kept out.        *)
NothingHeldAtRest == at \in {"off", "idle"} => \A m \in Mutexes : holder[m] # "us"

(* "A failed refresh must not republish the preceding measurement as live"    *)
(* (nct6687_provider.cpp:245; ddr5_temperature_provider.cpp:162): what Collect *)
(* appends was measured in the last attempt or not at all.                      *)
NoOldMeasurement == \A p \in Cached : shown[p] # NotRead => shown[p].time >= tried[p]

(* A value of the board was read while the chip had our page selected, though  *)
(* other programs select theirs and may die before they give it back            *)
(* (nct6687_provider.cpp:217-233).                                              *)
ReadsOwnPage == \A p \in Cached : shown[p] # NotRead => shown[p].page = "ours"

(* When the thread lets go of the chip it has left configuration mode and given *)
(* the page back, unless the very write that does so failed                      *)
(* (nct6687_provider.cpp:172-185, 231).                                          *)
ChipLeftUsable ==
    holder["isa"] # "us" =>
        /\ chip.mode = "run" \/ "exit" \in lost
        /\ chip.banked \/ chip.page # "ours" \/ "page" \in lost

(* A provider that is not available keeps neither a driver nor a handle open    *)
(* between calls, nor anything to show.                                          *)
UnusableIsClosed ==
    at \in {"off", "idle"} =>
        /\ opened = usable
        /\ \A p \in Cached \ usable : cached[p] = NotRead

(* What other programs share is given back: see the three parts.                *)
RegistersShared == NothingHeldAtRest /\ UnusableIsClosed /\ ChipLeftUsable

(* A call of the collector ends although another program never gives up its      *)
(* mutexes, in whatever order the two take them.                                  *)
CallEnds == (at \notin {"off", "idle"}) ~> (at \in {"off", "idle"})
=============================================================================
