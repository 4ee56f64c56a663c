---------------------------- MODULE MCProviders ----------------------------
(***************************************************************************)
(* One instance for TLC of the machines below the sensor bridge: the        *)
(* providers and the service that hosts them.  They share no state, so a      *)
(* behaviour moves one of them and leaves the others as they began; `part'    *)
(* says which one.                                                            *)
(***************************************************************************)
EXTENDS PrivilegedSensors, StorageSensors, ProcessorUsage, NvidiaGpu, AmdGpu, ServiceHost

CONSTANTS c1, c2

MCCards == {c1, c2}
MCNewest == {c1}

VARIABLE part

providersVars == <<part, privVars, storeVars, usageVars, nvVars, amdVars, hostVars>>

\* Nobody asks an adapter that cannot be used: it need not both answer and not, nor
\* be of each card.  The cards are alike, so the first adapter may be of a certain one.
FirstBoard == CHOOSE c \in Boards : TRUE

\* What varies at the start of a machine varies only if it is the one that moves.
ProvidersInit ==
    /\ part \in {"privileged", "storage", "usage", "nvidia", "amd", "host"}
    /\ PrivInit /\ (part # "privileged" => ~chip.banked)
    /\ StoreInit /\ (part # "storage" => plugged = {})
    /\ UsageInit /\ (part # "usage" => active = 1)
    /\ NvInit /\ (part # "nvidia" => known = {} /\ listing = <<>> /\ \A c \in Cards : channels[c] = 0)
    /\ AmdInit /\ adapters[1].card = FirstBoard
               /\ (\A n \in DOMAIN adapters :
                      adapters[n].usable \/ (~adapters[n].answers /\ adapters[n].card = FirstBoard))
               /\ (part # "amd" => /\ \A n \in DOMAIN adapters : adapters[n] = adapters[1]
                                   /\ ~adapters[1].usable /\ \A m \in Megabytes : adapters[1].size <= m
                                   /\ \A c \in Boards : used[c] = 0)
    /\ HostInit /\ (part # "host" => ~registered)

ProvidersNext ==
    /\ UNCHANGED part
    /\ \/ part = "privileged" /\ PrivNext /\ UNCHANGED <<storeVars, usageVars, nvVars, amdVars, hostVars>>
       \/ part = "storage" /\ StoreNext /\ UNCHANGED <<privVars, usageVars, nvVars, amdVars, hostVars>>
       \/ part = "usage" /\ UsageNext /\ UNCHANGED <<privVars, storeVars, nvVars, amdVars, hostVars>>
       \/ part = "nvidia" /\ NvNext /\ UNCHANGED <<privVars, storeVars, usageVars, amdVars, hostVars>>
       \/ part = "amd" /\ AmdNext /\ UNCHANGED <<privVars, storeVars, usageVars, nvVars, hostVars>>
       \/ part = "host" /\ HostNext /\ UNCHANGED <<privVars, storeVars, usageVars, nvVars, amdVars>>

ProvidersSpec == /\ ProvidersInit /\ [][ProvidersNext]_providersVars
                 /\ PrivFairness /\ HostFairness

(* Each machine's variables stay of their types. *)
ProvidersTypeOK == /\ PrivTypeOK /\ StoreTypeOK /\ UsageTypeOK
                   /\ NvTypeOK /\ AmdTypeOK /\ HostTypeOK

(* Whatever a provider took - mutexes, the chip's mode and page, drivers,     *)
(* libraries - it gives back on every path through a call, and with Close      *)
(* (nct6687_provider.cpp:143-233, ddr5_temperature_provider.cpp:120-156,        *)
(* nvidia_gpu_provider.cpp:180-310, amd_gpu_provider.cpp:215-287).              *)
ResourcesAreReturned == RegistersShared /\ LibrariesAreBalanced /\ ContextEndsWithClose

(* What Collect appends was measured in the last attempt, recently, of the      *)
(* chip's right page, and no share is above the whole                            *)
(* (nct6687_provider.cpp:217-260, nvidia_gpu_provider.cpp:322-334,               *)
(* amd_gpu_provider.cpp:197-209, system_performance_provider.cpp:71-79).         *)
ReadingsAreSound == /\ NoOldMeasurement /\ ReadsOwnPage
                    /\ ReadingsAreRecent /\ AmdReadingsAreRecent
                    /\ UseIsWithinSize /\ ShareIsAtMostTheWhole

(* Two libraries list the same cards in different orders and a library lists a  *)
(* card several times: the memory shown under a card's name is that card's, and   *)
(* every card is listed, once (nvidia_gpu_provider.cpp:250-280,                    *)
(* amd_gpu_provider.cpp:235-270).                                                   *)
CardsAreIdentified == MemoryIsOfSameCard /\ CardsAreListedOnce
=============================================================================
