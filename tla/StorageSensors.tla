-------------------------- MODULE StorageSensors --------------------------
(***************************************************************************)
(* StorageTemperatureProvider: drives are enumerated once a minute, their   *)
(* temperatures are read every five seconds through the handles opened then. *)
(* Drives come and go at any time; a handle outlives its drive, but queries  *)
(* through it fail from then on.                                             *)
(***************************************************************************)
EXTENDS Integers

CONSTANTS Slots,          \* physical drive indices
          EnumInterval,   \* kDriveEnumerationInterval
          TempInterval,   \* kTemperatureRefreshInterval
          StoreMaxTime    \* bound on the clock

ASSUME StorageAssumption == /\ EnumInterval \in Nat \ {0}
                            /\ TempInterval \in Nat \ {0}
                            /\ StoreMaxTime \in Nat \ {0}

VARIABLES
    plugged,    \* slots that hold a drive
    since,      \* when the drive in a slot came
    drives,     \* slots of the handles in drives_
    working,    \* handles whose drive is still there
    temps,      \* cached_sensors_: when each was measured, 0 for none
    lastEnum,   \* last_enumeration_
    lastTemp,   \* last_temperature_refresh_
    collected,  \* when the last Collect ran, 0 for never (history)
    storeTime   \* the clock

storeVars == <<plugged, since, drives, working, temps, lastEnum, lastTemp, collected, storeTime>>

StoreTypeOK ==
    /\ plugged \subseteq Slots /\ drives \subseteq Slots /\ working \subseteq drives
    /\ since \in [Slots -> 0..StoreMaxTime]
    /\ temps \in [Slots -> 0..StoreMaxTime]
    /\ {lastEnum, lastTemp, collected} \subseteq 0..StoreMaxTime
    /\ storeTime \in 1..StoreMaxTime

StoreInit ==
    /\ plugged \in SUBSET Slots
    /\ since = [s \in Slots |-> 0]
    /\ drives = {} /\ working = {}
    /\ temps = [s \in Slots |-> 0]
    /\ lastEnum = 0 /\ lastTemp = 0 /\ collected = 0
    /\ storeTime = 1

\* Mutant: enumerated only as long as no drive is known.
EnumerationDueOnce == drives = {} \/ lastEnum = 0
\* A drive without a handle anywhere, an enumeration never made, or one too old.
EnumerationDue == drives = {} \/ lastEnum = 0 \/ storeTime - lastEnum >= EnumInterval

\* EnumerateDrives closes every handle, which empties the cache as well, and opens
\* the drives that are there.
Known == IF EnumerationDue THEN plugged ELSE drives
StillWorking == IF EnumerationDue THEN plugged ELSE working

\* Mutant: the temperatures' clock is not reset by an enumeration.
TemperaturesDueByTime == lastTemp = 0 \/ storeTime - lastTemp >= TempInterval
TemperaturesDue == EnumerationDue \/ lastTemp = 0 \/ storeTime - lastTemp >= TempInterval

\* Mutant: a drive that does not answer keeps its last temperature.
MeasuredOrKept == [s \in Slots |-> IF s \in StillWorking THEN storeTime ELSE temps[s]]
\* RefreshTemperatures: only drives that answer are in the cache afterwards.
Measured == [s \in Slots |-> IF s \in StillWorking THEN storeTime ELSE 0]

CollectDrives ==
    /\ drives' = Known
    /\ working' = StillWorking
    /\ lastEnum' = IF EnumerationDue THEN storeTime ELSE lastEnum
    /\ lastTemp' = IF TemperaturesDue THEN storeTime ELSE lastTemp
    /\ temps' = IF TemperaturesDue THEN Measured
                ELSE IF EnumerationDue THEN [s \in Slots |-> 0] ELSE temps
    /\ collected' = storeTime
    /\ UNCHANGED <<plugged, since, storeTime>>

\* The end of the worker.
Reset ==
    /\ drives' = {} /\ working' = {}
    /\ temps' = [s \in Slots |-> 0]
    /\ lastEnum' = 0 /\ lastTemp' = 0 /\ collected' = 0
    /\ UNCHANGED <<plugged, since, storeTime>>

Plug(s) == /\ s \notin plugged
           /\ plugged' = plugged \cup {s}
           /\ since' = [since EXCEPT ![s] = storeTime]
           /\ UNCHANGED <<drives, working, temps, lastEnum, lastTemp, collected, storeTime>>

Unplug(s) == /\ s \in plugged
             /\ plugged' = plugged \ {s}
             /\ working' = working \ {s}
             /\ UNCHANGED <<since, drives, temps, lastEnum, lastTemp, collected, storeTime>>

StoreTick == /\ storeTime < StoreMaxTime
             /\ storeTime' = storeTime + 1
             /\ UNCHANGED <<plugged, since, drives, working, temps, lastEnum, lastTemp, collected>>

StoreNext == \/ CollectDrives \/ Reset \/ StoreTick
             \/ \E s \in Slots : Plug(s) \/ Unplug(s)
StoreSpec == StoreInit /\ [][StoreNext]_storeVars

-----------------------------------------------------------------------------
(* A temperature that a Collect appended was measured less than TempInterval    *)
(* before it: a drive that is gone is not shown for longer than that            *)
(* (storage_temperature_provider.cpp:113-117, 154-174).                          *)
RemovedDriveVanishes ==
    \A s \in Slots : temps[s] # 0 => collected - temps[s] < TempInterval

(* A drive that has been there for EnumInterval at a Collect is known           *)
(* (storage_temperature_provider.cpp:107-112), although drives known before it   *)
(* keep answering.                                                               *)
NewDriveAppears ==
    \A s \in plugged : collected # 0 /\ collected - since[s] >= EnumInterval => s \in drives

(* An enumeration empties the cache; the drives that answer are nevertheless     *)
(* shown by the very Collect that enumerated them                                *)
(* (storage_temperature_provider.cpp:111, 150-151).                               *)
WorkingDriveIsShown == \A s \in working : temps[s] # 0

(* Drives are followed as they come and go: see the three parts.                 *)
DrivesAreFollowed == RemovedDriveVanishes /\ NewDriveAppears /\ WorkingDriveIsShown
=============================================================================
