--------------------------- MODULE MCSensorBridge ---------------------------
(***************************************************************************)
(* Instances of SensorBridge for TLC.                                      *)
(***************************************************************************)
EXTENDS SensorBridge

CONSTANT s1

MCSlots == {s1}

\* Snapshots that all have a reading: enough to follow their stamps.
FullLives == {{s1}}

\* A snapshot without and one with a reading, counts 0 and 1: a slot may hold
\* what an earlier snapshot left in it.
MixedLives == {{}, {s1}}
=============================================================================
