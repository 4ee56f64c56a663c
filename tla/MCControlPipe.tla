---------------------------- MODULE MCControlPipe ----------------------------
(***************************************************************************)
(* Instances of ControlPipe for TLC: one game, and the code's limits in    *)
(* ticks of five seconds (10 s is two ticks, 15 s three, 32 s at least     *)
(* six).                                                                   *)
(***************************************************************************)
EXTENDS ControlPipe

CONSTANT g1

MCGames == {g1}
=============================================================================
