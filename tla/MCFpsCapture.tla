---------------------------- MODULE MCFpsCapture ----------------------------
(***************************************************************************)
(* Instances of FpsCapture for TLC: two games with two swap chains.        *)
(***************************************************************************)
EXTENDS FpsCapture

CONSTANTS g1, g2, c1, c2

MCGames  == {g1, g2}
MCChains == {c1, c2}
=============================================================================
