---------------------------- MODULE MCSaveStates ----------------------------
(* A small instance of SaveStates for TLC: one-bit samples, and a bus that   *)
(* steals one cycle per read.                                                *)
EXTENDS SaveStates, TLC

MCPeriodTable == 0 :> 1
MCRom         == 2 :> 0 @@ 3 :> 1

=============================================================================
