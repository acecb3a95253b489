--------------------------- MODULE MCDmcSaveState ---------------------------
(* A small instance of DmcSaveState for TLC: one-bit bytes, and a bus that   *)
(* steals one cycle per read.                                                *)
EXTENDS DmcSaveState, TLC

MCPeriodTable == 0 :> 1
MCRom         == 2 :> 0 @@ 3 :> 1

=============================================================================
