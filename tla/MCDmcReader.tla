---------------------------- MODULE MCDmcReader ----------------------------
(* Small instances of DmcReader for TLC.                                    *)
EXTENDS DmcReader, TLC

MCPeriodTable == 0 :> 2 @@ 1 :> 1
MCRom         == 4 :> 1 @@ 5 :> 2 @@ 6 :> 0 @@ 7 :> 3

=============================================================================
