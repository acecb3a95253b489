---------------------------- MODULE DmcSaveState ----------------------------
(***************************************************************************)
(* Save states and the delta modulation channel.                           *)
(*                                                                         *)
(* F5, F9 and --autoresume (src/src/main.rs) save and restore the machine  *)
(* between two instructions of the emulated CPU, when a frame has just     *)
(* been completed.  DmcState carries every field of the channel but        *)
(* dma_request: a loaded channel keeps the request flag of the machine it  *)
(* is loaded into.                                                         *)
(***************************************************************************)
EXTENDS Dmc

CONSTANT NoState    \* there is no .state file

VARIABLES
    slot,         \* the DmcState in the .state file
    slotTainted,  \* history: the file was written with a request outstanding,
                  \* or by a machine that was itself tainted
    tainted       \* history: the machine was loaded from a tainted file, or
                  \* while its own request was outstanding

saveVars == <<dmc, owed, due, slot, slotTainted, tainted>>

\* Mutant: the byte that was read ahead is left out, too.
SavedWithoutBuffer == DOMAIN NewDmc \ {"dma_request", "sample_buffer"}

Saved == DOMAIN NewDmc \ {"dma_request"}

CaptureState(d) == [f \in Saved |-> d[f]]

RestoreState(d, s) == [f \in DOMAIN NewDmc |-> IF f \in Saved THEN s[f] ELSE d[f]]

\* main.rs polls the keyboard once per frame; the frame's last instruction may
\* have ended with any kind of access.
BetweenInstructions == owed = 0 /\ ~due

SaveInit ==
    /\ Init
    /\ slot = NoState
    /\ slotTainted = FALSE
    /\ tainted = FALSE

\* F5, or --autoresume on the way out.
Save ==
    /\ BetweenInstructions
    /\ slot' = CaptureState(dmc)
    /\ slotTainted' = (tainted \/ dmc.dma_request)
    /\ UNCHANGED <<dmc, owed, due, tainted>>

\* F9, or --autoresume at the start.
Load ==
    /\ BetweenInstructions
    /\ slot # NoState
    /\ dmc' = RestoreState(dmc, slot)
    /\ tainted' = (slotTainted \/ dmc.dma_request)
    /\ UNCHANGED <<owed, due, slot, slotTainted>>

\* The emulator is left or killed, and started again on the same ROM.
StartAfresh ==
    /\ dmc' = NewDmc
    /\ owed' = 0
    /\ due' = FALSE
    /\ tainted' = FALSE
    /\ UNCHANGED <<slot, slotTainted>>

Emulate == Next /\ UNCHANGED <<slot, slotTainted, tainted>>

SaveNext == Emulate \/ Save \/ Load \/ StartAfresh

SaveSpec == SaveInit /\ [][SaveNext]_saveVars

-----------------------------------------------------------------------------

\* What is claimed for a load ("Capture the full emulator state for
\* save/load", src/src/lib.rs): a channel that has bytes to play and no byte
\* at hand has asked for one.  It does not hold: a state saved right after a
\* $4015 write loses the request, and nothing ever raises it again.
NoRequestLost ==
    (dmc.current_length > 0 /\ dmc.sample_buffer = NoByte) => dmc.dma_request

\* The request flag is all that is lost.  If none was outstanding when the
\* state was saved nor when it was loaded, the loaded machine keeps the
\* channel's invariants: whatever else a save state leaves out (timer,
\* buffer, address, ...) would break one of them.
CleanLoadKeepsInvariants ==
    ~tainted => RequestExact /\ IrqMeansDrained

=============================================================================
