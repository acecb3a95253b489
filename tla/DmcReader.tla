----------------------------- MODULE DmcReader -----------------------------
(* The channel implements SampleReader.                                    *)
EXTENDS Dmc

SampleAddrs == { SampleBase + v * AddrUnit : v \in RegVals } \union {SampleBase}
SampleLens  == { v * LenUnit + 1 : v \in RegVals } \union {1}

Reader ==
    INSTANCE SampleReader
        WITH at      <- dmc.current_address,
             left    <- dmc.current_length,
             buffer  <- dmc.sample_buffer,
             shifter <- dmc.shift_register,
             silent  <- dmc.silence,
             irq     <- dmc.irq_pending

\* Bytes pass from ROM through the buffer to the shift register in address
\* order, none lost, none read twice, none overwritten, whatever the program
\* writes to $4010-$4015 meanwhile (Dmc::load_sample, clock_output).
ImplementsReader == Reader!Safety

\* And no byte that is wanted waits for ever: no request is lost between the
\* channel and the bus.
ReaderProgress == Reader!ReaderProgress

=============================================================================
