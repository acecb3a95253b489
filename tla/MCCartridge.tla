---------------------------- MODULE MCCartridge ----------------------------
EXTENDS Cartridge

\* Pages of PRG and of CHR ROM, one pair for each kind of size that the code's
\* arithmetic tells apart.
MCRomSizes ==
    {<<0, 8>>,     \* no PRG ROM
     <<2, 8>>,     \* one bank of 16 KB, as NROM may have
     <<4, 0>>,     \* what fits the windows, and no CHR ROM
     <<5, 24>>,    \* an odd number of pages (Mmc5, in the repository's tests)
     <<6, 24>>,    \* an odd number of 16 KB banks
     <<300, 24>>}  \* more pages than a register of a byte names

=============================================================================
