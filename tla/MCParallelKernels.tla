------------------------- MODULE MCParallelKernels -------------------------
(* ParallelKernels on registers of two lanes, blocks and tiles of two.     *)
EXTENDS ParallelKernels

=============================================================================
