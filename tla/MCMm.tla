------------------------------- MODULE MCMm ---------------------------------
(***************************************************************************)
(* OneChunkSize mixes runs of blocks with chunks of the smallest level;    *)
(* TwoChunkSizes mixes two chunk levels.                                   *)
(***************************************************************************)
EXTENDS Mm

OneChunkSize == {200, 3000, 5000}
TwoChunkSizes == {700, 2000}
=============================================================================
