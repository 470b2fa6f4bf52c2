---------------------------- MODULE MCStatCounter ----------------------------
EXTENDS StatCounterReads

(* A table with a gap: 6 is no multiple of the coarser interval 8.         *)
MCReductions == <<2, 4, 6, 8, 16, 24>>
=============================================================================
