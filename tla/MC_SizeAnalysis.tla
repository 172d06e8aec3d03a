-------------------------- MODULE MC_SizeAnalysis --------------------------
(* Model values for SizeAnalysis: two sizes, two runs per variant, and a   *)
(* throughput of 1 or 2 operations per second, or no throughput line.      *)
EXTENDS SizeAnalysis

MCSizes         == <<64, 128>>
MCIterations    == 2
MCOpsValues     == {1, 2}
=============================================================================
