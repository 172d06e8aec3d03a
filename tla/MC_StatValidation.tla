------------------------- MODULE MC_StatValidation -------------------------
(* Model values for StatValidation: two runs per series; a total time of  *)
(* 0.00 ms, 2.00 ms, or 2 ms printed without a decimal point; no average  *)
(* line (it is parsed and compared like the total time); no throughput    *)
(* line, 1 or 2 operations per second.                                    *)
EXTENDS StatValidation

MCIterations == 2
MCTotalLines == {[fmt |-> "dec", val |-> 0], [fmt |-> "dec", val |-> 2],
                 [fmt |-> "int", val |-> 2]}
MCAvgLines   == {NoLine}
MCOpsLines   == {NoLine, [fmt |-> "int", val |-> 1], [fmt |-> "int", val |-> 2]}
MCWallTimes  == {1}
=============================================================================
