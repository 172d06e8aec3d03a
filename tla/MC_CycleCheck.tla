--------------------------- MODULE MC_CycleCheck ---------------------------
(* Three templates, each depending on at most two: every shape of cycle   *)
(* (self-loop, two- and three-cycles), diamonds, and repeated entries.     *)
EXTENDS CycleCheck

CONSTANTS A, B, C

MCNodes   == {A, B, C}
MCMaxDeps == 2
=============================================================================
