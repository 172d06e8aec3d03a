---------------------------- MODULE MC_SlcCreate ----------------------------
EXTENDS SlcCreate

CONSTANTS p1, p2

MCProcs == {p1, p2}

\* Two 'slc create' runs for two different projects.
MCNamesDistinct == [p \in MCProcs |-> IF p = p1 THEN "alpha" ELSE "beta"]

\* Two 'slc create' runs for the same project name in the same directory.
MCNamesSame == [p \in MCProcs |-> "alpha"]

MCTemplates == {"python", "javascript", "documentation", "other", "invalid"}
====
