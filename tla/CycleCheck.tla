----------------------------- MODULE CycleCheck -----------------------------
(***************************************************************************)
(* has_cycle of _test_circular_dependencies in                             *)
(* src/context/context.reflection/context/tools/scripts/                   *)
(* run_edge_case_tests.py: a depth-first search over a template            *)
(* dependency map that threads one 'visited' set and one 'path' list       *)
(* through every recursive call, stops at the first cycle it sees, and     *)
(* removes a node from the path once all its dependencies are explored.    *)
(*                                                                         *)
(* The recursion is translated as two mutually recursive operators that    *)
(* return the search state (found, visited, path) instead of mutating it.  *)
(* A state of this module is one input: a dependency map and a start; the  *)
(* invariant compares the search with reachability of a cycle.             *)
(***************************************************************************)
EXTENDS Naturals, Sequences, SequencesExt, FiniteSets, Relation

CONSTANTS
  Nodes,     \* template names
  MaxDeps    \* longest dependency list

VARIABLES
  deps,      \* the dependency map: template -> list of templates
  start      \* the template the search starts from

vars == <<deps, start>>

\* deps.get(start, []): a template with no entry is a map entry <<>>.
DepsOf(d, n) == d[n]

(***************************************************************************)
(* has_cycle(deps, start, visited, path) and its for-loop over the         *)
(* dependencies; st is [visited, path] on entry, and each returns          *)
(* [found, visited, path] on exit, path as left by the Python code.        *)
(***************************************************************************)
RECURSIVE has_cycle(_, _, _), ForEachDep(_, _, _)

\* Mutant: 'path.remove(start)' dropped, so a node stays on the path after
\* all its dependencies are explored.
RECURSIVE has_cycle_KeepPath(_, _, _), ForEachDep_KeepPath(_, _, _)
has_cycle_KeepPath(d, n, st) ==
  IF n \in ToSet(st.path) THEN [found |-> TRUE, visited |-> st.visited, path |-> st.path]
  ELSE IF n \in st.visited THEN [found |-> FALSE, visited |-> st.visited, path |-> st.path]
  ELSE ForEachDep_KeepPath(d, DepsOf(d, n),
                           [visited |-> st.visited \cup {n}, path |-> Append(st.path, n)])
ForEachDep_KeepPath(d, list, st) ==
  IF list = <<>> THEN [found |-> FALSE, visited |-> st.visited, path |-> st.path]
  ELSE LET r == has_cycle_KeepPath(d, Head(list), st)
       IN  IF r.found THEN r
           ELSE ForEachDep_KeepPath(d, Tail(list), [visited |-> r.visited, path |-> r.path])

has_cycle(d, n, st) ==
  IF n \in ToSet(st.path) THEN [found |-> TRUE, visited |-> st.visited, path |-> st.path]
  ELSE IF n \in st.visited THEN [found |-> FALSE, visited |-> st.visited, path |-> st.path]
  ELSE LET r == ForEachDep(d, DepsOf(d, n),
                           [visited |-> st.visited \cup {n}, path |-> Append(st.path, n)])
       IN  IF r.found THEN r
           ELSE [r EXCEPT !.path = RemoveFirst(r.path, n)]

ForEachDep(d, list, st) ==
  IF list = <<>> THEN [found |-> FALSE, visited |-> st.visited, path |-> st.path]
  ELSE LET r == has_cycle(d, Head(list), st)
       IN  IF r.found THEN r
           ELSE ForEachDep(d, Tail(list), [visited |-> r.visited, path |-> r.path])

\* The call of the test: visited=None, path=None become set() and [].
cycle_detected(d, n) == has_cycle(d, n, [visited |-> {}, path |-> <<>>]).found

-----------------------------------------------------------------------------
\* Every dependency map over Nodes with lists of at most MaxDeps entries
\* (repeats allowed, as in a Python list).
DepMaps == [Nodes -> BoundedSeq(Nodes, MaxDeps)]

Init ==
  /\ deps \in DepMaps
  /\ start \in Nodes

\* The input does not change.
Next == UNCHANGED vars

Spec == Init /\ [][Next]_vars

-----------------------------------------------------------------------------
\* The dependency relation and its closures (community module Relation).
DependsOn(d) == [p \in Nodes \X Nodes |-> p[2] \in ToSet(d[p[1]])]

\* A template reachable from start (start included) lies on a cycle.
CycleReachable(d, n) ==
  LET tc  == TransitiveClosure(DependsOn(d), Nodes)
      rtc == ReflexiveTransitiveClosure(DependsOn(d), Nodes)
  IN  \E m \in Nodes : rtc[n, m] /\ tc[m, m]

\* has_cycle reports a cycle exactly when one is reachable from the start
\* template: the shared 'visited' set never hides a cycle (a node is only
\* skipped after its whole subtree was searched) and the 'path' list,
\* cleaned on the way back, never reports a node reached twice along two
\* different branches (a diamond) as a cycle.
HasCycleIsReachableCycle ==
  cycle_detected(deps, start) <=> CycleReachable(deps, start)

====
