CONSTANTS
  p1 = p1
  p2 = p2
  Procs <- MCProcs
  Names <- MCNamesSame
  Templates <- MCTemplates
SPECIFICATION Spec
INVARIANT CreatedProjectKept
