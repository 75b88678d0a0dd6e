SPECIFICATION DeletionSpec
CONSTANTS
  e1 = e1  e2 = e2  f1 = f1  f2 = f2  j1 = j1  j2 = j2
  None = None
  Default = Default
  Entity = {e1, e2}
  Field = {f1, f2}
  Unselected = {f2}
  Job = {j1, j2}
  TableOf <- TraceAndSpan
  Concurrency = 1
  MaxVersion = 2
  MaxAttempts = 2
  MaxSweeps = 1
  MaxReplays = 1
  PruneChunk = 1
  UserField = f1
  MaxErasures = 1
INVARIANTS ConvergedUnerased ErasedStaysErased PayloadsThere UserForgotten
SYMMETRY JobSymmetry
ACTION_CONSTRAINT SweepsApart
CONSTRAINTS AllFieldsOrNone SweepOrErasure
