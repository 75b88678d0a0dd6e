SPECIFICATION FairSpec
CONSTANTS
  e1 = e1  f1 = f1  f2 = f2  j1 = j1  j2 = j2
  None = None
  Default = Default
  Entity = {e1}
  Field = {f1, f2}
  Unselected = {f2}
  Job = {j1, j2}
  TableOf <- OneTrace
  Concurrency = 2
  MaxVersion = 2
  MaxAttempts = 2
  MaxSweeps = 1
  MaxReplays = 1
  PruneChunk = 1
INVARIANTS MirrorFaithful ConvergedInOrder StateHoldsMerges
PROPERTIES MirrorCatchesUp
ACTION_CONSTRAINT SweepsApart
CONSTRAINTS AllFieldsOrNone SweepOrReplay
