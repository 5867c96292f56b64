SPECIFICATION Spec
CONSTANTS
  n1 = n1  n2 = n2  n3 = n3
  e1 = e1  e2 = e2
  r1 = r1  r2 = r2
  Null = Null
  EntryIds = {n1, n2, n3}
  EdgeIds = {}
  SourceRefs = {r1, r2}
  Drafts <- HistoryDrafts
  NewStatuses = {"done", "blocked"}
  MaxTime = 2
  MaxPending = 2
SYMMETRY Symmetry
INVARIANT EveryEntryHasItsAlias
CHECK_DEADLOCK FALSE
