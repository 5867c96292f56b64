SPECIFICATION Spec
CONSTANTS
  n1 = n1  n2 = n2  e1 = e1
  Null = Null
  EntryIds = {n1, n2}
  EdgeIds = {e1}
  SourceRefs = {}
  Drafts <- TextDrafts
  NewStatuses = {"done"}
  MaxTime = 5
  MaxPending = 1
  Base = 2
  Width = 2
INVARIANT DetachCompareIsChronological
CHECK_DEADLOCK FALSE
