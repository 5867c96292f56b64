SPECIFICATION PipelineSpec
CONSTANTS
  n1 = n1  n2 = n2  n3 = n3  n4 = n4
  e1 = e1
  r1 = r1  r2 = r2  r3 = r3
  h1 = h1  h2 = h2  h3 = h3
  c1 = c1  c2 = c2
  b1 = b1  b2 = b2
  Null = Null
  EntryIds = {n1, n2, n3}
  EdgeIds = {e1}
  SourceRefs = {r1, r2, r3}
  Drafts <- GoalAndSegmentDrafts
  NewStatuses = {"done"}
  MaxTime = 1
  MaxPending = 1
  Repos = {"R"}
  Patches = {"p"}
  Shas = {h1, h2, h3}
  Commits <- RewrittenCommits
  ChangeIds = {c1, c2}
  Segments <- OneSegment
  Batches = {b1, b2}
SYMMETRY Symmetry
INVARIANTS
  PipelineTypeOK
  EventTimeIsAuthored
  OneCurrentSha
PROPERTIES
  ImplementsEntryStore
CHECK_DEADLOCK FALSE
