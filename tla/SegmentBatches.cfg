SPECIFICATION FairPipelineSpec
CONSTANTS
  n1 = n1  n2 = n2  n3 = n3  n4 = n4
  e1 = e1
  r1 = r1  r2 = r2  r3 = r3
  h1 = h1  h2 = h2  h3 = h3
  c1 = c1  c2 = c2
  b1 = b1  b2 = b2
  Null = Null
  EntryIds = {n1, n2, n3, n4}
  EdgeIds = {}
  SourceRefs = {r1, r2, r3}
  Drafts <- SegmentDrafts
  NewStatuses = {"done"}
  MaxTime = 0
  MaxPending = 1
  Repos = {"R"}
  Patches = {"p"}
  Shas = {h1, h2}
  Commits <- Rewrite
  ChangeIds = {c1}
  Segments <- TwoSegments
  Batches = {b1, b2}
INVARIANTS
  OneActivityPerSegment
PROPERTIES
  SegmentKeepsItsEntity
  NoSegmentStarves
CHECK_DEADLOCK FALSE
