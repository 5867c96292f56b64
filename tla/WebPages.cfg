SPECIFICATION WebSpec
CONSTANTS
  n1 = n1  n2 = n2  n3 = n3
  e1 = e1  e2 = e2
  Null = Null
  Orphan = Orphan
  EntryIds = {n1, n2, n3}
  EdgeIds = {e1, e2}
  SourceRefs = {}
  Drafts <- PageDrafts
  NewStatuses = {"done"}
  MaxTime = 1
  MaxPending = 1
  Instants = {0}
  Base = 2
  Width = 2
  Epochs = {0, 1, 2, 3}
  Densities = {0, 300, 7000}
SYMMETRY Symmetry
INVARIANTS
  PageTypeOK
  PageIsFresh
  ButtonsFit
  AsOfHeaderAgrees
  DotsInOrder
PROPERTIES
  GraphAgreesWithGoalPage
CHECK_DEADLOCK FALSE
