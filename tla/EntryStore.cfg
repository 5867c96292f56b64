SPECIFICATION LabelSpec
CONSTANTS
  n1 = n1  n2 = n2  n3 = n3
  e1 = e1  e2 = e2
  r1 = r1  r2 = r2
  Null = Null
  EntryIds = {n1, n2, n3}
  EdgeIds = {e1, e2}
  SourceRefs = {r1}
  Drafts <- LabelledDrafts
  NewStatuses = {"done", "blocked"}
  MaxTime = 1
  MaxPending = 1
  LabelRequests <- Requests
SYMMETRY Symmetry
INVARIANTS
  TypeOK
  OneLivePerChain
  HistoryIsAPath
  FtsMirrorsLive
  LinksResolve
  OneVersionAsOf
  OneLinkAsOf
  AsOfNowIsCurrent
  LabelsAreSecondary
PROPERTIES
  PastEntriesAreFixed
  PastLinksAreFixed
  SourceRefIsStable
  SupersedeKeepsLinks
  LabelsStayWithTheirVersion
CHECK_DEADLOCK FALSE
