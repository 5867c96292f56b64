SPECIFICATION FairSpec
CONSTANTS
  e1 = e1  e2 = e2  e3 = e3  e4 = e4
  splitter = splitter  merger = merger
  Null = Null
  EntryIds <- FourEntries
  Stored <- ThreeStored
  Type <- TypeOf
  Occurred <- OccurredAt
  Blank = {e4}
  Similar <- SimilarPairs
  Answers <- SplitAnswers
  Callers = {splitter, merger}
  Kind <- KindOf
  Filters <- FiltersOf
INVARIANTS
  TypeOK
  ReportIsTrue
  NodesFitTheirEntries
PROPERTIES
  PersistIsAtomic
  SplitAgainOnlyTogether
  EveryRunEnds
CHECK_DEADLOCK FALSE
