SPECIFICATION RepeatedSpec
CONSTANTS
  e1 = e1  e2 = e2  e3 = e3  e4 = e4
  splitter = splitter  merger = merger
  Null = Null
  EntryIds = {e1}
  Stored = {e1}
  Type <- TypeOf
  Occurred <- OccurredAt
  Blank = {}
  Similar = {}
  Answers <- SplitAnswers
  Callers = {splitter}
  Kind <- KindOf
  Filters <- FiltersOf
PROPERTIES
  RelateIsRetried
CHECK_DEADLOCK FALSE
