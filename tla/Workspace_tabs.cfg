SPECIFICATION MCSpec
CONSTANTS
  Focuses = {"history", "card", "panel", "both"}
  Slots = {"card", "panel", "other", "second"}
  Documents <- OneDocument
  EditLists <- LongerOrMoved
  Durations = {2}
  RetentionTicks = 1
  MaxCompositions = 3
  ShortHistory = 3
  FewVersions = 2
  VersionBound = 4
INVARIANTS HistoryIsAChain
PROPERTIES CommandsFitWhatWasSeen 
CHECK_DEADLOCK FALSE
