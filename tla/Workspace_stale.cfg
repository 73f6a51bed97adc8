SPECIFICATION MCSpec
CONSTANTS
  Focuses = {"panel"}
  Slots = {"card", "panel", "other", "second"}
  Documents <- OneDocument
  EditLists <- LongerOrMoved
  Durations = {2}
  RetentionTicks = 1
  MaxCompositions = 3
  ShortHistory = 3
  FewVersions = 2
  VersionBound = 4
INVARIANT RefreshedPanelIsAccepted
CHECK_DEADLOCK FALSE
