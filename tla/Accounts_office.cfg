SPECIFICATION MCSpec
CONSTANTS
  Focuses = {"office", "clock"}
  Users = {u1, u2}
  Emails = {e1, e2}
  BootstrapEmails = {e1}
  Logins = {1, 2}
  Callbacks = {c1, c2}
  Sessions = {1, 2}
  Tabs = {p1, p2}
  None = None
  TxnTtl = 1
  IdleTtl = 3
  AbsoluteTtl = 4
  TouchInterval = 2
  TxnRetention = 1
  SessionRetention = 1
  PassLimit = 1
  MaxNow = 4
  MaxVersion = 3
INVARIANTS AdminRemains OneSessionPerLogin LiveSessionKeepsStanding
PROPERTIES DecisionOnWhatWasSeen IdleLimitFollowsUse OverdueEnds
CHECK_DEADLOCK FALSE
