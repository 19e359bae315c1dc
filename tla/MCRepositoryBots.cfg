CONSTANTS
  i1 = i1
  i2 = i2
  p1 = p1
  p2 = p2
  p3 = p3
  p4 = p4
  t1 = t1
  t2 = t2
  Installation = {i1, i2}
  Repository = {p1, p2, p3, p4}
  CronPage = 2
  CronBatch = 2
  MaxCronFaults = 1
  MaxCronEdits = 1
  Target = {main}
  Picker = {h1, h2}
  Pick = 2
  MaxComments = 2
  MaxPickFaults = 1
  MaxPickTries = 2
  MaxTargetMoves = 1
  Visitor = {v1, v2}
  Content <- MCContent
  PullLabel = {"snippet-bot:force-run", "snippet-bot:no-prefix-req", "do not merge", "do-not-merge", "header-checker-lint:force-run"}
  CheckName = {"schema", "all", "mismatch", "prefix", "removal", "format", "header-check"}
  MaxActs = 3
  MaxVisitFaults = 1
  MaxVisitTries = 2
  Tag = {t1, t2}
  Prefixed = {t1}
  WellFormed = {t1}
  UsedOnSite = {t1}
  Branch = {"main"}
  Path = {"a", "b"}
  Runner = {r1, r2}
  MaxReleasable = 2
  MaxActions = 2
  MaxRunFaults = 1
  MaxRunTries = 2
SPECIFICATION Spec
INVARIANTS
  BotsTypeOK
  EveryRepositoryIsRun
  HoldsThePickAlone
  RequestsAreServed
  ChecksTellOfHead
  OneCommentOfHead
  ReleasesFollow
  AllIsReleased
CHECK_DEADLOCK FALSE
