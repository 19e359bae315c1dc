CONSTANTS
  Repo = {r1}
  Refresher = {p1, p2}
  Publisher = {h1}
  MaxDigests = 1
  MaxCommits = 3
  MaxFaults = 3
  MaxTries = 2
  Recent = 1
  Window = 2
  MaxBuilds = 6
  MaxTime = 3
  Yaml = {1, 2}
  Scanner = {s1, s2}
  Regenerator = {g1}
  Combine = 1
  BatchSize = 2
  MaxSource = 2
  MaxCopyFaults = 2
SPECIFICATION Spec
INVARIANTS
  OwlBotTypeOK
  TriesBounded
  NothingIsPassedOver
  OnlyLateIsLost
PROPERTIES
  NeverReplacedByOlder
  ImagesAreServed
  EveryCommitIsCopied
CHECK_DEADLOCK FALSE
