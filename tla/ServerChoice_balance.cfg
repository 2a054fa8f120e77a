SPECIFICATION Spec
CONSTANTS
  a = a
  b = b
  c = c
  p = p
  q = q
  w1 = w1
  w2 = w2
  NoNode = NoNode
  NoHost = NoHost
  Addresses = {a, b, c}
  Views <- MCViews
  Workers = {w1, w2}
  Partitions = {p, q}
  ConfLists <- MCConf
  Rank <- MCRank
  MaxVersions = 2
  MaxPicks = 5
  IntMax = 1
  SizeRange = 16
INVARIANTS
  SpareInList
  ClusterIsOneView
  Balanced
PROPERTIES
  FallbackOnlyBeforeFill
CHECK_DEADLOCK FALSE
