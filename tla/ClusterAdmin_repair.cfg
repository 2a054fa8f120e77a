SPECIFICATION FairSpec
CONSTANTS
  Main = Main
  Loop = Loop
  Nobody = Nobody
  NoNode = NoNode
  h1 = h1
  h2 = h2
  h3 = h3
  a = a
  b = b
  x = x
  Handles = {h1, h2}
  Names <- MCNames
  Addresses <- MCAddresses
  Views <- TwoViews
  Faults <- Timeouts
  MaxPolls = 0
  MaxTries = 1
  MaxVersions = 2
  MaxEvents = 1
PROPERTIES
  Repaired
CHECK_DEADLOCK FALSE
