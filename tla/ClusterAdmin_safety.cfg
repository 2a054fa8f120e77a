SPECIFICATION Spec
CONSTANTS
  Main = Main
  Loop = Loop
  Nobody = Nobody
  NoNode = NoNode
  h1 = h1
  h2 = h2
  h3 = h3
  a = a
  b = b
  x = x
  Handles = {h1, h2}
  Names <- MCNames
  Addresses <- MCAddresses
  Views <- MCViews
  Faults <- AllFaults
  MaxPolls = 1
  MaxTries = 2
  MaxVersions = 2
  MaxEvents = 1
INVARIANTS
  LockDiscipline
  SingleSession
  RestartFindsNoHandle
  HolderCanMove
  QuietMeansWatched
PROPERTIES
  StuckForever
  ImplementsDirectory
SYMMETRY HandleSymmetry
CHECK_DEADLOCK FALSE
