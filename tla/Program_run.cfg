SPECIFICATION Spec
CONSTANTS
  k1 = k1
  k2 = k2
  a = a
  b = b
  bad = bad
  w1 = w1
  w2 = w2
  lan1 = lan1
  lan2 = lan2
  public = public
  NoKey = NoKey
  Keys = {k1, k2}
  Addresses = {a, b}
  BadItems = {bad}
  Workers = {w1, w2}
  Files <- MCFiles
  Main = Main
  Loop = Loop
  h1 = h1
  h2 = h2
  Handles = {h1, h2}
  Nobody = Nobody
  NoIp = NoIp
  Loopback = Loopback
  Lan = {lan1, lan2}
  Machines <- MCMachines
INVARIANTS
  NoEmptyPartition
  DefinedWithoutGap
  ListsOfFile
  LookupsOnlyRead
  UsedWhileAlive
  SessionClosedAtExit
  LanAddressFound
