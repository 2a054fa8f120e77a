SPECIFICATION FairSpec
CONSTANTS
  w1 = w1
  w2 = w2
  c1 = c1
  c2 = c2
  p = p
  q = q
  notGiven = notGiven
  NotGiven = notGiven
  Workers = {w1, w2}
  Transactions = {c1, c2}
  Pieces = {p, q}
  MaxPieces = 2
  Urls <- SomeUrls
INVARIANTS
  WholeBody
  EachIsCounted
  AliveInside
  OnlyModelPaths
PROPERTIES
  ImplementsExchange
  HandlersEnd
