SPECIFICATION Spec
CONSTANTS
  c1 = c1
  c2 = c2
  ours1 = ours1
  ours2 = ours2
  old = old
  foreign = foreign
  p1 = p1
  p2 = p2
  p3 = p3
  Clients <- TwoClients
  Daemons = {ours1, old, foreign}
  Ours = {ours1}
  Old = {old}
  Ports <- TwoPorts
  Conventional = p1
  Pinned = NoPort
  NoPort = NoPort
  NoOne = NoOne
  Torn = Torn
  Mortal = {c1, ours1}
  MaxByHand = 1
  ByHand = {old, foreign}
  MaxPolls = 1
INVARIANT OneStarter
INVARIANT LockHasOwner
PROPERTY FoundIsOurs
CHECK_DEADLOCK FALSE
PROPERTY ResolutionEnds
PROPERTY NeverWedged
