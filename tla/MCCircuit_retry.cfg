SPECIFICATION Spec
CONSTANTS
  alice = alice
  bob = bob
  n1 = n1
  n2 = n2
  n3 = n3
  n4 = n4
  n5 = n5
  s1 = s1
  s2 = s2
  Clients = {alice, bob}
  Servers = {n1, n2, n3, n4}
  Sessions = {s1}
  From <- MCFrom
  To <- MCTo
  Proxy <- MCProxyApart
  Registered = {alice, bob}
  Kad <- MCKadRoles
  Boot = NoPeer
  NoPeer = NoPeer
  Flaky = {"dial", "direct", "sink", "answer", "relay", "expend"}
  Fragile = {}
  MayHangUp = {}
INVARIANT TypeOK
INVARIANT DistinctTries
INVARIANT SuccessMeansLinked
INVARIANT GiveUpSpreads
CHECK_DEADLOCK FALSE
