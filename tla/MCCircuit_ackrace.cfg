SPECIFICATION FairSpec
CONSTANTS
  alice = alice
  bob = bob
  n1 = n1
  n2 = n2
  n3 = n3
  n4 = n4
  n5 = n5
  s1 = s1
  s2 = s2
  Clients = {alice, bob}
  Servers = {n1, n2, n3, n4}
  Sessions = {s1}
  From <- MCFrom
  To <- MCTo
  Proxy <- MCProxyApart
  Registered = {alice, bob}
  Kad <- MCKadShort
  Boot = NoPeer
  NoPeer = NoPeer
  Flaky = {}
  Fragile = {}
  MayHangUp = {}
PROPERTY DialedThenSecured
CHECK_DEADLOCK FALSE
