SPECIFICATION NotifySpec
CONSTANTS
  alice = alice
  bob = bob
  n1 = n1
  n2 = n2
  n3 = n3
  n4 = n4
  n5 = n5
  s1 = s1
  s2 = s2
  Clients = {alice, bob}
  Servers = {n1}
  Sessions = {s1, s2}
  From <- MCFrom
  To <- MCTo
  Proxy <- MCProxyShared
  Registered = {alice, bob}
  Kad <- MCKadAll
  Boot = NoPeer
  NoPeer = NoPeer
  Flaky = {"direct"}
  Fragile = {}
  MayHangUp = {}
  HashOrder <- MCHashOrder
PROPERTY DialSecures
PROPERTY EachReportedOnce
CHECK_DEADLOCK FALSE
