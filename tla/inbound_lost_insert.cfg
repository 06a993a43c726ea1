SPECIFICATION Spec
CONSTANTS
  n1 = n1
  n2 = n2
  b1 = b1
  b2 = b2
  b3 = b3
  m1 = m1
  m2 = m2
  Name = {n1}
  Box = {b1}
  NameOf <- OneHome
  Mail = {m1}
  RcptsOf <- ToOne
  Parseable = {m1}
  Agent = {}
  PollLimit = 1
  MaxIds = 1
  MaxBreaks = 0
  MaxFaults = 1
INVARIANT ConfirmedIsStored
