SPECIFICATION Spec
CONSTANTS
  n1 = n1
  n2 = n2
  b1 = b1
  b2 = b2
  b3 = b3
  m1 = m1
  m2 = m2
  Name = {n1, n2}
  Box = {b1, b2, b3}
  NameOf <- Homes
  Mail = {m1}
  RcptsOf <- ToThree
  Parseable = {m1}
  Agent = {}
  PollLimit = 1
  MaxIds = 3
  MaxBreaks = 1
  MaxFaults = 1
INVARIANTS TypeOK AcceptedIsStored FirstRecipientAddressed OneCopyPerTry RefusedIsNotStored OwnDomain
PROPERTIES AcceptedWasAcceptable StartsEmpty
