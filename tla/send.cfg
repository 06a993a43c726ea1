SPECIFICATION SubSpec
CONSTANTS
  n1 = n1
  n2 = n2
  n3 = n3
  b1 = b1
  b2 = b2
  b3 = b3
  r1 = r1
  Name = {n1, n2, n3}
  Box = {b1, b2, b3}
  NameOf <- Homes
  Fold <- Folded
  MaxIds = 4
  Request = {r1}
INVARIANTS SubTypeOK
PROPERTIES QueuedWasAllowed 
SYMMETRY Neighbours
