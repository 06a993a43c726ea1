SPECIFICATION FairSpec
CONSTANTS
  c1 = c1
  c2 = c2
  c3 = c3
  d1 = d1
  d2 = d2
  x1 = x1
  x2 = x2
  x3 = x3
  Client = {c1, c2}
  Dom = {d1, d2}
  Msg = {x1, x2, x3}
  DomOf <- Doms
  Wants <- WantsOf
  Stalled = {c2}
  MaxKills = 1
INVARIANTS TypeOK SubscribedWhileServed
PROPERTIES EverySubscriberServed PushEnds
CHECK_DEADLOCK FALSE
