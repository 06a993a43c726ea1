SPECIFICATION FairSpec
CONSTANTS
  m1 = m1
  m2 = m2
  e1 = e1
  e2 = e2
  e3 = e3
  NoEntry = NoEntry
  Msg = {m1, m2}
  Entry = {e1, e2}
  MsgOf <- TwoMessages
  Silent = {e1}
  MaxAttempts = 2
  BatchLimit = 2
  MaxKeys = 0
  MaxRestarts = 0
  MaxFaults = 0
  Overdue = 1
PROPERTY AnsweringHostsServed
CHECK_DEADLOCK FALSE
