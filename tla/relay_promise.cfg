SPECIFICATION FairSpec
CONSTANTS
  m1 = m1
  m2 = m2
  e1 = e1
  e2 = e2
  e3 = e3
  NoEntry = NoEntry
  Msg = {m1}
  Entry = {e1, e2}
  MsgOf <- TwoRecipients
  Silent = {}
  MaxAttempts = 2
  BatchLimit = 2
  MaxKeys = 2
  MaxRestarts = 0
  MaxFaults = 0
  Overdue = 1
INVARIANTS SettledVerdict SameBytes
PROPERTIES EventuallyAnswered RefinesOutbox
