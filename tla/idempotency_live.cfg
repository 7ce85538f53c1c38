SPECIFICATION FairSpec
CONSTANTS
  r1 = r1  r2 = r2  r3 = r3
  k1 = k1  b1 = b1  b2 = b2
  Requests = {r1, r2, r3}
  Keys = {k1}
  Bodies = {b1, b2}
  Codes = {200, 500}
  NoEntry = NoEntry
  NoKey = NoKey
  KeyOf <- MCOneKeyless
  BodyOf <- MCBodyOf
  Faults = {"store", "disconnect", "lockExpiry"}
PROPERTY
  EveryRequestAnswered
CHECK_DEADLOCK FALSE
