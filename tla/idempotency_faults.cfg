SPECIFICATION FairSpec
CONSTANTS
  r1 = r1  r2 = r2  r3 = r3
  k1 = k1  b1 = b1  b2 = b2
  Requests = {r1, r2, r3}
  Keys = {k1}
  Bodies = {b1, b2}
  Codes = {200, 400, 500}
  NoEntry = NoEntry
  NoKey = NoKey
  KeyOf <- MCKeyOf
  BodyOf <- MCBodyOf
  Faults = {"store", "panic", "crash", "lockExpiry", "entryExpiry", "ambiguous", "body"}
SYMMETRY FirstTwo
INVARIANTS
  TypeOK
  EffectOncePerKey
  SafeToRetry
  ReplayIsFaithful
PROPERTIES
  OnlyOwnerChangesEntry
  ImplementsOncePerKey
CHECK_DEADLOCK FALSE
