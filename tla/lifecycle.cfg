\* Two HTTP requests and two RPCs; any server may fail, a signal may come.
CONSTANTS
  h1 = h1  h2 = h2  g1 = g1  g2 = g2
  HTTPRequests = {h1, h2}
  RPCs = {g1, g2}
SPECIFICATION FairSpec
INVARIANTS DatabaseOutlivesHandlers CleanStop
PROPERTY SignalStops
\* The process ends.
CHECK_DEADLOCK FALSE
