SPECIFICATION DiscoverySpec
CONSTANTS
  Worker = {w1, w2}
  Nobody = nobody
  MaxRuns = 1
  MaxStalls = 1
  MaxDaily = 1
  MaxFaults = 1
PROPERTY StoppedStaysStopped
CHECK_DEADLOCK FALSE
