SPECIFICATION FairSpec
CONSTANTS
  Demo = {d1}
  Standard = {s1}
  Live = {l1}
  Slots = {a, b}
  Executions = {1, 2, 3}
  MaxFaults = 1
  NULL = NULL
CHECK_DEADLOCK FALSE
INVARIANTS TypeOK TerminalAgrees ResearchingIsHeld LeaseIsReserved DiscoveryIsKept
PROPERTIES KeepsRunPromise 
