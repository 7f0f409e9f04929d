SPECIFICATION PlanSpec
CONSTANTS
  h1 = h1
  h2 = h2
  h3 = h3
  h4 = h4
  Hosts <- AllHosts
  NoHost = NoHost
  DeviceLists <- Files
  ServerCounts <- Counts
  Limits <- Counts
INVARIANTS PlanAsAsked
CHECK_DEADLOCK FALSE
