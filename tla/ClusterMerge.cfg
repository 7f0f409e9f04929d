SPECIFICATION Spec
CONSTANTS
  h1 = h1
  h2 = h2
  h3 = h3
  h4 = h4
  Hosts <- AllHosts
  NoHost = NoHost
  DeviceLists <- DevicesFiles
  ServerCounts <- Counts
  Limits <- NoneOrThree
  Faults = FALSE
PROPERTIES MergeKeepsContexts
CHECK_DEADLOCK FALSE
