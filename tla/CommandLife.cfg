SPECIFICATION FairSpec
CONSTANTS
  Servers <- ServerCommand
  Unix = {"api"}
  Secure = {"health"}
  Probed = {"api"}
  MaxRequests = 2
  MaxFaults = 4
INVARIANTS OnlyEnvironmentFails ClosedIsDrained CommandInv
PROPERTIES StopsUnlessStreaming ComesBack
