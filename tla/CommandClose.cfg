SPECIFICATION Spec
CONSTANTS
  Servers <- ApiAndHealth
  Unix = {"api"}
  Secure = {}
  Probed = {"api"}
  MaxRequests = 1
  MaxFaults = 2
INVARIANT CloseStopsServer
