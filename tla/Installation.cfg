SPECIFICATION FairSpec
CONSTANTS
  Processes <- MCProcesses
  Topics <- MCTopics
  Needs <- MCNeeds
  Installing <- MCInstalling
  Misconfigured = {"wrong"}
  MaxFaults = 3
INVARIANTS TypeOK RunningHasTopics
PROPERTIES AllRun
