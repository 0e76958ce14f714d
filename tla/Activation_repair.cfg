SPECIFICATION Spec
CONSTANTS
  Profiles = {"main", "work"}
  Default = "main"
  Codes = {"c1", "c2"}
  Reconnect = {"c2"}
  Retries = 1
  MaxRuns = 1
  MaxSeeds = 1
  MaxLogouts = 1
  MaxFaults = 0
INVARIANT LoggedOutRepairKeepsDevice
CHECK_DEADLOCK FALSE
