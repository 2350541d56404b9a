SPECIFICATION Spec
CONSTANTS
  Jobs = {"map", "product", "other"}
  Productization = {"product"}
  StateOf <- TheStateOf
  Cooling = {"NV"}
  Place <- ThePlaces
  Runs = {"daemon", "run"}
  Daemon = "daemon"
  Limit = 1
  Factor = 2
  ManualStatuses = {"pending"}
  MaxEdits = 1
  MaxFaults = 1
INVARIANTS TypeOK OneRunPerJob ProductizationLast
PROPERTY EveryJobIsTried
