CONSTANTS
  N = 2
  Cluster <- Apart
  Analog = {2}
  Settings <- Various
  Off = 4
  MaxDiff = 1
  Events = {"config", "reset", "bind"}
SPECIFICATION PartSpec
INVARIANTS MaxIntervalKept AllReported
PROPERTIES TableServed
