CONSTANTS
  N = 2
  Cluster <- Apart
  Analog = {2}
  Settings <- Alike
  Off = 9
  MaxDiff = 1
  Events = {}
SPECIFICATION EventsSpec
PROPERTIES MinIntervalKept
