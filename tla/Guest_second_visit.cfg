SPECIFICATION Spec
CONSTANTS
  file = file
  capture = capture
  other = other
  Passages = {file, capture}
  Whole = {file}
  Outside = {}
  Waiting <- MCTwo
  Span = 4
  Remnant = 1
  Depth = 1
  MaxSongs = 3
  MaxClients = 0
  MaxFaults = 0
  MaxHandovers = 3
  MaxEvents = 3
PROPERTIES
  StartsWhatSounded
