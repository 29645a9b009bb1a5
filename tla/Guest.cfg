SPECIFICATION Spec
CONSTANTS
  file = file
  capture = capture
  other = other
  Passages = {file, capture, other}
  Whole = {file}
  Outside = {other}
  Waiting <- MCWaiting
  Span = 4
  Remnant = 1
  Depth = 2
  MaxSongs = 2
  MaxClients = 1
  MaxFaults = 1
  MaxHandovers = 2
  MaxEvents = 3
CHECK_DEADLOCK FALSE
INVARIANTS
  TypeOK
  CreditIsListening
  PlayedOutIsAPlay
PROPERTIES
  OneAnswerEach
  CarriedIsHeld
