SPECIFICATION FairSpec
CONSTANTS
  Shutdown = Shutdown
  Passages = {p1, p2, p3}
  Span = 4
  LeadUnits = 1
  Length <- AllSpan
  LeadIn <- AllLead
  LeadOut <- AllLead
  Unopenable = {}
  Picked = {}
  RingCap = 3
  Fade = 2
  Lead = 1
  FourMinutes = 3
  PowerOff = FALSE
  Asks = {"shutdown", "next", "play"}
  MaxAsks = 2
  SeekPoints = {}
INVARIANTS
  ShutdownLeavesNoResume
PROPERTIES
  ShutdownInterruptsNothing
  ShutdownHappens
