SPECIFICATION Spec
CONSTANTS
  Shutdown = Shutdown
  Passages = {p1, p2}
  Span = 4
  LeadUnits = 1
  Length <- AllSpan
  LeadIn <- AllLead
  LeadOut <- AllLead
  Unopenable = {}
  Picked = {}
  RingCap = 3
  Fade = 2
  Lead = 1
  FourMinutes = 3
  PowerOff = FALSE
  Asks = {"seek", "skip", "pause", "play", "shutdown", "handoff"}
  MaxAsks = 2
  SeekPoints = {2}
INVARIANTS
  CreditIsListening
