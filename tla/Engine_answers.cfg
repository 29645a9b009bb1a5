SPECIFICATION FairSpec
CONSTANTS
  Shutdown = Shutdown
  Passages = {p1, p2, p3}
  Span = 4
  LeadUnits = 1
  Length <- AllSpan
  LeadIn <- AllLead
  LeadOut <- AllLead
  Unopenable = {p3}
  Picked = {p2}
  RingCap = 3
  Fade = 2
  Lead = 1
  FourMinutes = 3
  PowerOff = FALSE
  Asks = {"skip", "pause", "play", "remove"}
  MaxAsks = 2
  SeekPoints = {}
PROPERTIES
  EverythingIsAnswered
