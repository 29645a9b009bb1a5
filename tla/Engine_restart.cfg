SPECIFICATION Spec
CONSTANTS
  Shutdown = Shutdown
  Passages = {p1, p2, p3}
  Span = 3
  LeadUnits = 0
  Length <- AllSpan
  LeadIn <- AllLead
  LeadOut <- AllLead
  Unopenable = {}
  Picked = {}
  RingCap = 2
  Fade = 2
  Lead = 1
  FourMinutes = 3
  PowerOff = FALSE
  Asks = {"crash", "skip"}
  MaxAsks = 2
  SeekPoints = {}
SYMMETRY PassageSymmetry
INVARIANTS
  NothingPlaysTwice
PROPERTIES
  APowerCutLosesNothing
  ResumeIsItsOwn
