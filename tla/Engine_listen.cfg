SPECIFICATION Spec
CONSTANTS
  Shutdown = Shutdown
  Passages = {p1, p2, p3}
  Span = 5
  LeadUnits = 1
  Length <- AllSpan
  LeadIn <- AllLead
  LeadOut <- AllLead
  Unopenable = {}
  Picked = {}
  RingCap = 3
  Fade = 2
  Lead = 1
  FourMinutes = 3
  PowerOff = FALSE
  Asks = {"play", "pause", "skip", "next", "now", "remove", "shift"}
  MaxAsks = 3
  SeekPoints = {}
SYMMETRY PassageSymmetry
INVARIANTS
  TypeOK
  NothingVanishes
  OneVerdict
  UnheardIsNotDeclined
  OnlyStoppedIsSkipped
PROPERTIES
  ShownNeverGoesBack
