SPECIFICATION Spec
CONSTANTS
  p1 = p1
  p2 = p2
  Passages = {p1, p2}
  Keys = {"p1", "p2", "artist"}
  KeysOf <- MCKeysOf
  FirstPlayed <- MCFirstPlayed
  FirstDeclined = {p2}
  Depth = 1
  HeardMax = 2
  Writing = {TRUE, FALSE}
  MaxQueued = 2
  MaxBuilds = 1
  MaxUpsets = 1
INVARIANTS
  TypeOK
  MarksMatchNotes
  KnowsWhatWasHeard
  OnlyWhatWasHeardCounts
  ComingIsKnown
