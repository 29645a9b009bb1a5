SPECIFICATION Spec
CONSTANTS
  Hub = hub
  Appliances = {appliance}
  Phones = {phone}
  NoOne = NoOne
  AtOnce = 1
  MaxEdits = 2
  MaxRuns = 2
  MaxFaults = 1
CHECK_DEADLOCK FALSE
INVARIANTS
  TypeOK
  NewestWordHeld
  NeverHalfASwitch
  InStepAfterARun
  TheOnlyWordStands
