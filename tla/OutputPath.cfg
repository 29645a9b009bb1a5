SPECIFICATION Spec
CONSTANTS
  RetryMax = 2
  Watch = 1
  RestartAfter = 1
  Hosts = {"pipewire", "windows"}
  Holds = {h1, h2}
  Prompt = TRUE
  MaxAsks = 1
  MaxFaults = 2
SYMMETRY HoldSymmetry
INVARIANTS
  TypeOK
  FoundAgainInTime
  DeviceDoesAsAsked
  MusicIsPutBack
