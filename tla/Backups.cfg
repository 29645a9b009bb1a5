SPECIFICATION Spec
CONSTANTS
  Tables = 2
  LeftOut = LeftOut
  DayLength = 1
  MonthLength = 2
  YearLength = 4
  KeepDays = 2
  KeepMonths = 2
  FirstClock = 3
  MaxClock = 7
  MaxWrites = 1
  MaxExports = 1
  MaxStages = 1
  MaxStops = 2
  MaxFaults = 2
  MaxEvents = 3
CHECK_DEADLOCK FALSE
INVARIANTS
  TypeOK
  LadderKept
  OnlyWholeSnapshots
  WhatWasIsKept
  PutBackOnce
