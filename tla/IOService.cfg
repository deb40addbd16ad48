SPECIFICATION FairSpec
CONSTANTS
  MsecPerSec = 2
  UsecPerMsec = 2
  DefaultTimeout = 1
  RolloverSeconds = 1
  Timeouts <- MCTimeouts
  Intervals <- MCIntervals
  ClockSteps <- MCClockSteps
  MaxForward = 3
  MaxSetBack = 9
  StartOfClock = 9
  MaxRequests = 2
  MaxInt = 1
  MaxLong = 2
  PipeCapacity = 1
  MaxWakeUps = 1
  MaxTime = 2
CHECK_DEADLOCK FALSE
INVARIANTS
  NeverEarly
  NoDrift
  NoOversleep
  TimersAccounted
  TasksInOrder
PROPERTIES
  DueTimerRuns
  TaskRuns
  WakeUpHeard
