SPECIFICATION ReminderFairSpec
CONSTANTS
  meeting = meeting
  notifySend = notifySend
  gdbus = gdbus
  NoReminder = NoReminder
  TimedEvents = {meeting}
  Strategies <- TwoStrategies
  StartOf <- AtTwo
  EndOf <- Later
  Occurrences <- Single
  Befores = {0, 1}
  Period = 2
  KeepFor = 2
  MaxTime = 4
  MaxSets = 2
  MaxStarts = 2
  MaxFaults = 2
  MaxShown = 3
INVARIANT ShownOnce
PROPERTY DueIsShown
\* The user may stop, and the clock has run out.
CHECK_DEADLOCK FALSE
