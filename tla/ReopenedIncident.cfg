SPECIFICATION Spec
CONSTANTS
  w1 = w1
  w2 = w2
  Workers = {w1, w2}
  Streams <- TwoBreaches
  Window = 3
  Sustain = 1
  Recovery = 1
  MinSeverity = 2
  MaxRedeliveries = 0
  MaxCommands = 1
  MaxCrashes = 0
PROPERTY EventsDoNotReopen
CHECK_DEADLOCK FALSE
