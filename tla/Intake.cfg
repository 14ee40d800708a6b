SPECIFICATION Spec
CONSTANTS
  w1 = w1
  w2 = w2
  Workers = {w1, w2}
  Streams <- MCStreams
  Window = 3
  Sustain = 1
  Recovery = 1
  MinSeverity = 2
  MaxRedeliveries = 1
  MaxCommands = 1
  MaxCrashes = 1
INVARIANTS
  EventTablesAgree
  SpikeAloneNeverNotifies
PROPERTIES
  NothingGoesBack
  QuietWhileCooling
  NoUnseenReopen
CONSTRAINT FewFaults
SYMMETRY WorkerSymmetry
CHECK_DEADLOCK FALSE
